--------------------------- MODULE LogPipe_proof ---------------------------
(***************************************************************************)
(* Proofs about LogPipe, whatever is read, however deep the tree is and    *)
(* however its nodes and its clusters are capped.                          *)
(*                                                                         *)
(* First Drain: two clusters never share a pattern.  Then what becomes of  *)
(* the clusters: a pass sorts the templates, takes groups of them together *)
(* and leaves one template of each; one function, from the clusters to the *)
(* templates that are left, is carried through both passes and the folding *)
(* of equal ids.  The counts and the times of the templates are those of   *)
(* the clusters it takes there, and absorbedBy is that function, written   *)
(* down as pairs of ids, so that resolving an entry through it finds the   *)
(* template the entry is counted in.                                       *)
(***************************************************************************)
EXTENDS LogCollect, FiniteSetTheorems, TLAPS

(* Induction over an interval, of a set: a set that is closed under the    *)
(* successor would be mapped one to one into itself without 0.             *)
LEMMA Reached ==
  ASSUME NEW n \in Nat, NEW A, 0 \in A, \A k \in 0..(n - 1) : k \in A => k + 1 \in A
  PROVE  \A k \in 0..n : k \in A
<1> SUFFICES ASSUME NEW m \in 0..n, m \notin A PROVE FALSE
  OBVIOUS
<1> DEFINE B == A \cap (0..m)
           f == [k \in B |-> k + 1]
<1>1. IsFiniteSet(B) /\ Cardinality(B) \in Nat
  <2>1. IsFiniteSet(0..m)
    BY FS_Interval
  <2>2. B \subseteq 0..m
    OBVIOUS
  <2>3. IsFiniteSet(B)
    BY <2>1, <2>2, FS_Subset
  <2> QED BY <2>3, FS_CardinalityType
<1>2. 0 \in B
  OBVIOUS
<1>3. IsFiniteSet(B \ {0}) /\ Cardinality(B \ {0}) = Cardinality(B) - 1
  BY <1>1, <1>2, FS_RemoveElement
<1>4. f \in [B -> B \ {0}]
  OBVIOUS
<1>5. \E x, y \in B : x # y /\ f[x] = f[y]
  <2> HIDE DEF B, f
  <2> QED BY <1>1, <1>3, <1>4, FS_PigeonHole
<1> QED BY <1>5

(* A set listed by an interval is finite.                                  *)
LEMMA ImageFinite ==
  ASSUME NEW n \in Nat, NEW w
  PROVE  IsFiniteSet({w[k] : k \in 1..n})
<1> DEFINE F(m) == {w[k] : k \in 1..m}
           Q == {m \in 0..n : IsFiniteSet(F(m))}
<1>1. 0 \in Q
  <2>1. F(0) = {}
    OBVIOUS
  <2> QED BY <2>1, FS_EmptySet
<1>2. \A m \in 0..(n - 1) : m \in Q => m + 1 \in Q
  <2> SUFFICES ASSUME NEW m \in 0..(n - 1), m \in Q PROVE m + 1 \in Q
    OBVIOUS
  <2>1. F(m + 1) = F(m) \cup {w[m + 1]}
    <3>1. \A k : k \in 1..(m + 1) <=> k \in 1..m \/ k = m + 1
      OBVIOUS
    <3> QED BY <3>1
  <2>2. IsFiniteSet(F(m)) /\ m + 1 \in 0..n
    OBVIOUS
  <2> HIDE DEF F
  <2> QED BY <2>1, <2>2, FS_AddElement
<1>3. n \in Q
  <2> HIDE DEF Q
  <2> QED BY <1>1, <1>2, Reached
<1> QED BY <1>3

(* What LeastOf takes is there.                                            *)
LEMMA FirstIsLeast ==
  ASSUME NEW S \in SUBSET Nat, S # {}
  PROVE  LeastOf(S) \in S /\ \A j \in S : LeastOf(S) <= j
<1>1. PICK x \in S : TRUE
  OBVIOUS
<1> DEFINE A == {k \in Nat : \A j \in S : k <= j}
<1>2. CASE \E i \in S : \A j \in S : i <= j
  BY <1>2 DEF LeastOf
<1>3. CASE ~\E i \in S : \A j \in S : i <= j
  <2>1. 0 \in A
    OBVIOUS
  <2>2. \A k \in 0..((x + 1) - 1) : k \in A => k + 1 \in A
    <3> SUFFICES ASSUME NEW k \in 0..((x + 1) - 1), k \in A PROVE k + 1 \in A
      OBVIOUS
    <3>1. k \notin S
      BY <1>3
    <3>2. \A j \in S : k + 1 <= j
      BY <3>1
    <3> QED BY <3>2
  <2>3. x + 1 \in A
    <3> HIDE DEF A
    <3>1. x + 1 \in Nat
      BY <1>1
    <3>2. \A k \in 0..(x + 1) : k \in A
      BY <2>1, <2>2, <3>1, Reached
    <3> QED BY <3>1, <3>2
  <2> QED BY <1>1, <2>3
<1> QED BY <1>2, <1>3
-----------------------------------------------------------------------------
Strings == Seq(STRING)

(* What labels a branch, and the nodes as far as a walk knows them.        *)
Labels == STRING \cup {"short", "medium", "long", "vlong"}
Paths == Seq(Labels)

(* A walk has a bucket and as many keys as the depth leaves.               *)
LEMMA KeysFacts ==
  ASSUME NEW text \in Strings
  PROVE  /\ Len(WalkKeys(text)) = 1 + Min2(MaxDepth - 1, Len(text))
         /\ Len(WalkKeys(text)) \in Nat \ {0}
         /\ \A k \in 1..Len(WalkKeys(text)) :
              /\ WalkKeys(text)[k] \in Labels
              /\ WalkKeys(text)[k] =
                   IF k = 1 THEN Bucket(Len(text)) ELSE BranchKey(text[k - 1])
              /\ k > 1 => k - 1 \in 1..Len(text)
<1> DEFINE n == 1 + Min2(MaxDepth - 1, Len(text))
           key(k) == IF k = 1 THEN Bucket(Len(text)) ELSE BranchKey(text[k - 1])
<1>1. n \in Nat \ {0} /\ Len(text) \in Nat
  BY DrainAssumption DEF Min2, Strings
<1>2. Bucket(Len(text)) \in Labels
  <2>1. \/ Len(text) <= 3
        \/ Len(text) > 3 /\ Len(text) <= 8
        \/ Len(text) > 8 /\ Len(text) <= 15
        \/ Len(text) > 15
    BY <1>1
  <2>2. Bucket(Len(text)) \in {"short", "medium", "long", "vlong"}
    BY <2>1 DEF Bucket
  <2> QED BY <2>2 DEF Labels
<1>3. \A k \in 1..n : k > 1 => k - 1 \in 1..Len(text)
  BY DrainAssumption DEF Min2, Strings
<1>4. \A k \in 1..n : k > 1 => text[k - 1] \in STRING
  BY <1>3 DEF Strings
<1>5. \A k \in 1..n : key(k) \in Labels
  BY <1>1, <1>2, <1>4, LogsAssumption DEF BranchKey, Labels
<1>6. WalkKeys(text) = [k \in 1..n |-> key(k)]
  BY DEF WalkKeys
<1> HIDE DEF n, key
<1>7. Len(WalkKeys(text)) = n
  BY <1>1, <1>6
<1> QED BY <1>1, <1>3, <1>5, <1>6, <1>7 DEF n, key

(* Each node of a walk is the one before it, one branch further.           *)
LEMMA WalkIs ==
  ASSUME NEW text \in Strings
  PROVE  LET keys == WalkKeys(text) IN
         \E walk \in [0..Len(keys) -> Paths] :
           /\ walk[0] = <<>>
           /\ \A k \in 1..Len(keys) : walk[k] = EnsureChild(walk[k - 1], keys[k])
           /\ WalkTree(text) = [k \in 1..Len(keys) |-> walk[k]]
<1> DEFINE keys == WalkKeys(text)
           n == Len(keys)
           Is(f, m) == f = [k \in 0..m |->
                              IF k = 0 THEN <<>> ELSE EnsureChild(f[k - 1], keys[k])]
           A == {m \in 0..n : \E f : Is(f, m)}
<1>1. n \in Nat
  BY KeysFacts
<1>2. 0 \in A
  <2> DEFINE f == [k \in 0..0 |-> <<>>]
  <2>1. \A k \in 0..0 : k = 0 /\ f[k] = <<>>
    OBVIOUS
  <2>2. f = [k \in 0..0 |-> IF k = 0 THEN <<>> ELSE EnsureChild(f[k - 1], keys[k])]
    OBVIOUS
  <2>3. \E h : Is(h, 0)
    BY <2>2
  <2> QED BY <1>1, <2>3
<1>3. \A m \in 0..(n - 1) : m \in A => m + 1 \in A
  <2> SUFFICES ASSUME NEW m \in 0..(n - 1), NEW f, Is(f, m)
               PROVE  \E g : Is(g, m + 1)
    BY <1>1
  <2> DEFINE g == [k \in 0..(m + 1) |->
                     IF k = m + 1 THEN EnsureChild(f[m], keys[m + 1]) ELSE f[k]]
  <2>1. \A k \in 0..(m + 1) :
          g[k] = IF k = 0 THEN <<>> ELSE EnsureChild(g[k - 1], keys[k])
    OBVIOUS
  <2>2. Is(g, m + 1)
    BY <2>1
  <2> QED BY <2>2
<1>4. PICK f : Is(f, n)
  <2> HIDE DEF A
  <2>1. \A m \in 0..n : m \in A
    BY <1>1, <1>2, <1>3, Reached
  <2>2. n \in A
    BY <1>1, <2>1
  <2> QED BY <2>2 DEF A
<1> DEFINE walk == CHOOSE h : Is(h, n)
<1>5. Is(walk, n)
  <2> HIDE DEF Is
  <2> QED BY <1>4
<1>6. WalkTree(text) = [k \in 1..n |-> walk[k]]
  BY DEF WalkTree
<1> HIDE DEF walk
<1>7. /\ walk[0] = <<>>
      /\ \A k \in 1..n : walk[k] = EnsureChild(walk[k - 1], keys[k])
      /\ DOMAIN walk = 0..n
  BY <1>1, <1>5
<1>8. \A k \in 0..n : walk[k] \in Paths
  <2> DEFINE T == {k \in 0..n : walk[k] \in Paths}
  <2>1. 0 \in T
    <3>1. <<>> \in Paths
      BY DEF Paths
    <3> QED BY <1>1, <1>7, <3>1
  <2>2. \A k \in 0..(n - 1) : k \in T => k + 1 \in T
    <3> SUFFICES ASSUME NEW k \in 0..(n - 1), walk[k] \in Paths
                 PROVE  walk[k + 1] \in Paths
      BY <1>1
    <3>1. k + 1 \in 1..n /\ walk[k + 1] = EnsureChild(walk[(k + 1) - 1], keys[k + 1])
      BY <1>1, <1>7
    <3>2. keys[k + 1] \in Labels
      BY <3>1, KeysFacts
    <3>3. EnsureChild(walk[k], keys[k + 1]) \in Paths
      BY <3>2, LogsAssumption DEF EnsureChild, Paths, Labels
    <3> QED BY <1>1, <3>1, <3>3
  <2>3. \A k \in 0..n : k \in T
    <3> HIDE DEF T
    <3> QED BY <1>1, <2>1, <2>2, Reached
  <2> QED BY <2>3
<1>9. walk \in [0..n -> Paths]
  BY <1>5, <1>7, <1>8
<1> QED BY <1>6, <1>7, <1>9

Prefix(p, k) == [i \in 1..k |-> p[i]]

LEMMA PrefixFacts ==
  ASSUME NEW p \in Paths
  PROVE  /\ Prefix(p, 0) = <<>>
         /\ Prefix(p, Len(p)) = p
         /\ \A k \in 0..Len(p) : Prefix(p, k) \in Paths /\ Len(Prefix(p, k)) = k
         /\ \A k \in 1..Len(p) : Prefix(p, k) = Append(Prefix(p, k - 1), p[k])
         /\ \A x \in Labels : \A k \in 0..Len(p) : Prefix(Append(p, x), k) = Prefix(p, k)
<1>1. Prefix(p, 0) = <<>>
  BY DEF Prefix
<1>2. Prefix(p, Len(p)) = p
  BY DEF Prefix, Paths
<1>3. \A k \in 0..Len(p) : Prefix(p, k) \in Paths /\ Len(Prefix(p, k)) = k
  BY DEF Prefix, Paths
<1>4. ASSUME NEW k \in 1..Len(p)
      PROVE  Prefix(p, k) = Append(Prefix(p, k - 1), p[k])
  <2>1. k - 1 \in 0..Len(p) /\ k \in 0..Len(p) /\ p[k] \in Labels
    BY DEF Paths
  <2>2. /\ Prefix(p, k - 1) \in Paths /\ Len(Prefix(p, k - 1)) = k - 1
        /\ Prefix(p, k) \in Paths /\ Len(Prefix(p, k)) = k
    BY <1>3, <2>1
  <2>3. Append(Prefix(p, k - 1), p[k]) \in Paths /\ Len(Append(Prefix(p, k - 1), p[k])) = k
    BY <2>1, <2>2 DEF Paths
  <2>4. \A i \in 1..k : Prefix(p, k)[i] = Append(Prefix(p, k - 1), p[k])[i]
    BY <2>1, <2>2 DEF Prefix, Paths
  <2> QED BY <2>2, <2>3, <2>4 DEF Paths
<1>5. ASSUME NEW x \in Labels, NEW k \in 0..Len(p)
      PROVE  Prefix(Append(p, x), k) = Prefix(p, k)
  BY DEF Prefix, Paths
<1> QED BY <1>1, <1>2, <1>3, <1>4, <1>5

LEMMA AppendOnce ==
  ASSUME NEW p \in Paths, NEW q \in Paths, NEW x \in Labels, NEW y \in Labels,
         Append(p, x) = Append(q, y)
  PROVE  p = q /\ x = y
<1>1. Len(p) \in Nat /\ Len(q) \in Nat /\ Len(p) + 1 = Len(q) + 1
  BY DEF Paths
<1>2. Append(p, x)[Len(p) + 1] = x /\ Append(q, y)[Len(q) + 1] = y
  BY DEF Paths
<1>3. \A i \in 1..Len(p) : p[i] = Append(p, x)[i]
  BY DEF Paths
<1>4. \A i \in 1..Len(q) : q[i] = Append(q, y)[i]
  BY DEF Paths
<1>5. Len(p) = Len(q) /\ \A i \in 1..Len(p) : p[i] = q[i]
  BY <1>1, <1>3, <1>4
<1>6. p = q
  BY <1>5 DEF Paths
<1> QED BY <1>1, <1>2, <1>6

(* The nodes a walk comes to are the prefixes of the last, and each was    *)
(* chosen among the children the one before it had.                        *)
LEMMA WalkFacts ==
  ASSUME NEW text \in Strings
  PROVE  LET keys == WalkKeys(text)
             w == WalkTree(text)
             node == w[Len(w)]
         IN /\ Len(w) = Len(keys)
            /\ node \in Paths /\ Len(node) = Len(keys)
            /\ \A k \in 1..Len(keys) :
                 /\ w[k] = Prefix(node, k)
                 /\ w[k] = EnsureChild(Prefix(node, k - 1), keys[k])
<1> DEFINE keys == WalkKeys(text)
           n == Len(keys)
           w == WalkTree(text)
<1>1. n \in Nat \ {0} /\ \A k \in 1..n : keys[k] \in Labels
  BY KeysFacts
<1>2. PICK walk \in [0..n -> Paths] :
        /\ walk[0] = <<>>
        /\ \A k \in 1..n : walk[k] = EnsureChild(walk[k - 1], keys[k])
        /\ w = [k \in 1..n |-> walk[k]]
  BY WalkIs
<1> DEFINE T == {k \in 0..n : /\ Len(walk[k]) = k
                              /\ \A j \in 0..k : Prefix(walk[k], j) = walk[j]}
<1>3. 0 \in T
  <2>1. walk[0] \in Paths /\ Len(walk[0]) = 0
    BY <1>1, <1>2
  <2>2. Prefix(walk[0], 0) = walk[0]
    BY <1>2, <2>1, PrefixFacts
  <2> QED BY <1>1, <2>1, <2>2
<1>4. \A k \in 0..(n - 1) : k \in T => k + 1 \in T
  <2> SUFFICES ASSUME NEW k \in 0..(n - 1), k \in T PROVE k + 1 \in T
    OBVIOUS
  <2>1. k \in 0..n /\ k + 1 \in 1..n /\ k + 1 \in 0..n /\ (k + 1) - 1 = k
    BY <1>1
  <2>2. PICK x \in Labels : walk[k + 1] = Append(walk[k], x)
    BY <1>1, <1>2, <2>1, LogsAssumption DEF EnsureChild, Labels
  <2>3. walk[k] \in Paths /\ walk[k + 1] \in Paths /\ Len(walk[k]) = k
    BY <1>2, <2>1
  <2>4. Len(walk[k + 1]) = k + 1
    BY <2>2, <2>3 DEF Paths
  <2>5. Prefix(walk[k + 1], k + 1) = walk[k + 1]
    BY <2>3, <2>4, PrefixFacts
  <2>6. \A j \in 0..k : Prefix(walk[k + 1], j) = walk[j]
    BY <2>2, <2>3, PrefixFacts
  <2> QED BY <2>1, <2>4, <2>5, <2>6
<1>5. \A k \in 0..n : k \in T
  <2> HIDE DEF T, n
  <2> QED BY <1>1, <1>3, <1>4, Reached
<1>6. Len(w) = n /\ w[Len(w)] = walk[n]
  <2> HIDE DEF w, n
  <2> QED BY <1>1, <1>2
<1>7. walk[n] \in Paths /\ Len(walk[n]) = n /\ \A k \in 0..n : walk[k] = Prefix(walk[n], k)
  BY <1>1, <1>2, <1>5
<1>8. ASSUME NEW k \in 1..n
      PROVE  /\ w[k] = Prefix(walk[n], k)
             /\ w[k] = EnsureChild(Prefix(walk[n], k - 1), keys[k])
  <2>1. w[k] = walk[k] /\ k \in 0..n /\ k - 1 \in 0..n
    BY <1>1, <1>2
  <2> QED BY <1>2, <1>7, <2>1
<1> QED BY <1>6, <1>7, <1>8
-----------------------------------------------------------------------------
(* A branch that is closed: the node is full, and the key's child is not   *)
(* there.  It stays so.                                                    *)
Closed(node, key) ==
  Append(node, key) \notin tree /\ Cardinality(Children(node)) >= MaxChildren

(* Where a cluster is, and why: the key of its pattern took each of its    *)
(* branches, or is the wildcard's, or found the branch closed.             *)
Filed(c) ==
  LET keys == WalkKeys(c.pattern) IN
  /\ c.pattern \in Strings /\ c.pattern # <<>>
  /\ c.node \in Paths /\ Len(c.node) = Len(keys)
  /\ \A k \in 1..Len(keys) :
       /\ Prefix(c.node, k) \in tree
       /\ c.node[k] \in {Wildcard, keys[k]}
       /\ \/ c.node[k] = keys[k]
          \/ Closed(Prefix(c.node, k - 1), keys[k])

(* The tree as a walk of text leaves it.                                   *)
Grows(text) ==
  tree' = tree \cup {WalkTree(text)[k] : k \in 1..Len(WalkTree(text))}

(* The tree stays finite.                                                  *)
LEMMA GrowsFinite ==
  ASSUME NEW text \in Strings, IsFiniteSet(tree), Grows(text)
  PROVE  IsFiniteSet(tree')
<1> DEFINE w == WalkTree(text)
           n == Len(w)
<1>1. n \in Nat
  BY WalkFacts, KeysFacts
<1>2. IsFiniteSet({w[j] : j \in 1..n})
  <2> HIDE DEF w, n
  <2> QED BY <1>1, ImageFinite
<1> QED BY <1>2, FS_Union DEF Grows

(* A branch that found its node full stays out of the tree.                *)
LEMMA ClosedStays ==
  ASSUME NEW text \in Strings, IsFiniteSet(tree), Grows(text),
         NEW node \in Paths, NEW key \in Labels, key # Wildcard, Closed(node, key)
  PROVE  Closed(node, key)'
<1> DEFINE w == WalkTree(text)
           keys == WalkKeys(text)
           last == w[Len(w)]
<1>1. Append(node, key) \notin tree'
  <2> SUFFICES ASSUME NEW k \in 1..Len(w), w[k] = Append(node, key) PROVE FALSE
    BY DEF Grows, Closed
  <2>1. /\ Len(w) = Len(keys) /\ k \in 1..Len(keys)
        /\ last \in Paths /\ Len(last) = Len(keys)
        /\ w[k] = EnsureChild(Prefix(last, k - 1), keys[k])
    BY WalkFacts
  <2>2. keys[k] \in Labels /\ k - 1 \in 0..Len(last)
    BY <2>1, KeysFacts
  <2>3. Prefix(last, k - 1) \in Paths
    BY <2>1, <2>2, PrefixFacts
  <2>4. PICK x \in {keys[k], Wildcard} :
          /\ Append(node, key) = Append(Prefix(last, k - 1), x)
          /\ x # Wildcard => \/ Append(Prefix(last, k - 1), keys[k]) \in tree
                             \/ Cardinality(Children(Prefix(last, k - 1))) < MaxChildren
    BY <2>1 DEF EnsureChild
  <2>5. x \in Labels
    BY <2>2, LogsAssumption DEF Labels
  <2>6. x = key /\ Prefix(last, k - 1) = node
    BY <2>3, <2>4, <2>5, AppendOnce
  <2>7. IsFiniteSet(Children(node))
    BY FS_Subset DEF Children
  <2>8. Cardinality(Children(node)) \in Nat
    BY <2>7, FS_CardinalityType
  <2> QED BY <2>4, <2>6, <2>8, DrainAssumption DEF Closed
<1>2. Cardinality(Children(node)) <= Cardinality(Children(node)')
  <2>1. Children(node) \subseteq Children(node)'
    BY DEF Children, Grows
  <2>2. IsFiniteSet(Children(node)')
    BY GrowsFinite, FS_Subset DEF Children
  <2> QED BY <2>1, <2>2, FS_Subset
<1>3. Cardinality(Children(node)) \in Nat /\ Cardinality(Children(node)') \in Nat
  BY GrowsFinite, FS_Subset, FS_CardinalityType DEF Children
<1> QED BY <1>1, <1>2, <1>3, DrainAssumption DEF Closed

(* A cluster stays where its pattern belongs, however the tree grows.      *)
LEMMA FiledStays ==
  ASSUME NEW text \in Strings, IsFiniteSet(tree), Grows(text), NEW c, Filed(c)
  PROVE  Filed(c)'
<1> DEFINE keys == WalkKeys(c.pattern)
<1>1. ASSUME NEW k \in 1..Len(keys), c.node[k] # keys[k]
      PROVE  Closed(Prefix(c.node, k - 1), keys[k])'
  <2>1. Closed(Prefix(c.node, k - 1), keys[k]) /\ c.node[k] = Wildcard
    BY <1>1 DEF Filed
  <2>2. keys[k] \in Labels /\ k - 1 \in 0..Len(c.node)
    BY KeysFacts DEF Filed
  <2>3. Prefix(c.node, k - 1) \in Paths
    BY <2>2, PrefixFacts DEF Filed
  <2> QED BY <1>1, <2>1, <2>2, <2>3, ClosedStays
<1>2. tree \subseteq tree'
  BY DEF Grows
<1>3. WalkKeys(c.pattern)' = WalkKeys(c.pattern)
  BY DEF WalkKeys
<1> HIDE DEF keys
<1> QED BY <1>1, <1>2, <1>3 DEF Filed, keys

(* The node a walk ends in is where a cluster of the text would be.        *)
LEMMA WalkFiles ==
  ASSUME NEW text \in Strings, text # <<>>, IsFiniteSet(tree), Grows(text), NEW c,
         c.pattern = text, c.node = WalkTree(text)[Len(WalkTree(text))]
  PROVE  Filed(c)'
<1> DEFINE keys == WalkKeys(text)
           w == WalkTree(text)
           node == c.node
<1>1. /\ node \in Paths /\ Len(w) = Len(keys) /\ Len(node) = Len(keys)
      /\ \A k \in 1..Len(keys) :
           /\ w[k] = Prefix(node, k)
           /\ w[k] = EnsureChild(Prefix(node, k - 1), keys[k])
  BY WalkFacts
<1>2. ASSUME NEW k \in 1..Len(keys)
      PROVE  /\ Prefix(node, k) \in tree'
             /\ node[k] \in {Wildcard, keys[k]}
             /\ node[k] = keys[k] \/ Closed(Prefix(node, k - 1), keys[k])'
  <2>1. Prefix(node, k) \in tree'
    BY <1>1 DEF Grows
  <2>2. keys[k] \in Labels /\ k - 1 \in 0..Len(node) /\ k \in 1..Len(node) /\ node[k] \in Labels
    BY <1>1, KeysFacts DEF Paths
  <2>3. Prefix(node, k - 1) \in Paths /\ Prefix(node, k) = Append(Prefix(node, k - 1), node[k])
    BY <1>1, <2>2, PrefixFacts
  <2>4. PICK x \in {keys[k], Wildcard} :
          /\ Append(Prefix(node, k - 1), node[k]) = Append(Prefix(node, k - 1), x)
          /\ x # keys[k] => /\ Append(Prefix(node, k - 1), keys[k]) \notin tree
                            /\ ~(Cardinality(Children(Prefix(node, k - 1))) < MaxChildren)
    BY <1>1, <2>3 DEF EnsureChild
  <2>5. x = node[k]
    BY <2>2, <2>3, <2>4, LogsAssumption DEF Paths, Labels
  <2>6. ASSUME x # keys[k] PROVE Closed(Prefix(node, k - 1), keys[k])'
    <3>1. Cardinality(Children(Prefix(node, k - 1))) \in Nat
      BY FS_Subset, FS_CardinalityType DEF Children
    <3>2. Closed(Prefix(node, k - 1), keys[k])
      BY <2>4, <2>6, <3>1, DrainAssumption DEF Closed
    <3> QED BY <2>2, <2>3, <2>4, <2>6, <3>2, ClosedStays
  <2> QED BY <2>1, <2>4, <2>5, <2>6
<1>3. WalkKeys(c.pattern)' = keys
  BY DEF WalkKeys
<1> HIDE DEF keys
<1> QED BY <1>1, <1>2, <1>3 DEF Filed

(* Clusters of one pattern are at one node: where they first part, one of  *)
(* them would be in a branch that is closed.                               *)
LEMMA SameNode ==
  ASSUME NEW c, NEW d, Filed(c)', Filed(d)', c.pattern = d.pattern
  PROVE  c.node = d.node
<1> DEFINE keys == WalkKeys(c.pattern)
           n == Len(keys)
           T == {k \in 0..n : Prefix(c.node, k) = Prefix(d.node, k)}
<1>1. /\ n \in Nat \ {0} /\ c.node \in Paths /\ d.node \in Paths
      /\ Len(c.node) = n /\ Len(d.node) = n
      /\ \A k \in 1..n :
           /\ Prefix(c.node, k) = Append(Prefix(c.node, k - 1), c.node[k])
           /\ Prefix(d.node, k) = Append(Prefix(d.node, k - 1), d.node[k])
  <2>1. n \in Nat \ {0}
    BY KeysFacts DEF Filed
  <2>2. /\ c.node \in Paths /\ d.node \in Paths
        /\ Len(c.node) = n /\ Len(d.node) = n
    BY DEF Filed
  <2> HIDE DEF n
  <2> QED BY <2>1, <2>2, PrefixFacts
<1>2. WalkKeys(c.pattern)' = keys /\ WalkKeys(d.pattern)' = keys
  BY DEF WalkKeys
<1>3. \A k \in 1..n :
        /\ Prefix(c.node, k) \in tree' /\ Prefix(d.node, k) \in tree'
        /\ c.node[k] \in {Wildcard, keys[k]} /\ d.node[k] \in {Wildcard, keys[k]}
        /\ c.node[k] = keys[k] \/ Append(Prefix(c.node, k - 1), keys[k]) \notin tree'
        /\ d.node[k] = keys[k] \/ Append(Prefix(d.node, k - 1), keys[k]) \notin tree'
  <2> HIDE DEF keys
  <2> QED BY <1>2 DEF Filed, Closed, keys
<1>4. 0 \in T
  BY <1>1, PrefixFacts
<1>5. \A k \in 0..(n - 1) : k \in T => k + 1 \in T
  <2> SUFFICES ASSUME NEW k \in 0..(n - 1), Prefix(c.node, k) = Prefix(d.node, k)
               PROVE  Prefix(c.node, k + 1) = Prefix(d.node, k + 1)
    BY <1>1
  <2>1. k + 1 \in 1..n /\ (k + 1) - 1 = k
    BY <1>1
  <2>2. /\ Prefix(c.node, k + 1) = Append(Prefix(c.node, k), c.node[k + 1])
        /\ Prefix(d.node, k + 1) = Append(Prefix(c.node, k), d.node[k + 1])
    BY <1>1, <2>1
  <2>3. c.node[k + 1] = d.node[k + 1]
    BY <1>3, <2>1, <2>2
  <2> QED BY <2>2, <2>3
<1>6. Prefix(c.node, n) = Prefix(d.node, n)
  <2>1. \A k \in 0..n : k \in T
    <3> HIDE DEF T, n
    <3> QED BY <1>1, <1>4, <1>5, Reached
  <2> QED BY <1>1, <2>1
<1> QED BY <1>1, <1>6, PrefixFacts
-----------------------------------------------------------------------------
LEMMA MergeType ==
  ASSUME NEW p \in Strings, NEW t \in Strings, Len(p) = Len(t)
  PROVE  /\ MergeTokens(p, t) \in Strings /\ Len(MergeTokens(p, t)) = Len(t)
         /\ \A i \in 1..Len(t) :
              MergeTokens(p, t)[i] =
                IF p[i] = t[i] \/ t[i] = Wildcard THEN p[i] ELSE Wildcard
  BY LogsAssumption DEF MergeTokens, Strings

(* A message that agrees everywhere widens nothing, and what it widened it *)
(* agrees with everywhere.                                                 *)
LEMMA MergeAgrees ==
  ASSUME NEW p \in Strings, NEW t \in Strings, Len(p) = Len(t)
  PROVE  /\ Agreeing(MergeTokens(p, t), t) = 1..Len(t)
         /\ Agreeing(p, t) = 1..Len(t) => MergeTokens(p, t) = p
<1>1. Agreeing(MergeTokens(p, t), t) = 1..Len(t)
  BY MergeType DEF Agreeing
<1>2. ASSUME Agreeing(p, t) = 1..Len(t) PROVE MergeTokens(p, t) = p
  <2>1. \A i \in 1..Len(t) : p[i] = t[i] \/ p[i] = Wildcard \/ t[i] = Wildcard
    BY <1>2 DEF Agreeing
  <2>2. \A i \in 1..Len(t) : MergeTokens(p, t)[i] = p[i]
    BY <2>1, MergeType
  <2> QED BY <2>2, MergeType DEF Strings
<1> QED BY <1>1, <1>2

LEMMA AgreeingCounts ==
  ASSUME NEW p \in Strings, NEW t \in Strings, Len(p) = Len(t)
  PROVE  /\ Cardinality(Agreeing(p, t)) \in 0..Len(t)
         /\ Cardinality(Agreeing(p, t)) = Len(t) => Agreeing(p, t) = 1..Len(t)
         /\ Agreeing(p, t) = 1..Len(t) => Cardinality(Agreeing(p, t)) = Len(t)
<1>1. Len(t) \in Nat
  BY DEF Strings
<1> DEFINE D == 1..Len(t)
<1>2. IsFiniteSet(D) /\ Cardinality(D) = Len(t)
  <2> DEFINE n == Len(t)
  <2>1. n \in Nat
    BY <1>1
  <2> HIDE DEF n
  <2>2. IsFiniteSet(1..n) /\ Cardinality(1..n) = IF 1 > n THEN 0 ELSE n - 1 + 1
    BY <2>1, FS_Interval
  <2>3. Cardinality(1..n) = n
    BY <2>1, <2>2
  <2> QED BY <2>2, <2>3 DEF n
<1>3. Agreeing(p, t) \subseteq D
  BY DEF Agreeing
<1>4. /\ IsFiniteSet(Agreeing(p, t))
      /\ Cardinality(Agreeing(p, t)) <= Cardinality(D)
      /\ Cardinality(D) = Cardinality(Agreeing(p, t)) => D = Agreeing(p, t)
  <2> HIDE DEF D
  <2> QED BY <1>2, <1>3, FS_Subset
<1>5. Cardinality(Agreeing(p, t)) \in Nat
  BY <1>4, FS_CardinalityType
<1> QED BY <1>1, <1>2, <1>4, <1>5

(* A cluster that is widened by a text that walks to it stays where it     *)
(* belongs: what branched by a token both have, keeps it.                  *)
LEMMA Widened ==
  ASSUME NEW c, NEW x, NEW d, Filed(c)', Filed(x)', x.node = c.node,
         Len(c.pattern) = Len(x.pattern),
         d.node = c.node, d.pattern = MergeTokens(c.pattern, x.pattern)
  PROVE  Filed(d)'
<1> DEFINE keys == WalkKeys(c.pattern)
           p == c.pattern
           t == x.pattern
           q == d.pattern
<1>1. /\ p \in Strings /\ t \in Strings /\ p # <<>> /\ c.node \in Paths
  BY DEF Filed
<1>2. /\ q \in Strings /\ Len(q) = Len(p)
      /\ \A i \in 1..Len(p) : q[i] = IF p[i] = t[i] \/ t[i] = Wildcard THEN p[i] ELSE Wildcard
  BY <1>1, MergeType
<1>3. q # <<>>
  BY <1>1, <1>2 DEF Strings
<1>4. /\ WalkKeys(p)' = WalkKeys(p) /\ WalkKeys(t)' = WalkKeys(t) /\ WalkKeys(q)' = WalkKeys(q)
      /\ Len(WalkKeys(q)) = Len(keys) /\ Len(WalkKeys(t)) = Len(keys)
      /\ Len(keys) \in Nat
  BY <1>1, <1>2, KeysFacts, ZenonT(30) DEF WalkKeys
<1>5. Len(c.node) = Len(keys)
  BY <1>4 DEF Filed
<1>6. ASSUME NEW k \in 1..Len(keys)
      PROVE  /\ c.node[k] \in {Wildcard, WalkKeys(q)[k]}
             /\ \/ c.node[k] = WalkKeys(q)[k]
                \/ Closed(Prefix(c.node, k - 1), WalkKeys(q)[k])'
  <2>1. /\ c.node[k] \in {Wildcard, keys[k]}
        /\ c.node[k] \in {Wildcard, WalkKeys(t)[k]}
        /\ c.node[k] = keys[k] \/ Closed(Prefix(c.node, k - 1), keys[k])'
    <3> HIDE DEF keys
    <3> QED BY <1>4, <1>5 DEF Filed, keys
  <2>2. CASE k = 1
    <3>1. WalkKeys(q)[k] = keys[k]
      BY <1>1, <1>2, <1>4, <2>2, KeysFacts
    <3> QED BY <2>1, <3>1
  <2>3. CASE k > 1
    <3>1. /\ keys[k] = BranchKey(p[k - 1]) /\ WalkKeys(t)[k] = BranchKey(t[k - 1])
          /\ WalkKeys(q)[k] = BranchKey(q[k - 1]) /\ k - 1 \in 1..Len(p)
      BY <1>1, <1>2, <1>4, <2>3, KeysFacts
    <3>2. q[k - 1] = IF p[k - 1] = t[k - 1] \/ t[k - 1] = Wildcard THEN p[k - 1] ELSE Wildcard
      BY <1>2, <3>1
    <3>3. CASE q[k - 1] = p[k - 1]
      BY <2>1, <3>1, <3>3
    <3>4. CASE q[k - 1] = Wildcard /\ p[k - 1] # t[k - 1]
      <4>1. c.node[k] = Wildcard
        BY <2>1, <3>1, <3>4 DEF BranchKey
      <4> QED BY <3>1, <3>4, <4>1 DEF BranchKey
    <3> QED BY <3>2, <3>3, <3>4
  <2> QED BY <2>2, <2>3
<1>7. \A k \in 1..Len(keys) : Prefix(c.node, k) \in tree'
  <2> HIDE DEF keys
  <2> QED BY <1>4 DEF Filed, keys
<1> HIDE DEF keys
<1> QED BY <1>1, <1>2, <1>3, <1>4, <1>5, <1>6, <1>7 DEF Filed
-----------------------------------------------------------------------------
Entry == [text : Strings, time : Nat \ {0}]

Home(text) == WalkTree(text)[Len(WalkTree(text))]

HomeMatches(text) ==
  BestMatches({i \in 1..Len(clusters) : clusters[i].node = Home(text)}, text)

IsSequence(s) == \E S : s \in Seq(S)

IsCluster(c) == {"node", "pattern"} \subseteq DOMAIN c

(* Why patterns stay distinct: every cluster is where its pattern belongs. *)
Drained ==
  /\ IsFiniteSet(tree)
  /\ IsSequence(clusters)
  /\ \A i \in 1..Len(clusters) : IsCluster(clusters[i]) /\ Filed(clusters[i])
  /\ \A i, j \in 1..Len(clusters) : i # j => clusters[i].pattern # clusters[j].pattern

LEMMA UpdatedIs ==
  ASSUME NEW c, IsCluster(c), NEW e
  PROVE  /\ IsCluster(Updated(c, e))
         /\ Updated(c, e).node = c.node
         /\ Updated(c, e).pattern = MergeTokens(c.pattern, e.text)
<1>1. DOMAIN Updated(c, e) = DOMAIN c
  BY DEF Updated
<1>2. Updated(c, e).node = c.node /\ Updated(c, e).pattern = MergeTokens(c.pattern, e.text)
  BY DEF IsCluster, Updated
<1> QED BY <1>1, <1>2 DEF IsCluster

(* A text is its own best match, and agrees with a cluster of its pattern. *)
LEMMA BestFacts ==
  ASSUME NEW text \in Strings, text # <<>>, Drained, NEW k \in 1..Len(clusters),
         clusters[k].node = Home(text), Len(clusters[k].pattern) = Len(text),
         Agreeing(clusters[k].pattern, text) = 1..Len(text)
  PROVE  /\ k \in HomeMatches(text)
         /\ \A i \in HomeMatches(text) :
              Agreeing(clusters[i].pattern, text) = 1..Len(text)
<1> DEFINE agreement(i) == Cardinality(Agreeing(clusters[i].pattern, text))
           here == {i \in 1..Len(clusters) : clusters[i].node = Home(text)}
           matches == {i \in here : Similar(clusters[i].pattern, text)}
<1>1. Len(text) \in Nat \ {0}
  BY DEF Strings
<1>2. \A i \in 1..Len(clusters) : clusters[i].pattern \in Strings
  BY DEF Drained, Filed
<1>3. \A i \in matches : Len(clusters[i].pattern) = Len(text) /\ i \in 1..Len(clusters)
  BY DEF Similar
<1>4. \A i \in matches :
        /\ agreement(i) \in 0..Len(text)
        /\ agreement(i) = Len(text) => Agreeing(clusters[i].pattern, text) = 1..Len(text)
  <2> HIDE DEF matches
  <2> QED BY <1>2, <1>3, AgreeingCounts
<1>5. agreement(k) = Len(text)
  BY <1>2, AgreeingCounts
<1>6. k \in matches
  BY <1>1, <1>5 DEF Similar
<1>7. HomeMatches(text) = {i \in matches : \A j \in matches : agreement(j) <= agreement(i)}
  BY DEF HomeMatches, BestMatches
<1> HIDE DEF matches, agreement
<1>8. k \in HomeMatches(text)
  BY <1>1, <1>4, <1>5, <1>6, <1>7
<1>9. ASSUME NEW i \in HomeMatches(text)
      PROVE  i \in matches /\ agreement(i) = Len(text)
  <2>1. i \in matches /\ agreement(k) <= agreement(i)
    BY <1>6, <1>7
  <2>2. agreement(i) \in 0..Len(text)
    BY <1>4, <2>1
  <2> QED BY <1>1, <1>5, <2>1, <2>2
<1> QED BY <1>4, <1>8, <1>9

LEMMA JoinKeeps ==
  ASSUME Drained, NEW e \in Entry, e.text # <<>>, Grows(e.text),
         NEW i \in HomeMatches(e.text), clusters' = [clusters EXCEPT ![i] = Updated(@, e)]
  PROVE  Drained'
<1> DEFINE text == e.text
<1>1. text \in Strings
  BY DEF Entry
<1>2. PICK c : c = clusters[i]
  OBVIOUS
<1>3. PICK x : x = [node |-> Home(text), pattern |-> text]
  OBVIOUS
<1>4. i \in 1..Len(clusters) /\ c.node = Home(text) /\ Len(c.pattern) = Len(text)
  BY <1>2 DEF HomeMatches, BestMatches, Similar
<1>5. PICK d : d = Updated(c, e)
  OBVIOUS
<1>6. IsFiniteSet(tree')
  BY <1>1, GrowsFinite DEF Drained
<1>7. IsSequence(clusters') /\ Len(clusters') = Len(clusters)
      /\ \A k \in 1..Len(clusters) : clusters'[k] = IF k = i THEN d ELSE clusters[k]
  <2>1. PICK S : clusters \in Seq(S)
    BY DEF Drained, IsSequence
  <2>2. clusters' = [clusters EXCEPT ![i] = d]
    BY <1>2, <1>5
  <2>3. clusters \in Seq(S \cup {d})
    BY <2>1
  <2>4. clusters' \in Seq(S \cup {d})
    BY <1>4, <2>2, <2>3
  <2> QED BY <1>4, <2>1, <2>2, <2>4 DEF IsSequence
<1>8. IsCluster(d) /\ d.node = c.node /\ d.pattern = MergeTokens(c.pattern, text)
  BY <1>2, <1>4, <1>5, UpdatedIs DEF Drained
<1>9. ASSUME NEW k \in 1..Len(clusters), NEW b, b = clusters[k] PROVE Filed(b)'
  BY <1>1, <1>9, FiledStays DEF Drained
<1>10. Filed(d)'
  <2>1. Filed(c)'
    BY <1>2, <1>4, <1>9
  <2>2. Filed(x)'
    BY <1>1, <1>3, WalkFiles DEF Home, Drained
  <2> QED BY <1>3, <1>4, <1>8, <2>1, <2>2, Widened
<1>11. ASSUME NEW k \in 1..Len(clusters'), NEW b, b = clusters'[k]
       PROVE  IsCluster(b) /\ Filed(b)'
  BY <1>7, <1>8, <1>9, <1>10, <1>11 DEF Drained
<1>12. ASSUME NEW k \in 1..Len(clusters), k # i, clusters[k].pattern = d.pattern
       PROVE  FALSE
  <2>1. clusters[k].node = Home(text)
    <3>1. PICK b : b = clusters[k]
      OBVIOUS
    <3>2. b.node = d.node
      BY <1>9, <1>10, <1>12, <3>1, SameNode
    <3> QED BY <1>4, <1>8, <3>1, <3>2
  <2>2. c.pattern \in Strings
    BY <1>2, <1>4 DEF Drained, Filed
  <2>3. Len(clusters[k].pattern) = Len(text) /\ Agreeing(clusters[k].pattern, text) = 1..Len(text)
    BY <1>1, <1>4, <1>8, <1>12, <2>2, MergeType, MergeAgrees
  <2>4. Agreeing(c.pattern, text) = 1..Len(text)
    BY <1>1, <1>2, <2>1, <2>3, BestFacts
  <2>5. d.pattern = c.pattern
    BY <1>1, <1>4, <1>8, <2>2, <2>4, MergeAgrees
  <2> QED BY <1>2, <1>4, <1>12, <2>5 DEF Drained
<1>13. \A j, k \in 1..Len(clusters') : j # k => clusters'[j].pattern # clusters'[k].pattern
  BY <1>4, <1>7, <1>12 DEF Drained
<1> QED BY <1>6, <1>7, <1>11, <1>13 DEF Drained

LEMMA CreateKeeps ==
  ASSUME Drained, NEW e \in Entry, e.text # <<>>, Grows(e.text),
         HomeMatches(e.text) = {},
         clusters' = Append(clusters, NewCluster(Home(e.text), e))
  PROVE  Drained'
<1> DEFINE text == e.text
           n == Len(clusters)
<1>1. text \in Strings
  BY DEF Entry
<1>2. PICK d : d = NewCluster(Home(text), e)
  OBVIOUS
<1>3. IsCluster(d) /\ d.node = Home(text) /\ d.pattern = text
  BY <1>2 DEF NewCluster, IsCluster
<1>4. IsFiniteSet(tree')
  BY <1>1, GrowsFinite DEF Drained
<1>5. /\ IsSequence(clusters') /\ n \in Nat /\ Len(clusters') = n + 1
      /\ \A k \in 1..n : clusters'[k] = clusters[k]
      /\ clusters'[n + 1] = d
  <2>1. PICK S : clusters \in Seq(S)
    BY DEF Drained, IsSequence
  <2>2. clusters' = Append(clusters, d) /\ clusters \in Seq(S \cup {d})
    BY <1>2, <2>1
  <2>3. clusters' \in Seq(S \cup {d})
    BY <2>2
  <2> QED BY <2>2, <2>3 DEF IsSequence
<1>6. ASSUME NEW k \in 1..n, NEW b, b = clusters[k] PROVE Filed(b)'
  BY <1>1, <1>6, FiledStays DEF Drained
<1>7. Filed(d)'
  BY <1>1, <1>3, WalkFiles DEF Home, Drained
<1>8. ASSUME NEW k \in 1..Len(clusters'), NEW b, b = clusters'[k]
      PROVE  IsCluster(b) /\ Filed(b)'
  BY <1>3, <1>5, <1>6, <1>7, <1>8 DEF Drained
<1>9. ASSUME NEW k \in 1..n, clusters[k].pattern = text PROVE FALSE
  <2>1. clusters[k].node = Home(text)
    <3>1. PICK b : b = clusters[k]
      OBVIOUS
    <3>2. b.node = d.node
      BY <1>3, <1>6, <1>7, <1>9, <3>1, SameNode
    <3> QED BY <1>3, <3>1, <3>2
  <2>2. Agreeing(text, text) = 1..Len(text)
    BY DEF Agreeing
  <2> QED BY <1>1, <1>9, <2>1, <2>2, BestFacts
<1>10. \A j, k \in 1..Len(clusters') : j # k => clusters'[j].pattern # clusters'[k].pattern
  BY <1>3, <1>5, <1>9 DEF Drained
<1> QED BY <1>4, <1>5, <1>8, <1>10 DEF Drained
-----------------------------------------------------------------------------
DrainInv ==
  /\ log \in Seq(Entry)
  /\ IsSequence(joined)
  /\ ~forced => Drained

LEMMA DrainInit == CollectInit => DrainInv
<1> SUFFICES ASSUME CollectInit PROVE DrainInv
  OBVIOUS
<1>1. tree = {} /\ clusters = <<>> /\ joined = <<>> /\ log \in Logs \cup {<<>>}
  BY DEF CollectInit, PipeIdle, PipeInit
<1>2. log \in Seq(Entry)
  <2>1. Logs \subseteq Seq(Entry)
    BY LogsAssumption DEF Entry, Strings
  <2>2. <<>> \in Seq(Entry)
    OBVIOUS
  <2> QED BY <1>1, <2>1, <2>2
<1>3. IsSequence(joined) /\ IsSequence(clusters) /\ Len(clusters) = 0
  BY <1>1 DEF IsSequence
<1>4. IsFiniteSet(tree)
  BY <1>1, FS_EmptySet
<1> QED BY <1>2, <1>3, <1>4 DEF DrainInv, Drained

LEMMA AddKeeps == DrainInv /\ AddMessage => DrainInv'
<1> SUFFICES ASSUME DrainInv, AddMessage PROVE DrainInv'
  OBVIOUS
<1> DEFINE entry == log[Len(joined) + 1]
<1>1. Len(joined) \in Nat /\ Len(joined) < Len(log) /\ log \in Seq(Entry)
  BY DEF DrainInv, IsSequence, AddMessage
<1>2. PICK e \in Entry : e = entry
  BY <1>1
<1>3. UNCHANGED log /\ log' \in Seq(Entry)
  BY <1>1 DEF AddMessage
<1>4. IsSequence(joined')
  <2>1. \E x : joined' = Append(joined, x)
    BY DEF AddMessage, Join
  <2>2. PICK x : joined' = Append(joined, x)
    BY <2>1
  <2>3. PICK S : joined \in Seq(S)
    BY DEF DrainInv, IsSequence
  <2>4. joined' \in Seq(S \cup {x})
    BY <2>2, <2>3
  <2> QED BY <2>4, SMTT(30) DEF IsSequence
<1>5. ASSUME ~forced' PROVE Drained'
  <2> DEFINE best == HomeMatches(e.text)
  <2>1. \/ UNCHANGED <<tree, clusters, forced>>
        \/ /\ e.text # <<>> /\ best # {} /\ Grows(e.text) /\ UNCHANGED forced
           /\ clusters' = [clusters EXCEPT ![LeastOf(best)] = Updated(@, e)]
        \/ /\ e.text # <<>> /\ best = {} /\ Grows(e.text) /\ UNCHANGED forced
           /\ clusters' = Append(clusters, NewCluster(Home(e.text), e))
    BY <1>2, <1>5 DEF AddMessage, Join, HomeMatches, Home, Grows
  <2>2. CASE UNCHANGED <<tree, clusters, forced>>
    BY <1>5, <2>2, ZenonT(30) DEF DrainInv, Drained, Filed, Closed, Children
  <2>3. CASE /\ e.text # <<>> /\ best # {} /\ Grows(e.text) /\ UNCHANGED forced
             /\ clusters' = [clusters EXCEPT ![LeastOf(best)] = Updated(@, e)]
    <3>1. best \in SUBSET Nat
      BY DEF HomeMatches, BestMatches
    <3>2. LeastOf(best) \in best
      BY <2>3, <3>1, FirstIsLeast
    <3> QED BY <1>5, <2>3, <3>2, JoinKeeps DEF DrainInv
  <2>4. CASE /\ e.text # <<>> /\ best = {} /\ Grows(e.text) /\ UNCHANGED forced
             /\ clusters' = Append(clusters, NewCluster(Home(e.text), e))
    BY <1>5, <2>4, CreateKeeps DEF DrainInv
  <2> QED BY <2>1, <2>2, <2>3, <2>4
<1> QED BY <1>3, <1>4, <1>5 DEF DrainInv

LEMMA DrainNext == DrainInv /\ [CollectNext]_collectVars => DrainInv'
<1> SUFFICES ASSUME DrainInv, [CollectNext]_collectVars PROVE DrainInv'
  OBVIOUS
<1>1. CASE AddMessage
  BY <1>1, AddKeeps
<1>2. CASE UNCHANGED <<log, joined, tree, clusters, forced>>
  BY <1>2 DEF DrainInv, Drained, Filed, Closed, Children
<1>3. AddMessage \/ UNCHANGED <<log, joined, tree, clusters, forced>>
  BY DEF CollectNext, PipeNext, Clustered, ConsolidateGoStack, ConsolidatePython,
         ResolveEntries, collectVars, pipeVars
<1> QED BY <1>1, <1>2, <1>3

(* Clusters never share a pattern, and with it an id, until the cap puts   *)
(* an entry where the tree would not: whatever the texts, in any order,    *)
(* for any depth of the tree and any number of children.                   *)
THEOREM ClustersStayApart == CollectSpec => []PatternsDistinct
<1>1. DrainInv => PatternsDistinct
  BY DEF DrainInv, Drained, PatternsDistinct
<1> QED BY <1>1, DrainInit, DrainNext, PTL DEF CollectSpec
-----------------------------------------------------------------------------
(* f takes S into T, no two of its elements to one.                        *)
OneToOne(f, S, T) ==
  f \in [S -> T] /\ \A x, y \in S : f[x] = f[y] => x = y

(* A one-to-one function between sets of one size leaves nothing out.      *)
LEMMA Onto ==
  ASSUME NEW S, NEW T, IsFiniteSet(S), IsFiniteSet(T), Cardinality(S) = Cardinality(T),
         NEW f, OneToOne(f, S, T)
  PROVE  \A z \in T : \E x \in S : f[x] = z
<1> SUFFICES ASSUME NEW z \in T, \A x \in S : f[x] # z PROVE FALSE
  OBVIOUS
<1>1. /\ IsFiniteSet(T \ {z}) /\ Cardinality(T \ {z}) = Cardinality(T) - 1
      /\ Cardinality(T) \in Nat
  BY FS_RemoveElement, FS_CardinalityType
<1>2. f \in [S -> T \ {z}] /\ \A x, y \in S : f[x] = f[y] => x = y
  BY DEF OneToOne
<1> QED BY <1>1, <1>2, FS_PigeonHole

(* Two cases of it.                                                        *)
LEMMA OntoInterval ==
  ASSUME NEW K, IsFiniteSet(K), NEW n \in Nat, Cardinality(K) = n,
         NEW f, OneToOne(f, K, 1..n)
  PROVE  \A r \in 1..n : \E k \in K : f[k] = r
<1> DEFINE R == 1..n
<1>1. IsFiniteSet(R) /\ Cardinality(R) = Cardinality(K)
  BY FS_Interval
<1>2. OneToOne(f, K, R)
  OBVIOUS
<1> HIDE DEF R
<1>3. \A r \in R : \E k \in K : f[k] = r
  BY <1>1, <1>2, Onto
<1> QED BY <1>3 DEF R

LEMMA OntoSelf ==
  ASSUME NEW n \in Nat, NEW q, OneToOne(q, 1..n, 1..n)
  PROVE  \A i \in 1..n : \E k \in 1..n : q[k] = i
<1> DEFINE S == 1..n
<1>1. IsFiniteSet(S) /\ Cardinality(S) = n
  BY FS_Interval
<1>2. OneToOne(q, S, 1..n)
  OBVIOUS
<1> HIDE DEF S
<1>3. \A i \in 1..n : \E k \in S : q[k] = i
  BY <1>1, <1>2, OntoInterval
<1> QED BY <1>3 DEF S

(* A finite set of positions.                                              *)
Positions(K) == K \in SUBSET Nat /\ IsFiniteSet(K)

(* What InOrder makes of positions: each has a place of its own.           *)
InPlace(place, s, K, us) ==
  /\ OneToOne(place, K, 1..Len(us))
  /\ \A r \in 1..Len(us) : \E k \in K : place[k] = r
  /\ \A k \in K : us[place[k]] = s[k]

(* InOrder has every chosen position once, and nothing else.               *)
LEMMA InOrderPlaces ==
  ASSUME NEW s, NEW K, Positions(K)
  PROVE  /\ Len(InOrder(s, K)) \in Nat
         /\ InOrder(s, K) = [r \in 1..Len(InOrder(s, K)) |-> InOrder(s, K)[r]]
         /\ \E place : InPlace(place, s, K, InOrder(s, K))
<1> DEFINE Up(k) == {j \in K : j <= k}
           place == [k \in K |-> Cardinality(Up(k))]
<1>1. IsFiniteSet(K) /\ Cardinality(K) \in Nat /\ K \in SUBSET Nat
  BY FS_CardinalityType DEF Positions
<1>2. ASSUME NEW k \in K
      PROVE  /\ IsFiniteSet(Up(k)) /\ Cardinality(Up(k)) \in 1..Cardinality(K)
  <2>1. IsFiniteSet(Up(k)) /\ Cardinality(Up(k)) <= Cardinality(K)
    BY <1>1, FS_Subset
  <2>2. Cardinality(Up(k)) \in Nat
    BY <2>1, FS_CardinalityType
  <2>3. Up(k) # {}
    BY <1>1
  <2>4. Cardinality(Up(k)) # 0
    <3> HIDE DEF Up
    <3> QED BY <2>1, <2>3, FS_EmptySet
  <2> QED BY <1>1, <2>1, <2>2, <2>4
<1>3. ASSUME NEW j \in K, NEW k \in K, j < k
      PROVE  Cardinality(Up(j)) < Cardinality(Up(k))
  <2>1. /\ \A i \in K : i <= j => i <= k
        /\ k \in Up(k) /\ k \notin Up(j)
    BY <1>1, <1>3
  <2>2. /\ Cardinality(Up(j)) <= Cardinality(Up(k))
        /\ Cardinality(Up(j)) # Cardinality(Up(k))
    <3>1. Up(j) \subseteq Up(k)
      BY <2>1
    <3> HIDE DEF Up
    <3> QED BY <1>2, <2>1, <3>1, FS_Subset
  <2> QED BY <1>1, <1>2, <2>2
<1>4. place \in [K -> 1..Cardinality(K)]
  BY <1>2
<1>5. \A j, k \in K : place[j] = place[k] => j = k
  <2> SUFFICES ASSUME NEW j \in K, NEW k \in K, j # k PROVE place[j] # place[k]
    OBVIOUS
  <2>1. j < k \/ k < j
    BY <1>1
  <2>2. Cardinality(Up(j)) \in Nat /\ Cardinality(Up(k)) \in Nat
    BY <1>1, <1>2
  <2> HIDE DEF Up
  <2> QED BY <1>3, <2>1, <2>2
<1>6. Len(InOrder(s, K)) = Cardinality(K) /\ DOMAIN InOrder(s, K) = 1..Cardinality(K)
  BY <1>1 DEF InOrder
<1>7. \A r \in 1..Cardinality(K) : \E k \in K : place[k] = r
  <2>1. OneToOne(place, K, 1..Cardinality(K))
    BY <1>4, <1>5 DEF OneToOne
  <2>2. IsFiniteSet(K) /\ Cardinality(K) \in Nat
    BY <1>1
  <2> HIDE DEF place
  <2> QED BY <2>1, <2>2, OntoInterval
<1>8. ASSUME NEW k \in K PROVE InOrder(s, K)[place[k]] = s[k]
  <2>1. \A j \in K : Cardinality({i \in K : i <= j}) = place[k] => j = k
    BY <1>5
  <2>2. Cardinality({i \in K : i <= k}) = place[k]
    OBVIOUS
  <2>3. InOrder(s, K)[place[k]] =
          s[CHOOSE j \in K : Cardinality({i \in K : i <= j}) = place[k]]
    <3>1. place[k] \in 1..Cardinality(K)
      BY <1>4
    <3> HIDE DEF place
    <3> QED BY <3>1 DEF InOrder
  <2> HIDE DEF place
  <2>4. (CHOOSE j \in K : Cardinality({i \in K : i <= j}) = place[k]) = k
    BY <2>1, <2>2
  <2> QED BY <2>3, <2>4
<1>9. InOrder(s, K) = [r \in 1..Len(InOrder(s, K)) |-> InOrder(s, K)[r]]
  <2>1. InOrder(s, K) = [r \in 1..Cardinality(K) |-> InOrder(s, K)[r]]
    BY DEF InOrder
  <2> QED BY <1>6, <2>1
<1> HIDE DEF place
<1>10. InPlace(place, s, K, InOrder(s, K))
  BY <1>4, <1>5, <1>6, <1>7, <1>8 DEF InPlace, OneToOne
<1> QED BY <1>1, <1>6, <1>9, <1>10

(* What it takes from a set is of that set.                                *)
LEMMA InOrderType ==
  ASSUME NEW s, NEW K, Positions(K), NEW S, \A k \in K : s[k] \in S
  PROVE  InOrder(s, K) \in Seq(S)
<1>1. PICK us : us = InOrder(s, K)
  OBVIOUS
<1>2. PICK place : InPlace(place, s, K, us)
  BY <1>1, InOrderPlaces
<1>3. Len(us) \in Nat /\ us = [r \in 1..Len(us) |-> us[r]]
  BY <1>1, InOrderPlaces
<1>4. \A r \in 1..Len(us) : us[r] \in S
  BY <1>2 DEF InPlace
<1>5. us \in Seq(S)
  BY <1>3, <1>4
<1> QED BY <1>1, <1>5
-----------------------------------------------------------------------------
(* Words of the merged templates' patterns beside those of the log.        *)
Words == STRING \cup {"Go runtime crash", "Python traceback"}
Texts == Seq(Words)
Template == [id : Texts, rows : Seq(Texts), count : Nat, first : Nat, last : Nat]

(* CountOf, as the running sum it is defined by.                           *)
LEMMA CountIs ==
  ASSUME NEW ts, Len(ts) \in Nat, NEW G
  PROVE  \E count :
           /\ count[0] = 0
           /\ \A k \in 1..Len(ts) :
                count[k] = count[k - 1] + (IF k \in G THEN ts[k].count ELSE 0)
           /\ CountOf(ts, G) = count[Len(ts)]
<1> DEFINE n == Len(ts)
           Of(k) == IF k \in G THEN ts[k].count ELSE 0
           Is(f, m) == f = [k \in 0..m |-> IF k = 0 THEN 0 ELSE f[k - 1] + Of(k)]
           A == {m \in 0..n : \E f : Is(f, m)}
<1>1. 0 \in A
  <2> DEFINE f == [k \in 0..0 |-> 0]
  <2>1. f = [k \in 0..0 |-> IF k = 0 THEN 0 ELSE f[k - 1] + Of(k)]
    OBVIOUS
  <2>2. \E h : Is(h, 0)
    BY <2>1
  <2> QED BY <2>2
<1>2. \A m \in 0..(n - 1) : m \in A => m + 1 \in A
  <2> SUFFICES ASSUME NEW m \in 0..(n - 1), NEW f, Is(f, m)
               PROVE  \E g : Is(g, m + 1)
    OBVIOUS
  <2> DEFINE g == [k \in 0..(m + 1) |-> IF k = m + 1 THEN f[m] + Of(m + 1) ELSE f[k]]
  <2>1. \A k \in 0..(m + 1) : g[k] = IF k = 0 THEN 0 ELSE g[k - 1] + Of(k)
    <3> HIDE DEF Of
    <3> QED OBVIOUS
  <2>2. Is(g, m + 1)
    <3> HIDE DEF Of
    <3> QED BY <2>1
  <2> QED BY <2>2
<1>3. PICK f : Is(f, n)
  <2> HIDE DEF A
  <2>1. \A m \in 0..n : m \in A
    BY <1>1, <1>2, Reached
  <2>2. n \in A
    BY <2>1
  <2> QED BY <2>2 DEF A
<1> DEFINE count == CHOOSE h : Is(h, n)
<1>4. Is(count, n)
  <2> HIDE DEF Is
  <2> QED BY <1>3
<1>5. CountOf(ts, G) = count[n]
  BY DEF CountOf
<1> HIDE DEF count
<1>6. count[0] = 0 /\ \A k \in 1..n : count[k] = count[k - 1] + Of(k)
  <2> HIDE DEF Of
  <2> QED BY <1>4
<1> QED BY <1>5, <1>6

(* What e takes into a set.                                                *)
Fiber(e, E, S) == {i \in E : e[i] \in S}

(* Each template of G counts what e takes to it.                           *)
CountsOwn(ts, G, e, E) ==
  /\ Len(ts) \in Nat /\ G \in SUBSET (1..Len(ts))
  /\ IsFiniteSet(E) /\ e \in [E -> 1..Len(ts)]
  /\ \A k \in G : ts[k].count = Cardinality(Fiber(e, E, {k}))

(* When each template counts what is its own, a group of them counts what  *)
(* is one of theirs.                                                       *)
LEMMA CountsTogether ==
  ASSUME NEW ts, NEW G, NEW e, NEW E, CountsOwn(ts, G, e, E)
  PROVE  CountOf(ts, G) = Cardinality(Fiber(e, E, G))
<1> USE DEF CountsOwn
<1> DEFINE n == Len(ts)
           Of(k) == {i \in E : e[i] = k}
           UpTo(k) == {i \in E : e[i] \in G /\ e[i] <= k}
<1>1. PICK count :
        /\ count[0] = 0
        /\ \A k \in 1..n : count[k] = count[k - 1] + (IF k \in G THEN ts[k].count ELSE 0)
        /\ CountOf(ts, G) = count[n]
  BY CountIs
<1> DEFINE T == {k \in 0..n : count[k] = Cardinality(UpTo(k))}
<1>2. 0 \in T
  <2>1. UpTo(0) = {}
    OBVIOUS
  <2>2. Cardinality(UpTo(0)) = 0
    BY <2>1, FS_EmptySet
  <2>3. 0 \in 0..n
    OBVIOUS
  <2> HIDE DEF UpTo, n
  <2> QED BY <1>1, <2>2, <2>3
<1>3. \A k \in 0..(n - 1) : k \in T => k + 1 \in T
  <2> SUFFICES ASSUME NEW k \in 0..(n - 1), count[k] = Cardinality(UpTo(k))
               PROVE  count[k + 1] = Cardinality(UpTo(k + 1))
    OBVIOUS
  <2>1. IsFiniteSet(UpTo(k)) /\ IsFiniteSet(Of(k + 1))
    BY FS_Subset
  <2>2. Cardinality(UpTo(k)) \in Nat /\ Cardinality(Of(k + 1)) \in Nat
    BY <2>1, FS_CardinalityType
  <2>3. k + 1 \in 1..n /\ (k + 1) - 1 = k
    OBVIOUS
  <2>4. CASE k + 1 \in G
    <3>1. UpTo(k + 1) = UpTo(k) \cup Of(k + 1) /\ UpTo(k) \cap Of(k + 1) = {}
      BY <2>3, <2>4
    <3>2. Cardinality(UpTo(k + 1)) = Cardinality(UpTo(k)) + Cardinality(Of(k + 1)) - 0
      <4> HIDE DEF UpTo, Of
      <4> QED BY <2>1, <3>1, FS_Union, FS_EmptySet
    <3>3. count[k + 1] = count[k] + ts[k + 1].count
      BY <1>1, <2>3, <2>4
    <3>4. ts[k + 1].count = Cardinality(Of(k + 1))
      <4>1. Of(k + 1) = Fiber(e, E, {k + 1})
        BY DEF Fiber
      <4> QED BY <2>4, <4>1
    <3> HIDE DEF UpTo, Of
    <3> QED BY <2>2, <3>2, <3>3, <3>4
  <2>5. CASE k + 1 \notin G
    <3>1. UpTo(k + 1) = UpTo(k)
      BY <2>3, <2>5
    <3>2. count[k + 1] = count[k] + 0
      BY <1>1, <2>3, <2>5
    <3> HIDE DEF UpTo
    <3> QED BY <2>2, <3>1, <3>2
  <2> QED BY <2>4, <2>5
<1>4. n \in T
  <2> HIDE DEF T
  <2>1. \A k \in 0..n : k \in T
    BY <1>2, <1>3, Reached
  <2> QED BY <2>1
<1>5. UpTo(n) = Fiber(e, E, G)
  BY DEF Fiber
<1> QED BY <1>1, <1>4, <1>5

(* A sum of counts is a count.                                             *)
LEMMA CountType ==
  ASSUME NEW ts \in Seq(Template), NEW G
  PROVE  CountOf(ts, G) \in Nat
<1> DEFINE n == Len(ts)
<1>1. n \in Nat /\ \A k \in 1..n : ts[k] \in Template
  OBVIOUS
<1>2. PICK count :
        /\ count[0] = 0
        /\ \A k \in 1..n : count[k] = count[k - 1] + (IF k \in G THEN ts[k].count ELSE 0)
        /\ CountOf(ts, G) = count[n]
  BY <1>1, CountIs
<1> DEFINE T == {k \in 0..n : count[k] \in Nat}
<1> HIDE DEF n
<1>3. 0 \in T
  BY <1>1, <1>2
<1>4. \A k \in 0..(n - 1) : k \in T => k + 1 \in T
  <2> SUFFICES ASSUME NEW k \in 0..(n - 1), count[k] \in Nat PROVE k + 1 \in T
    OBVIOUS
  <2>1. k + 1 \in 1..n /\ (k + 1) - 1 = k
    BY <1>1
  <2>2. count[k + 1] = count[k] + (IF k + 1 \in G THEN ts[k + 1].count ELSE 0)
    BY <1>2, <2>1
  <2>3. ts[k + 1].count \in Nat
    BY <1>1, <2>1 DEF Template
  <2> QED BY <1>1, <2>1, <2>2, <2>3
<1>5. n \in T
  <2> HIDE DEF T
  <2>1. \A k \in 0..n : k \in T
    BY <1>1, <1>3, <1>4, Reached
  <2> QED BY <1>1, <2>1
<1> QED BY <1>2, <1>5

(* What a merged template says of its group.                               *)
Sums(ts, G, u) ==
  /\ u.count = CountOf(ts, G)
  /\ \A k \in G : u.first <= ts[k].first /\ ts[k].last <= u.last

(* absorbInto: the counts add up and the range covers.                     *)
LEMMA MergedSums ==
  ASSUME NEW ts \in Seq(Template), NEW G \in SUBSET (1..Len(ts)), G # {},
         NEW id \in Texts, NEW rows \in Seq(Texts)
  PROVE  Merged(id, rows, ts, G) \in Template /\ Sums(ts, G, Merged(id, rows, ts, G))
<1> DEFINE n == Len(ts)
           firsts == {ts[k].first : k \in G}
           lasts == {ts[k].last : k \in G}
<1>1. n \in Nat /\ \A k \in 1..n : ts[k].first \in Nat /\ ts[k].last \in Nat
  <2>1. n \in Nat /\ \A k \in 1..n : ts[k] \in Template
    OBVIOUS
  <2> QED BY <2>1 DEF Template
<1>2. firsts \in SUBSET Nat /\ firsts # {}
  BY <1>1
<1>3. LeastOf(firsts) \in Nat /\ \A k \in G : LeastOf(firsts) <= ts[k].first
  <2>1. \A k \in G : ts[k].first \in firsts
    OBVIOUS
  <2> HIDE DEF firsts
  <2> QED BY <1>2, <2>1, FirstIsLeast
<1> DEFINE Most(m, k) == m \in G /\ \A j \in G : j <= k => ts[j].last <= ts[m].last
           T == {k \in 0..n : (\A j \in G : j > k) \/ \E m \in G : Most(m, k)}
<1>4. 0 \in T
  BY <1>1
<1>5. \A k \in 0..(n - 1) : k \in T => k + 1 \in T
  <2> SUFFICES ASSUME NEW k \in 0..(n - 1), k \in T
               PROVE  k + 1 \in T
    OBVIOUS
  <2>1. k + 1 \in 0..n /\ k \in Nat /\ \A j \in G : j \in Nat /\ ts[j].last \in Nat
    BY <1>1
  <2>2. CASE k + 1 \notin G
    <3>1. \A j \in G : j <= k + 1 => j <= k
      BY <2>1, <2>2
    <3>2. (\A j \in G : j > k) => (\A j \in G : j > k + 1)
      BY <2>1, <2>2
    <3> QED BY <2>1, <3>1, <3>2
  <2>3. CASE k + 1 \in G /\ \A j \in G : j > k
    <3>1. \A j \in G : j <= k + 1 => j = k + 1
      BY <2>1, <2>3
    <3>2. Most(k + 1, k + 1)
      BY <2>1, <2>3, <3>1
    <3> QED BY <2>1, <2>3, <3>2
  <2>4. ASSUME k + 1 \in G, NEW m \in G, Most(m, k) PROVE k + 1 \in T
    <3>1. \A j \in G : j <= k + 1 => j <= k \/ j = k + 1
      BY <2>1
    <3>0. m \in G /\ \A j \in G : j <= k => ts[j].last <= ts[m].last
      BY <2>4
    <3>2. CASE ts[k + 1].last <= ts[m].last
      <4>1. Most(m, k + 1)
        BY <3>0, <3>1, <3>2
      <4> QED BY <2>1, <4>1
    <3>3. CASE ts[m].last < ts[k + 1].last
      <4>1. Most(k + 1, k + 1)
        BY <2>1, <2>4, <3>0, <3>1, <3>3
      <4> QED BY <2>1, <2>4, <4>1
    <3>4. ts[k + 1].last \in Nat /\ ts[m].last \in Nat
      BY <2>1, <2>4, <3>0
    <3> HIDE DEF T, Most
    <3> QED BY <3>2, <3>3, <3>4
  <2> QED BY <2>2, <2>3, <2>4
<1>6. n \in T
  <2> HIDE DEF T, n
  <2>1. \A k \in 0..n : k \in T
    BY <1>1, <1>4, <1>5, Reached
  <2> QED BY <1>1, <2>1
<1>7. PICK m \in G : \A j \in G : ts[j].last <= ts[m].last
  <2>1. \A j \in G : j \in 1..n /\ j <= n /\ ~(j > n)
    BY <1>1
  <2>2. \E m \in G : Most(m, n)
    BY <1>6, <2>1
  <2>3. PICK m \in G : Most(m, n)
    BY <2>2
  <2>4. \A j \in G : ts[j].last <= ts[m].last
    BY <2>1, <2>3
  <2> QED BY <2>4
<1>8. GreatestOf(lasts) \in Nat /\ \A k \in G : ts[k].last <= GreatestOf(lasts)
  <2>1. ts[m].last \in lasts /\ \A x \in lasts : ts[m].last >= x
    BY <1>1, <1>7
  <2>2. GreatestOf(lasts) \in lasts /\ \A x \in lasts : GreatestOf(lasts) >= x
    <3> HIDE DEF lasts
    <3> QED BY <2>1 DEF GreatestOf
  <2>3. lasts \in SUBSET Nat /\ \A k \in G : ts[k].last \in lasts
    BY <1>1
  <2> HIDE DEF lasts
  <2> QED BY <2>2, <2>3
<1>9. CountOf(ts, G) \in Nat
  BY CountType
<1> DEFINE u == Merged(id, rows, ts, G)
<1>10. /\ u = [id |-> id, rows |-> rows, count |-> CountOf(ts, G),
               first |-> LeastOf(firsts), last |-> GreatestOf(lasts)]
  BY DEF Merged
<1> HIDE DEF u, firsts, lasts
<1>11. u \in Template
  BY <1>3, <1>8, <1>9, <1>10 DEF Template
<1>12. Sums(ts, G, u)
  BY <1>3, <1>8, <1>10 DEF Sums
<1> QED BY <1>11, <1>12 DEF u
-----------------------------------------------------------------------------
(* A way to put positions together: the class of each.                     *)
Classes(C, n) ==
  /\ C \in [1..n -> SUBSET (1..n)]
  /\ \A k \in 1..n : k \in C[k] /\ \A j \in C[k] : C[j] = C[k]

(* The positions that stand for their class, and where each class goes.    *)
Heads(C, n) == {k \in 1..n : k = LeastOf(C[k])}

(* Of each class the value at its least position is left: h says where     *)
(* each position went.                                                     *)
GoesTo(h, C, n, val, us) ==
  /\ h \in [1..n -> 1..Len(us)]
  /\ \A k \in 1..n : us[h[k]] = val[LeastOf(C[k])]
  /\ \A j, k \in 1..n : h[j] = h[k] <=> j \in C[k]
  /\ \A r \in 1..Len(us) : \E k \in Heads(C, n) : h[k] = r

(* The least of a class is one of it, and heads it.                        *)
LEMMA HeadsOf ==
  ASSUME NEW n \in Nat, NEW C, Classes(C, n), NEW k \in 1..n
  PROVE  LeastOf(C[k]) \in C[k] /\ LeastOf(C[k]) \in Heads(C, n)
<1>1. C[k] \in SUBSET Nat /\ C[k] # {}
  BY DEF Classes
<1>2. LeastOf(C[k]) \in C[k]
  BY <1>1, FirstIsLeast
<1>3. LeastOf(C[k]) \in 1..n /\ C[LeastOf(C[k])] = C[k]
  BY <1>2 DEF Classes
<1> QED BY <1>2, <1>3 DEF Heads

(* InOrder over the heads is such a result.                                *)
LEMMA ClassesGo ==
  ASSUME NEW n \in Nat, NEW C, Classes(C, n), NEW val
  PROVE  /\ Len(InOrder(val, Heads(C, n))) \in Nat
         /\ \E h : GoesTo(h, C, n, val, InOrder(val, Heads(C, n)))
<1> DEFINE K == Heads(C, n)
           us == InOrder(val, K)
<1>1. Positions(K)
  <2>1. IsFiniteSet(1..n)
    BY FS_Interval
  <2>2. K \subseteq 1..n
    BY DEF Heads
  <2> QED BY <2>1, <2>2, FS_Subset DEF Positions
<1> HIDE DEF K
<1>2. Len(us) \in Nat
  BY <1>1, InOrderPlaces
<1>3. PICK place : InPlace(place, val, K, us)
  BY <1>1, InOrderPlaces
<1> DEFINE h == [k \in 1..n |-> place[LeastOf(C[k])]]
<1>4. \A k \in 1..n : LeastOf(C[k]) \in K /\ LeastOf(C[k]) \in C[k]
  BY HeadsOf DEF K
<1>5. h \in [1..n -> 1..Len(us)]
  BY <1>3, <1>4 DEF InPlace, OneToOne
<1>6. \A k \in 1..n : us[h[k]] = val[LeastOf(C[k])]
  <2> HIDE DEF us
  <2> QED BY <1>3, <1>4 DEF InPlace
<1>7. ASSUME NEW j \in 1..n, NEW k \in 1..n PROVE h[j] = h[k] <=> j \in C[k]
  <2>1. j \in C[k] <=> C[j] = C[k]
    BY DEF Classes
  <2>2. LeastOf(C[j]) = LeastOf(C[k]) => C[j] = C[k]
    BY <1>4 DEF Classes
  <2>3. h[j] = h[k] <=> LeastOf(C[j]) = LeastOf(C[k])
    BY <1>3, <1>4 DEF InPlace, OneToOne
  <2> QED BY <2>1, <2>2, <2>3
<1>8. ASSUME NEW r \in 1..Len(us) PROVE \E k \in K : h[k] = r
  <2>1. PICK k \in K : place[k] = r
    BY <1>3 DEF InPlace
  <2>2. k \in 1..n /\ k = LeastOf(C[k])
    BY DEF K, Heads
  <2> QED BY <2>1, <2>2
<1>9. GoesTo(h, C, n, val, us)
  <2> HIDE DEF us, h
  <2> QED BY <1>5, <1>6, <1>7, <1>8 DEF GoesTo, K
<1> QED BY <1>2, <1>9 DEF K
-----------------------------------------------------------------------------
(* The entries of a template, when f says which template has what became   *)
(* of each cluster.                                                        *)
EntriesOf(f, k) == {i \in 1..Len(joined) : joined[i] # 0 /\ f[joined[i]] = k}

(* Each template spans its clusters and counts their entries,              *)
Keeps(f, ts) ==
  /\ f \in [1..Len(clusters) -> 1..Len(ts)]
  /\ \A j \in 1..Len(clusters) :
       ts[f[j]].first <= clusters[j].first /\ clusters[j].last <= ts[f[j]].last
  /\ \A k \in 1..Len(ts) : ts[k].count = Cardinality(EntriesOf(f, k))

(* what was absorbed is known to be, by its absorber and no other,         *)
Follows(f, ts, old) ==
  \A j \in 1..Len(clusters) : \A id :
    <<clusters[j].pattern, id>> \in old <=>
      id = ts[f[j]].id /\ id # clusters[j].pattern

(* and a cluster's pattern is nobody's but its own template's.             *)
Owns(f, ts) ==
  \A j \in 1..Len(clusters), k \in 1..Len(ts) :
    ts[k].id = clusters[j].pattern => f[j] = k

(* The templates ts are what became of the clusters, f says which, and old *)
(* is what was recorded of it.                                             *)
Traced(f, ts, old) == Keeps(f, ts) /\ Follows(f, ts, old) /\ Owns(f, ts)

(* No two templates of ts share an id.                                     *)
DistinctIds(ts) == \A j, k \in 1..Len(ts) : ts[j].id = ts[k].id => j = k

Pairs(S) == \A r \in S : \E a, b : r = <<a, b>>

(* Every entry that was seen so far is in a cluster, or was empty.         *)
Placed ==
  /\ Len(clusters) \in Nat /\ Len(joined) \in Nat
  /\ \A i \in 1..Len(joined) : joined[i] \in 0..Len(clusters)
  /\ \A j \in 1..Len(clusters) : clusters[j].first \in Nat /\ clusters[j].last \in Nat

(* runConsolidators' composition, as a relation: a pair of the pass, an    *)
(* older pair it does not touch, or one of each in a row.                  *)
LEMMA Composed ==
  ASSUME NEW old, NEW new, Pairs(old), Pairs(new)
  PROVE  /\ Pairs(ComposeAbsorbed(old, new))
         /\ \A a, b : <<a, b>> \in ComposeAbsorbed(old, new) <=>
              \/ <<a, b>> \in new
              \/ /\ <<a, b>> \in old
                 /\ \A x : <<a, x>> \notin new /\ <<b, x>> \notin new
              \/ \E c : <<a, c>> \in old /\ <<c, b>> \in new
<1> DEFINE gone == {r[1] : r \in new}
           rest == {r \in old : r[1] \notin gone /\ r[2] \notin gone}
           steps == {p \in old \X new : p[1][2] = p[2][1]}
           both == {<<p[1][1], p[2][2]>> : p \in steps}
<1>1. ComposeAbsorbed(old, new) = new \cup rest \cup both
  BY DEF ComposeAbsorbed
<1>2. \A a : a \in gone <=> \E x : <<a, x>> \in new
  <2> SUFFICES ASSUME NEW a PROVE a \in gone <=> \E x : <<a, x>> \in new
    OBVIOUS
  <2>1. ASSUME NEW r \in new, r[1] = a PROVE \E x : <<a, x>> \in new
    <3>1. PICK b, x : r = <<b, x>>
      BY DEF Pairs
    <3> QED BY <2>1, <3>1
  <2>2. ASSUME NEW x, <<a, x>> \in new PROVE a \in gone
    <3>1. <<a, x>>[1] = a
      OBVIOUS
    <3> QED BY <2>2, <3>1
  <2> QED BY <2>1, <2>2
<1>3. \A a, b : <<a, b>> \in rest <=>
        <<a, b>> \in old /\ \A x : <<a, x>> \notin new /\ <<b, x>> \notin new
  <2> HIDE DEF gone
  <2> QED BY <1>2
<1>4. \A a, b : <<a, b>> \in both <=> \E c : <<a, c>> \in old /\ <<c, b>> \in new
  <2> SUFFICES ASSUME NEW a, NEW b
               PROVE  <<a, b>> \in both <=> \E c : <<a, c>> \in old /\ <<c, b>> \in new
    OBVIOUS
  <2>1. ASSUME <<a, b>> \in both PROVE \E c : <<a, c>> \in old /\ <<c, b>> \in new
    <3>1. PICK r \in old, s \in new : <<r, s>> \in steps /\ r[1] = a /\ s[2] = b
      BY <2>1
    <3>2. r[2] = s[1]
      BY <3>1
    <3>3. PICK a1, c : r = <<a1, c>>
      BY DEF Pairs
    <3>4. PICK c1, b1 : s = <<c1, b1>>
      BY DEF Pairs
    <3>5. a1 = a /\ c1 = c /\ b1 = b
      BY <3>1, <3>2, <3>3, <3>4
    <3> QED BY <3>3, <3>4, <3>5
  <2>2. ASSUME NEW c, <<a, c>> \in old, <<c, b>> \in new PROVE <<a, b>> \in both
    <3>1. <<<<a, c>>, <<c, b>>>> \in steps
      BY <2>2
    <3> QED BY <3>1
  <2> QED BY <2>1, <2>2
<1>5. Pairs(rest) /\ Pairs(both)
  BY DEF Pairs
<1> HIDE DEF rest, both
<1>6. Pairs(new \cup rest \cup both)
  BY <1>5 DEF Pairs
<1> QED BY <1>1, <1>3, <1>4, <1>6
-----------------------------------------------------------------------------
(* Templates put in another order.                                         *)
Taken(q, ts) == [k \in 1..Len(ts) |-> ts[q[k]]]

(* The order of the templates does not matter.                             *)
LEMMA Reordered ==
  ASSUME Placed, NEW ts, Len(ts) \in Nat, NEW q, OneToOne(q, 1..Len(ts), 1..Len(ts)),
         NEW f, NEW old, Traced(f, ts, old)
  PROVE  \E g : Traced(g, Taken(q, ts), old)
<1> DEFINE n == Len(ts)
           us == Taken(q, ts)
           g == [j \in 1..Len(clusters) |-> CHOOSE k \in 1..n : q[k] = f[j]]
<1>1. Len(us) = n /\ \A k \in 1..n : us[k] = ts[q[k]]
  BY DEF Taken
<1> HIDE DEF us
<1>2. \A i \in 1..n : \E k \in 1..n : q[k] = i
  <2>1. OneToOne(q, 1..n, 1..n)
    OBVIOUS
  <2> QED BY <2>1, OntoSelf
<1>3. \A j \in 1..Len(clusters) : f[j] \in 1..n
  BY DEF Traced, Keeps
<1>4. \A j \in 1..Len(clusters) : g[j] \in 1..n /\ q[g[j]] = f[j] /\ us[g[j]] = ts[f[j]]
  BY <1>1, <1>2, <1>3 DEF OneToOne
<1>5. \A j \in 1..Len(clusters), k \in 1..n : g[j] = k <=> f[j] = q[k]
  <2> HIDE DEF g
  <2> QED BY <1>4 DEF OneToOne
<1> HIDE DEF n
<1>6. ASSUME NEW k \in 1..n PROVE EntriesOf(g, k) = EntriesOf(f, q[k])
  <2> HIDE DEF g
  <2>1. \A i \in 1..Len(joined) : joined[i] # 0 => (g[joined[i]] = k <=> f[joined[i]] = q[k])
    BY <1>5 DEF Placed
  <2> QED BY <2>1 DEF EntriesOf
<1>7. g \in [1..Len(clusters) -> 1..n]
  BY <1>4
<1> HIDE DEF g
<1>8. Keeps(g, us)
  <2>1. ASSUME NEW k \in 1..n PROVE us[k].count = Cardinality(EntriesOf(g, k))
    <3>1. q[k] \in 1..n /\ us[k] = ts[q[k]]
      BY <1>1 DEF n, OneToOne
    <3> QED BY <1>6, <3>1 DEF Traced, Keeps, n
  <2>2. ASSUME NEW j \in 1..Len(clusters)
        PROVE  us[g[j]].first <= clusters[j].first /\ clusters[j].last <= us[g[j]].last
    BY <1>4 DEF Traced, Keeps
  <2> QED BY <1>1, <1>7, <2>1, <2>2 DEF Keeps
<1>9. Follows(g, us, old)
  BY <1>4 DEF Traced, Follows
<1>10. Owns(g, us)
  <2>1. \A k \in 1..n : q[k] \in 1..n /\ us[k] = ts[q[k]]
    BY <1>1 DEF n, OneToOne
  <2> QED BY <1>1, <1>5, <2>1 DEF Traced, Owns, n
<1> QED BY <1>8, <1>9, <1>10 DEF Traced, us

(* Where h takes what f had taken somewhere.                               *)
Along(h, f) == [j \in 1..Len(clusters) |-> h[f[j]]]

(* Each class is summed in its val, or is one template left as it was.     *)
SumsOrStays(ts, C, val) ==
  \A k \in 1..Len(ts) : /\ val[k] \in Template
                        /\ \/ Sums(ts, C[k], val[k])
                           \/ C[k] = {k} /\ val[k] = ts[k]

(* Templates put together class by class.                                  *)
LEMMA Coalesced ==
  ASSUME Placed, NEW ts \in Seq(Template), NEW C, Classes(C, Len(ts)), NEW val,
         SumsOrStays(ts, C, val),
         NEW us, NEW h, GoesTo(h, C, Len(ts), val, us), NEW f, Keeps(f, ts)
  PROVE  Keeps(Along(h, f), us)
<1> DEFINE n == Len(ts)
           m == Len(clusters)
           g == [j \in 1..m |-> h[f[j]]]
           E == {i \in 1..Len(joined) : joined[i] # 0}
           e == [i \in E |-> f[joined[i]]]
<1> USE DEF SumsOrStays
<1>1. n \in Nat /\ m \in Nat /\ \A k \in 1..n : ts[k] \in Template
  BY DEF Placed
<1>2. \A j \in 1..m : f[j] \in 1..n
  BY DEF Keeps
<1>3. g \in [1..m -> 1..Len(us)]
  BY <1>2 DEF GoesTo
<1>4. IsFiniteSet(E) /\ e \in [E -> 1..n]
  <2>1. IsFiniteSet(1..Len(joined))
    BY FS_Interval DEF Placed
  <2>2. IsFiniteSet(E)
    BY <2>1, FS_Subset
  <2> QED BY <1>2, <2>2 DEF Placed
<1>5. \A k \in 1..n : ts[k].count = Cardinality(Fiber(e, E, {k}))
  <2>1. \A k \in 1..n : EntriesOf(f, k) = Fiber(e, E, {k})
    BY DEF EntriesOf, Fiber
  <2> QED BY <2>1 DEF Keeps
<1>6. ASSUME NEW j \in 1..m
      PROVE  us[g[j]].first <= clusters[j].first /\ clusters[j].last <= us[g[j]].last
  <2> DEFINE k == f[j]
             head == LeastOf(C[k])
  <2>1. k \in 1..n /\ head \in C[k] /\ head \in Heads(C, n)
    BY <1>1, <1>2, HeadsOf
  <2>2. head \in 1..n /\ C[head] = C[k] /\ k \in C[head]
    BY <2>1 DEF Classes, Heads
  <2>3. us[g[j]] = val[head]
    BY <2>1 DEF GoesTo
  <2>4. ts[k].first <= clusters[j].first /\ clusters[j].last <= ts[k].last
    BY DEF Keeps
  <2>5. val[head].first <= ts[k].first /\ ts[k].last <= val[head].last
    <3>1. CASE Sums(ts, C[head], val[head])
      BY <2>2, <3>1 DEF Sums
    <3>2. CASE C[head] = {head} /\ val[head] = ts[head]
      <4>1. val[head] = ts[k]
        BY <2>2, <3>2
      <4>2. ts[k].first \in Nat /\ ts[k].last \in Nat
        BY <1>1, <2>1 DEF Template
      <4>3. val[head].first = ts[k].first /\ val[head].last = ts[k].last
        BY <4>1
      <4> HIDE DEF head, k
      <4> QED BY <4>2, <4>3
    <3> QED BY <2>2, <3>1, <3>2
  <2>6. /\ val[head].first \in Nat /\ val[head].last \in Nat
        /\ ts[k].first \in Nat /\ ts[k].last \in Nat
        /\ clusters[j].first \in Nat /\ clusters[j].last \in Nat
    BY <1>1, <2>1, <2>2 DEF Template, Placed
  <2> HIDE DEF head, k, g
  <2> QED BY <2>3, <2>4, <2>5, <2>6
<1>7. ASSUME NEW r \in 1..Len(us) PROVE us[r].count = Cardinality(EntriesOf(g, r))
  <2>1. PICK k \in Heads(C, n) : h[k] = r
    BY DEF GoesTo
  <2>2. k \in 1..n /\ k = LeastOf(C[k]) /\ us[r] = val[k] /\ C[k] \in SUBSET (1..n)
    BY <2>1 DEF GoesTo, Heads, Classes
  <2>3. EntriesOf(g, r) = Fiber(e, E, C[k])
    <3>1. \A j \in 1..m : g[j] = r <=> f[j] \in C[k]
      BY <1>2, <2>1, <2>2 DEF GoesTo
    <3> HIDE DEF g
    <3> QED BY <3>1 DEF EntriesOf, Fiber, Placed
  <2>4. CASE Sums(ts, C[k], val[k])
    <3> HIDE DEF e, E
    <3>1. \A i \in C[k] : ts[i].count = Cardinality(Fiber(e, E, {i}))
      BY <1>5, <2>2
    <3>2. CountsOwn(ts, C[k], e, E)
      BY <1>1, <1>4, <2>2, <3>1 DEF CountsOwn
    <3>3. CountOf(ts, C[k]) = Cardinality(Fiber(e, E, C[k]))
      BY <3>2, CountsTogether
    <3> QED BY <2>2, <2>3, <2>4, <3>3 DEF Sums
  <2>5. CASE C[k] = {k} /\ val[k] = ts[k]
    <3> HIDE DEF e, E
    <3> QED BY <1>5, <2>2, <2>3, <2>5
  <2> QED BY <2>2, <2>4, <2>5
<1> HIDE DEF g
<1>8. Keeps(g, us)
  BY <1>3, <1>6, <1>7 DEF Keeps
<1> QED BY <1>8 DEF g, Along
-----------------------------------------------------------------------------
(* What a pass does to the templates ts: the classes C of those in crashed *)
(* become one, val is what each position holds then, and us is the result. *)
Passes(ts, C, crashed, val, us) ==
  /\ Len(ts) \in Nat
  /\ Classes(C, Len(ts))
  /\ \A k \in crashed : k \in 1..Len(ts)
  /\ \A k \in crashed : \A j \in C[k] : j \in crashed /\ val[j].id = val[k].id
  /\ \A k \in 1..Len(ts) : k \notin crashed => C[k] = {k} /\ val[k] = ts[k]
  /\ us = InOrder(val, Heads(C, Len(ts)))

(* What a position holds after the pass is named as its class is.          *)
LEMMA PassedIds ==
  ASSUME NEW ts, NEW C, NEW crashed, NEW val, NEW us, Passes(ts, C, crashed, val, us),
         NEW h, GoesTo(h, C, Len(ts), val, us)
  PROVE  \A k \in 1..Len(ts) : us[h[k]].id = val[k].id
<1> SUFFICES ASSUME NEW k \in 1..Len(ts) PROVE us[h[k]].id = val[k].id
  OBVIOUS
<1>1. LeastOf(C[k]) \in C[k] /\ us[h[k]] = val[LeastOf(C[k])]
  BY HeadsOf DEF Passes, GoesTo
<1>2. CASE k \in crashed
  BY <1>1, <1>2 DEF Passes
<1>3. CASE k \notin crashed
  <2>1. C[k] = {k}
    BY <1>3 DEF Passes
  <2>2. LeastOf(C[k]) = k
    BY <1>1, <2>1
  <2> QED BY <1>1, <2>2
<1> QED BY <1>2, <1>3

(* What a pass absorbs.                                                    *)
Absorbs(ts, val, crashed) == {<<ts[k].id, val[k].id>> : k \in crashed}

(* A pass that absorbs only what one template has, under a name that is no *)
(* pattern, loses track of no cluster.                                     *)
LEMMA PassTraces ==
  ASSUME NEW ts, NEW C, NEW crashed, NEW val, NEW us, Passes(ts, C, crashed, val, us),
         \A j \in crashed, k \in 1..Len(ts) : ts[j].id = ts[k].id => j = k,
         \A k \in crashed, j \in 1..Len(clusters) : val[k].id # clusters[j].pattern,
         NEW f \in [1..Len(clusters) -> 1..Len(ts)],
         NEW old, Pairs(old), Follows(f, ts, old), Owns(f, ts),
         NEW h, GoesTo(h, C, Len(ts), val, us)
  PROVE  /\ Follows(Along(h, f), us, ComposeAbsorbed(old, Absorbs(ts, val, crashed)))
         /\ Owns(Along(h, f), us)
<1> DEFINE new == Absorbs(ts, val, crashed)
           g == Along(h, f)
<1>0. \A j \in 1..Len(clusters) : g[j] = h[f[j]]
  BY DEF Along
<1>1. \A a, b : <<a, b>> \in new <=> \E k \in crashed : a = ts[k].id /\ b = val[k].id
  BY DEF Absorbs
<1>2. Pairs(new)
  BY DEF Pairs, Absorbs
<1> HIDE DEF new, g
<1>3. \A k \in crashed : k \in 1..Len(ts)
  BY DEF Passes
<1>4. \A k \in 1..Len(ts) : k \notin crashed => val[k].id = ts[k].id
  BY DEF Passes
<1>5. ASSUME NEW j \in 1..Len(clusters), NEW id
      PROVE  <<clusters[j].pattern, id>> \in ComposeAbsorbed(old, new) <=>
               id = us[g[j]].id /\ id # clusters[j].pattern
  <2> DEFINE p == clusters[j].pattern
             k == f[j]
             t == ts[k].id
  <2>1. k \in 1..Len(ts) /\ us[g[j]].id = val[k].id
    BY <1>0, PassedIds
  <2>2. \A x : <<p, x>> \in old <=> x = t /\ x # p
    BY DEF Follows
  <2>3. \A x : <<p, x>> \in new <=> k \in crashed /\ t = p /\ x = val[k].id
    <3>1. \A i \in crashed : ts[i].id = p => i = k
      BY <1>3 DEF Owns
    <3> HIDE DEF k, p
    <3> QED BY <1>1, <3>1
  <2>4. \A x : <<t, x>> \in new <=> k \in crashed /\ x = val[k].id
    <3>1. \A i \in crashed : ts[i].id = t => i = k
      BY <2>1
    <3> HIDE DEF k
    <3> QED BY <1>1, <3>1
  <2>5. <<p, id>> \in ComposeAbsorbed(old, new) <=>
          \/ <<p, id>> \in new
          \/ /\ <<p, id>> \in old
             /\ \A x : <<p, x>> \notin new /\ <<id, x>> \notin new
          \/ \E c : <<p, c>> \in old /\ <<c, id>> \in new
    BY <1>2, Composed
  <2>6. k \in crashed => val[k].id # p
    OBVIOUS
  <2>7. k \notin crashed => val[k].id = t
    BY <1>4, <2>1
  <2> HIDE DEF p, t, k
  <2>8. CASE k \in crashed
    <3>1. (\E c : <<p, c>> \in old /\ <<c, id>> \in new) <=> t # p /\ id = val[k].id
      BY <2>2, <2>4, <2>8
    <3>2. <<t, val[k].id>> \in new
      BY <2>4, <2>8
    <3>3. ~(<<p, id>> \in old /\ \A x : <<p, x>> \notin new /\ <<id, x>> \notin new)
      BY <2>2, <3>2
    <3> QED BY <2>1, <2>3, <2>5, <2>6, <2>8, <3>1, <3>3 DEF p
  <2>9. CASE k \notin crashed
    <3>1. ~\E c : <<p, c>> \in old /\ <<c, id>> \in new
      BY <2>2, <2>4, <2>9
    <3>2. \A x : <<p, x>> \notin new /\ <<t, x>> \notin new
      BY <2>3, <2>4, <2>9
    <3>3. <<p, id>> \in ComposeAbsorbed(old, new) <=> <<p, id>> \in old
      BY <2>2, <2>5, <3>1, <3>2
    <3> QED BY <2>1, <2>2, <2>7, <2>9, <3>3 DEF p
  <2> QED BY <2>8, <2>9
<1>6. ASSUME NEW j \in 1..Len(clusters), NEW r \in 1..Len(us), us[r].id = clusters[j].pattern
      PROVE  g[j] = r
  <2>1. PICK k \in 1..Len(ts) : h[k] = r
    BY DEF GoesTo, Heads
  <2>2. val[k].id = clusters[j].pattern
    BY <1>6, <2>1, PassedIds
  <2>3. k \notin crashed
    BY <2>2
  <2>4. f[j] = k
    BY <1>4, <2>2, <2>3 DEF Owns
  <2> QED BY <1>0, <2>1, <2>4
<1>7. Follows(g, us, ComposeAbsorbed(old, new)) /\ Owns(g, us)
  BY <1>5, <1>6 DEF Follows, Owns
<1> QED BY <1>7 DEF g, new

(* Ids stay distinct when the names a pass gives are new, and no two       *)
(* groups get one.                                                         *)
LEMMA PassKeepsDistinct ==
  ASSUME NEW ts, NEW C, NEW crashed, NEW val, NEW us, Passes(ts, C, crashed, val, us),
         DistinctIds(ts),
         \A k \in crashed, j \in 1..Len(ts) : val[k].id # ts[j].id,
         \A j, k \in crashed : val[j].id = val[k].id => j \in C[k],
         NEW h, GoesTo(h, C, Len(ts), val, us)
  PROVE  DistinctIds(us)
<1> SUFFICES ASSUME NEW q \in 1..Len(us), NEW r \in 1..Len(us), us[q].id = us[r].id
             PROVE  q = r
  BY DEF DistinctIds
<1>1. PICK j \in 1..Len(ts) : h[j] = q
  BY DEF GoesTo, Heads
<1>2. PICK k \in 1..Len(ts) : h[k] = r
  BY DEF GoesTo, Heads
<1>3. val[j].id = val[k].id
  BY <1>1, <1>2, PassedIds
<1>4. CASE j \in crashed /\ k \in crashed
  BY <1>1, <1>2, <1>3, <1>4 DEF GoesTo
<1>5. CASE j \notin crashed /\ k \notin crashed
  BY <1>1, <1>2, <1>3, <1>5 DEF DistinctIds, Passes
<1>6. CASE j \in crashed /\ k \notin crashed
  BY <1>3, <1>6 DEF Passes
<1>7. CASE j \notin crashed /\ k \in crashed
  BY <1>3, <1>7 DEF Passes
<1> QED BY <1>4, <1>5, <1>6, <1>7
-----------------------------------------------------------------------------
(* Folding keeps the ids, each once, and whose each template is.           *)
LEMMA FoldFacts ==
  ASSUME NEW ts \in Seq(Template)
  PROVE  /\ FoldTwins(ts) \in Seq(Template)
         /\ DistinctIds(FoldTwins(ts))
         /\ Ids(FoldTwins(ts)) = Ids(ts)
         /\ Placed => \A f, old : Traced(f, ts, old) => \E g : Traced(g, FoldTwins(ts), old)
<1> DEFINE n == Len(ts)
           Twins(k) == {j \in 1..n : ts[j].id = ts[k].id}
           C == [k \in 1..n |-> Twins(k)]
           val == [k \in 1..n |-> Merged(ts[k].id, ts[k].rows, ts, Twins(k))]
           us == FoldTwins(ts)
<1>1. n \in Nat /\ \A k \in 1..n : ts[k] \in Template /\ ts[k].id \in Texts /\ ts[k].rows \in Seq(Texts)
  <2>1. n \in Nat /\ \A k \in 1..n : ts[k] \in Template
    OBVIOUS
  <2> QED BY <2>1 DEF Template
<1>2. Classes(C, n)
  BY DEF Classes
<1>3. us = InOrder(val, Heads(C, n))
  <2>1. Heads(C, n) = {k \in 1..n : k = LeastOf(Twins(k))}
    BY DEF Heads
  <2> QED BY <2>1 DEF FoldTwins
<1>4. \A k \in 1..n : C[k] = Twins(k) /\ val[k] = Merged(ts[k].id, ts[k].rows, ts, C[k])
  OBVIOUS
<1>5. ASSUME NEW k \in 1..n
      PROVE  val[k] \in Template /\ val[k].id = ts[k].id /\ Sums(ts, C[k], val[k])
  <2>1. C[k] \in SUBSET (1..n) /\ C[k] # {}
    BY <1>4
  <2>2. val[k].id = ts[k].id
    BY <1>4 DEF Merged
  <2>3. val[k] \in Template /\ Sums(ts, C[k], val[k])
    <3> HIDE DEF C, val
    <3> QED BY <1>1, <1>4, <2>1, MergedSums
  <2> QED BY <2>2, <2>3
<1>6. \A j, k \in 1..n : j \in C[k] <=> ts[j].id = ts[k].id
  BY <1>4
<1> HIDE DEF C, val, us, n
<1>7. us \in Seq(Template)
  <2>1. IsFiniteSet(1..n)
    BY <1>1, FS_Interval
  <2>2. Positions(Heads(C, n)) /\ \A k \in Heads(C, n) : k \in 1..n
    <3>1. Heads(C, n) \subseteq 1..n
      BY DEF Heads
    <3>2. IsFiniteSet(Heads(C, n))
      BY <2>1, <3>1, FS_Subset
    <3>3. \A k \in Heads(C, n) : k \in 1..n
      BY <3>1
    <3>4. \A k \in 1..n : k \in Nat
      BY <1>1
    <3>5. Heads(C, n) \in SUBSET Nat
      BY <3>3, <3>4
    <3> QED BY <3>2, <3>3, <3>5 DEF Positions
  <2>3. \A k \in Heads(C, n) : val[k] \in Template
    BY <1>5, <2>2
  <2> QED BY <1>3, <2>2, <2>3, InOrderType
<1>8. PICK h : GoesTo(h, C, n, val, us)
  BY <1>1, <1>2, <1>3, ClassesGo
<1>9. \A k \in 1..n : h[k] \in 1..Len(us) /\ us[h[k]].id = ts[k].id
  <2> SUFFICES ASSUME NEW k \in 1..n PROVE h[k] \in 1..Len(us) /\ us[h[k]].id = ts[k].id
    OBVIOUS
  <2>1. LeastOf(C[k]) \in C[k] /\ LeastOf(C[k]) \in 1..n
    BY <1>1, <1>2, HeadsOf DEF Heads
  <2> QED BY <1>5, <1>6, <1>8, <2>1 DEF GoesTo
<1>10. \A r \in 1..Len(us) : \E k \in 1..n : h[k] = r
  BY <1>8 DEF GoesTo, Heads
<1>11. DistinctIds(us)
  BY <1>6, <1>8, <1>9, <1>10 DEF DistinctIds, GoesTo
<1>12. Ids(us) = Ids(ts)
  <2>1. ASSUME NEW r \in 1..Len(us) PROVE us[r].id \in Ids(ts)
    <3>1. PICK k \in 1..n : h[k] = r
      BY <1>10
    <3> QED BY <1>9, <3>1 DEF Ids, n
  <2>2. ASSUME NEW k \in 1..n PROVE ts[k].id \in Ids(us)
    BY <1>9 DEF Ids
  <2> QED BY <2>1, <2>2 DEF Ids, n
<1>13. ASSUME Placed, NEW f, NEW old, Traced(f, ts, old) PROVE \E g : Traced(g, us, old)
  <2> DEFINE g == [j \in 1..Len(clusters) |-> h[f[j]]]
  <2>1. Keeps(g, us)
    <3>1. Keeps(f, ts)
      BY <1>13 DEF Traced
    <3>2. Keeps(Along(h, f), us)
      BY <1>2, <1>5, <1>8, <1>13, <3>1, Coalesced DEF SumsOrStays, n
    <3> QED BY <3>2 DEF Along
  <2>2. \A j \in 1..Len(clusters) : f[j] \in 1..n /\ us[g[j]].id = ts[f[j]].id
    BY <1>9, <1>13 DEF Traced, Keeps, n
  <2>3. Follows(g, us, old)
    <3> HIDE DEF g
    <3> QED BY <1>13, <2>2 DEF Traced, Follows
  <2>4. ASSUME NEW j \in 1..Len(clusters), NEW r \in 1..Len(us),
               us[r].id = clusters[j].pattern
        PROVE  g[j] = r
    <3>1. PICK k \in 1..n : h[k] = r
      BY <1>10
    <3>2. ts[k].id = clusters[j].pattern
      BY <1>9, <2>4, <3>1
    <3>3. f[j] = k
      BY <1>13, <3>2 DEF Traced, Owns, n
    <3> QED BY <3>1, <3>3
  <2> HIDE DEF g
  <2>5. Owns(g, us)
    BY <2>4 DEF Owns
  <2> QED BY <2>1, <2>3, <2>5 DEF Traced
<1> QED BY <1>7, <1>11, <1>12, <1>13 DEF us
-----------------------------------------------------------------------------
(* Fragments near each other in time: what is near the same is near.       *)
LEMMA GroupsAgree ==
  ASSUME NEW n \in Nat, NEW ts, NEW placed, \A i \in placed : i \in 1..n, NEW window,
         NEW k \in placed
  PROVE  /\ k \in GroupOf(k, ts, placed, window)
         /\ \A j \in GroupOf(k, ts, placed, window) :
              /\ j \in placed
              /\ GroupOf(j, ts, placed, window) = GroupOf(k, ts, placed, window)
<1> DEFINE near(m) == ts[m].first - ts[m - 1].last <= window
           Linked(i, j) == \A m \in (Min2(i, j) + 1)..Max2(i, j) : near(m)
<1>1. \A j \in placed : GroupOf(j, ts, placed, window) = {i \in placed : Linked(i, j)}
  BY DEF GroupOf
<1>2. \A i, j \in placed :
        Linked(i, j) <=> \A m \in 1..n : (i < m /\ m <= j) \/ (j < m /\ m <= i) => near(m)
  <2> SUFFICES ASSUME NEW i \in placed, NEW j \in placed
               PROVE  Linked(i, j) <=>
                        \A m \in 1..n : (i < m /\ m <= j) \/ (j < m /\ m <= i) => near(m)
    OBVIOUS
  <2>1. i \in 1..n /\ j \in 1..n
    OBVIOUS
  <2>2. \A m \in 1..n : m \in (Min2(i, j) + 1)..Max2(i, j) <=>
                        (i < m /\ m <= j) \/ (j < m /\ m <= i)
    BY <2>1 DEF Min2, Max2
  <2>3. \A m \in (Min2(i, j) + 1)..Max2(i, j) : m \in 1..n
    BY <2>1 DEF Min2, Max2
  <2> HIDE DEF near
  <2> QED BY <2>2, <2>3
<1> HIDE DEF near, Linked
<1>3. Linked(k, k)
  <2>1. \A m \in 1..n : ~(k < m /\ m <= k)
    OBVIOUS
  <2> QED BY <1>2, <2>1
<1>4. ASSUME NEW i \in placed, NEW j \in placed, Linked(i, j) PROVE Linked(j, i)
  BY <1>2, <1>4
<1>5. ASSUME NEW h \in placed, NEW i \in placed, NEW j \in placed, Linked(h, i), Linked(i, j)
      PROVE  Linked(h, j)
  <2>1. h \in 1..n /\ i \in 1..n /\ j \in 1..n
    OBVIOUS
  <2>2. ASSUME NEW m \in 1..n, (h < m /\ m <= j) \/ (j < m /\ m <= h) PROVE near(m)
    <3>1. \/ (h < m /\ m <= i) \/ (i < m /\ m <= h)
          \/ (i < m /\ m <= j) \/ (j < m /\ m <= i)
      BY <2>1, <2>2
    <3> QED BY <1>2, <1>5, <3>1
  <2> QED BY <1>2, <2>2
<1>6. ASSUME NEW j \in placed, Linked(j, k) 
      PROVE  \A i \in placed : Linked(i, j) <=> Linked(i, k)
  BY <1>4, <1>5, <1>6
<1>7. ASSUME NEW j \in placed, Linked(j, k) 
      PROVE  {i \in placed : Linked(i, j)} = {i \in placed : Linked(i, k)}
  BY <1>6, <1>7
<1>8. k \in GroupOf(k, ts, placed, window)
  BY <1>1, <1>3
<1>9. \A j \in GroupOf(k, ts, placed, window) :
        /\ j \in placed
        /\ GroupOf(j, ts, placed, window) = GroupOf(k, ts, placed, window)
  <2> SUFFICES ASSUME NEW j \in GroupOf(k, ts, placed, window)
               PROVE  /\ j \in placed
                      /\ GroupOf(j, ts, placed, window) = GroupOf(k, ts, placed, window)
    OBVIOUS
  <2>1. j \in placed /\ Linked(j, k)
    BY <1>1
  <2> QED BY <1>1, <1>7, <2>1
<1> QED BY ONLY <1>8, <1>9

(* Each pass names what it merges with a text of its own.                  *)
LEMMA EffectiveType ==
  ASSUME NEW t \in Template
  PROVE  EffectiveText(t) \in Texts
<1>1. t.rows \in Seq(Texts) /\ t.id \in Texts
  BY DEF Template
<1>2. CASE t.rows # <<>>
  <2>1. t.rows[1] \in Texts
    BY <1>1, <1>2
  <2> QED BY <1>2, <2>1 DEF EffectiveText
<1>3. CASE t.rows = <<>>
  BY <1>1, <1>3 DEF EffectiveText
<1> QED BY <1>2, <1>3

(* What the pass of a stage may name what it merged.                       *)
Minted ==
  {id \in Texts : /\ id # <<>>
                  /\ stage = "gostack" => id = <<"Go runtime crash">>
                  /\ stage = "python" => id[1] = "Python traceback"}

LEMMA GoStackMerged ==
  ASSUME NEW ts \in Seq(Template), NEW G \in SUBSET (1..Len(ts)), G # {}
  PROVE  /\ MergeGoStackGroup(ts, G) \in Template
         /\ Sums(ts, G, MergeGoStackGroup(ts, G))
         /\ MergeGoStackGroup(ts, G).id = <<"Go runtime crash">>
<1> DEFINE headers == {k \in G : BeginsWith(ts[k].id, GoHeaders)}
           shown == {k \in headers : Cardinality({j \in headers : j < k}) < 3}
           S == IF shown # {} THEN shown ELSE {LeastOf(G)}
           rows == [k \in 1..Len(ts) |-> EffectiveText(ts[k])]
           id == <<"Go runtime crash">>
<1>1. Len(ts) \in Nat /\ \A k \in 1..Len(ts) : ts[k] \in Template
  OBVIOUS
<1>2. LeastOf(G) \in G
  <2>1. G \in SUBSET Nat
    BY <1>1
  <2> QED BY <2>1, FirstIsLeast
<1>3. \A k \in S : k \in 1..Len(ts)
  <2>1. \A k \in shown : k \in 1..Len(ts)
    OBVIOUS
  <2> HIDE DEF shown
  <2> QED BY <1>2, <2>1
<1>4. Positions(S)
  <2> HIDE DEF S
  <2>1. IsFiniteSet(1..Len(ts))
    BY <1>1, FS_Interval
  <2>2. S \subseteq 1..Len(ts)
    BY <1>3
  <2>3. IsFiniteSet(S)
    BY <2>1, <2>2, FS_Subset
  <2>4. S \in SUBSET Nat
    BY <1>1, <2>2
  <2> QED BY <2>3, <2>4 DEF Positions
<1>5. \A k \in S : rows[k] \in Texts
  <2> HIDE DEF S
  <2> QED BY <1>1, <1>3, EffectiveType
<1>6. InOrder(rows, S) \in Seq(Texts)
  <2> HIDE DEF S, rows
  <2> QED BY <1>4, <1>5, InOrderType
<1>7. id \in Texts
  BY DEF Texts, Words
<1>8. MergeGoStackGroup(ts, G) = Merged(id, InOrder(rows, S), ts, G)
  BY DEF MergeGoStackGroup
<1>9. MergeGoStackGroup(ts, G) \in Template /\ Sums(ts, G, MergeGoStackGroup(ts, G))
  <2> DEFINE shows == InOrder(rows, S)
  <2> HIDE DEF shows, id
  <2>1. shows \in Seq(Texts) /\ MergeGoStackGroup(ts, G) = Merged(id, shows, ts, G)
    BY <1>6, <1>8 DEF shows
  <2> QED BY <1>7, <2>1, MergedSums
<1>10. MergeGoStackGroup(ts, G).id = id
  <2> DEFINE shows == InOrder(rows, S)
  <2> HIDE DEF shows, id
  <2>1. MergeGoStackGroup(ts, G) = Merged(id, shows, ts, G)
    BY <1>8 DEF shows
  <2> QED BY <2>1 DEF Merged
<1> QED BY <1>9, <1>10

LEMMA Headed ==
  ASSUME NEW S, NEW w \in S, NEW rest \in Seq(S)
  PROVE  <<w>> \o rest \in Seq(S) /\ <<w>> \o rest # <<>> /\ (<<w>> \o rest)[1] = w
<1>1. <<w>> \in Seq(S) /\ Len(<<w>>) = 1 /\ <<w>>[1] = w
  OBVIOUS
<1>2. PICK x : x = <<w>> \o rest
  OBVIOUS
<1>3. x \in Seq(S) /\ Len(x) = 1 + Len(rest) /\ x[1] = w
  BY <1>1, <1>2
<1>4. x # <<>>
  BY <1>3
<1> QED BY <1>2, <1>3, <1>4

LEMMA PythonMerged ==
  ASSUME NEW ts \in Seq(Template), NEW G \in SUBSET (1..Len(ts)), G # {}
  PROVE  /\ MergePythonGroup(ts, G) \in Template
         /\ Sums(ts, G, MergePythonGroup(ts, G))
         /\ MergePythonGroup(ts, G).id \in Texts /\ MergePythonGroup(ts, G).id # <<>>
         /\ MergePythonGroup(ts, G).id[1] = "Python traceback"
<1> DEFINE Showing(tokens) == {k \in G : BeginsWith(EffectiveText(ts[k]), tokens)}
           names == IF Showing(PyHeaders) # {} THEN Showing(PyHeaders) ELSE Showing(Exceptions)
           rest == IF names # {} THEN EffectiveText(ts[LeastOf(names)]) ELSE <<>>
           id == <<"Python traceback">> \o rest
<1>1. Len(ts) \in Nat /\ \A k \in 1..Len(ts) : ts[k] \in Template
  OBVIOUS
<1>2. names \in SUBSET (1..Len(ts))
  OBVIOUS
<1> HIDE DEF names
<1>3. rest \in Texts
  <2>1. CASE names # {}
    <3>1. names \in SUBSET Nat
      BY <1>1, <1>2
    <3>2. LeastOf(names) \in names
      BY <2>1, <3>1, FirstIsLeast
    <3> QED BY <1>1, <1>2, <2>1, <3>2, EffectiveType
  <2>2. CASE names = {}
    BY <2>2 DEF Texts
  <2> QED BY <2>1, <2>2
<1> HIDE DEF rest
<1>4. id \in Texts /\ id # <<>> /\ id[1] = "Python traceback"
  <2>1. "Python traceback" \in Words /\ rest \in Seq(Words)
    BY <1>3 DEF Words, Texts
  <2> QED BY <2>1, Headed DEF Texts
<1>5. MergePythonGroup(ts, G) = Merged(id, <<>>, ts, G)
  BY DEF MergePythonGroup, names, rest
<1>6. MergePythonGroup(ts, G) \in Template /\ Sums(ts, G, MergePythonGroup(ts, G))
  <2> HIDE DEF id
  <2>1. <<>> \in Seq(Texts)
    OBVIOUS
  <2> QED BY <1>4, <1>5, <2>1, MergedSums
<1>7. MergePythonGroup(ts, G).id = id
  <2> HIDE DEF id
  <2> QED BY <1>5 DEF Merged
<1> QED BY <1>4, <1>6, <1>7

LEMMA GroupMerged ==
  ASSUME stage \in {"gostack", "python"}, NEW ts \in Seq(Template),
         NEW G \in SUBSET (1..Len(ts)), G # {}
  PROVE  /\ MergeGroup(ts, G) \in Template
         /\ Sums(ts, G, MergeGroup(ts, G))
         /\ MergeGroup(ts, G).id \in Minted
<1>1. <<"Go runtime crash">> \in Texts /\ <<"Go runtime crash">> # <<>>
  BY DEF Texts, Words
<1>2. CASE stage = "gostack"
  BY <1>1, <1>2, GoStackMerged DEF MergeGroup, Minted
<1>3. CASE stage = "python"
  BY <1>3, PythonMerged DEF MergeGroup, Minted
<1> QED BY <1>2, <1>3

(* A pass, taken apart: an order q of the templates, what it crashes       *)
(* together, and what it leaves.                                           *)
PassOf(q, ts, C, crashed, val, us) ==
  /\ OneToOne(q, 1..Len(templates), 1..Len(templates))
  /\ ts = Taken(q, templates)
  /\ Passes(ts, C, crashed, val, us)
  /\ \A k \in crashed :
       val[k] \in Template /\ Sums(ts, C[k], val[k]) /\ val[k].id \in Minted
  /\ templates' = IF pipe = "cloudwatch" THEN FoldTwins(us) ELSE us
  /\ absorbed' = ComposeAbsorbed(absorbed, Absorbs(ts, val, crashed))
  /\ twins' = (twins \/ \E j, k \in crashed : j \notin C[k] /\ val[j].id = val[k].id)

(* Consolidate's step is such a pass.                                      *)
LEMMA PassIs ==
  ASSUME stage \in {"gostack", "python"}, templates \in Seq(Template),
         NEW F \in SUBSET (1..Len(templates)), NEW H, NEW W, Consolidate(F, H, W)
  PROVE  \E q, ts, C, crashed, val, us : PassOf(q, ts, C, crashed, val, us)
<1> DEFINE n == Len(templates)
<1>1. n \in Nat /\ \A k \in 1..n : templates[k] \in Template
  BY SMTT(30)
<1>2. PICK q \in PassOrders(F, H) :
        LET ts == [k \in 1..Len(templates) |-> templates[q[k]]]
            placed == {k \in 1..Len(ts) : q[k] \in F}
            Group(k) == GroupOf(k, ts, placed, W)
            crashed == {k \in placed : Cardinality(Group(k)) >= MinGroup}
            left == InOrder([k \in 1..Len(ts) |->
                               IF k \in crashed THEN MergeGroup(ts, Group(k)) ELSE ts[k]],
                            {k \in 1..Len(ts) : k \in crashed => k = LeastOf(Group(k))})
        IN /\ templates' = IF pipe = "cloudwatch" THEN FoldTwins(left) ELSE left
           /\ absorbed' = ComposeAbsorbed(absorbed,
                {<<ts[k].id, MergeGroup(ts, Group(k)).id>> : k \in crashed})
           /\ twins' = (twins \/ \E j, k \in crashed :
                                   /\ j \notin Group(k)
                                   /\ MergeGroup(ts, Group(j)).id = MergeGroup(ts, Group(k)).id)
  BY DEF Consolidate
<1>3. OneToOne(q, 1..n, 1..n)
  <2>1. q \in [1..n -> 1..n] /\ \A j, k \in 1..n : j < k => q[j] # q[k]
    BY DEF PassOrders
  <2>2. \A j, k \in 1..n : q[j] = q[k] => j = k
    BY <1>1, <2>1
  <2> QED BY <2>1, <2>2 DEF OneToOne
<1> DEFINE ts == [k \in 1..n |-> templates[q[k]]]
           placed == {k \in 1..n : q[k] \in F}
           Group(k) == GroupOf(k, ts, placed, W)
           crashed == {k \in placed : Cardinality(Group(k)) >= MinGroup}
           C == [k \in 1..n |-> IF k \in crashed THEN Group(k) ELSE {k}]
           val == [k \in 1..n |-> IF k \in crashed THEN MergeGroup(ts, Group(k)) ELSE ts[k]]
           us == InOrder(val, Heads(C, n))
<1>4. ts \in Seq(Template) /\ Len(ts) = n
  <2>1. \A k \in 1..n : templates[q[k]] \in Template
    BY <1>1, <1>3 DEF OneToOne
  <2> HIDE DEF n
  <2> QED BY <1>1, <2>1
<1>5. \A k \in placed : k \in 1..n
  OBVIOUS
<1>6. \A k \in placed :
        /\ k \in Group(k)
        /\ \A j \in Group(k) : j \in placed /\ Group(j) = Group(k)
  <2> HIDE DEF placed, ts, n
  <2> QED BY <1>1, <1>5, GroupsAgree
<1>7. \A k \in crashed : k \in placed /\ \A j \in Group(k) : j \in crashed
  <2> HIDE DEF placed, ts, n, Group
  <2> QED BY <1>6
<1>8. \A k \in crashed : C[k] = Group(k) /\ val[k] = MergeGroup(ts, Group(k))
  <2> HIDE DEF Group, ts, crashed, placed
  <2> QED BY <1>5, <1>7
<1>9. \A k \in 1..n : k \notin crashed => C[k] = {k} /\ val[k] = ts[k]
  <2> HIDE DEF Group, ts, crashed, placed
  <2> QED OBVIOUS
<1>10. /\ templates' = IF pipe = "cloudwatch" THEN FoldTwins(us) ELSE us
       /\ absorbed' = ComposeAbsorbed(absorbed, Absorbs(ts, val, crashed))
       /\ twins' = (twins \/ \E j, k \in crashed : j \notin C[k] /\ val[j].id = val[k].id)
  <2>1. {k \in 1..n : k \in crashed => k = LeastOf(Group(k))} = Heads(C, n)
    <3>1. \A k \in 1..n : k \notin crashed => k = LeastOf(C[k])
      <4> SUFFICES ASSUME NEW k \in 1..n, k \notin crashed PROVE k = LeastOf(C[k])
        OBVIOUS
      <4>1. {k} \in SUBSET Nat /\ {k} # {} /\ C[k] = {k}
        BY <1>1, <1>9, SMTT(30)
      <4>2. LeastOf({k}) \in {k}
        BY <4>1, FirstIsLeast
      <4> HIDE DEF C, crashed
      <4> QED BY <4>1, <4>2
    <3> HIDE DEF C, crashed, Group
    <3> QED BY <1>8, <3>1 DEF Heads
  <2>2. us = InOrder(val, {k \in 1..n : k \in crashed => k = LeastOf(Group(k))})
    BY <2>1
  <2>3. Absorbs(ts, val, crashed) = {<<ts[k].id, MergeGroup(ts, Group(k)).id>> : k \in crashed}
    <3> HIDE DEF ts, val, crashed, Group, C
    <3> QED BY <1>8 DEF Absorbs
  <2>4. (\E j, k \in crashed : j \notin C[k] /\ val[j].id = val[k].id) <=>
        \E j, k \in crashed : /\ j \notin Group(k)
                              /\ MergeGroup(ts, Group(j)).id = MergeGroup(ts, Group(k)).id
    <3> HIDE DEF ts, val, crashed, Group, C
    <3> QED BY <1>8
  <2>5. /\ templates' =
             LET left == InOrder(val, {k \in 1..n : k \in crashed => k = LeastOf(Group(k))})
             IN  IF pipe = "cloudwatch" THEN FoldTwins(left) ELSE left
        /\ absorbed' = ComposeAbsorbed(absorbed,
             {<<ts[k].id, MergeGroup(ts, Group(k)).id>> : k \in crashed})
        /\ twins' = (twins \/ \E j, k \in crashed :
                                /\ j \notin Group(k)
                                /\ MergeGroup(ts, Group(j)).id = MergeGroup(ts, Group(k)).id)
    BY <1>2, <1>4
  <2> HIDE DEF ts, val, crashed, Group, C, us
  <2> QED BY <2>2, <2>3, <2>4, <2>5
<1>11. ASSUME NEW k \in crashed
       PROVE  /\ C[k] \in SUBSET (1..n) /\ k \in C[k]
              /\ \A j \in C[k] : j \in crashed /\ C[j] = C[k] /\ val[j] = val[k]
              /\ val[k] \in Template /\ Sums(ts, C[k], val[k]) /\ val[k].id \in Minted
  <2>1. k \in placed /\ k \in Group(k) /\ C[k] = Group(k) /\ val[k] = MergeGroup(ts, Group(k))
    BY <1>6, <1>7, <1>8
  <2>2. \A j \in Group(k) : j \in crashed /\ j \in 1..n /\ Group(j) = Group(k)
    <3> HIDE DEF placed, Group, crashed
    <3> QED BY <1>5, <1>6, <1>7, <2>1
  <2>3. \A j \in Group(k) : C[j] = C[k] /\ val[j] = val[k]
    <3> HIDE DEF placed, Group, crashed, C, val, ts
    <3> QED BY <1>8, <2>1, <2>2
  <2>4. Group(k) \in SUBSET (1..n) /\ Group(k) # {}
    <3> HIDE DEF placed, Group, crashed, C, val, ts
    <3> QED BY <2>1, <2>2
  <2> HIDE DEF placed, Group, crashed, C, val, ts
  <2>5. /\ MergeGroup(ts, Group(k)) \in Template
        /\ Sums(ts, Group(k), MergeGroup(ts, Group(k)))
        /\ MergeGroup(ts, Group(k)).id \in Minted
    BY <1>4, <2>4, GroupMerged
  <2> QED BY <2>1, <2>2, <2>3, <2>4, <2>5
<1> HIDE DEF ts, placed, Group, crashed, C, val, us, n
<1>12. Classes(C, n)
  <2>1. \A k \in 1..n : C[k] \in SUBSET (1..n) /\ k \in C[k] /\ \A j \in C[k] : C[j] = C[k]
    BY <1>9, <1>11
  <2>2. C = [k \in 1..n |-> C[k]]
    BY DEF C
  <2> QED BY <2>1, <2>2 DEF Classes
<1>13. Passes(ts, C, crashed, val, us)
  <2>1. us = InOrder(val, Heads(C, n))
    BY DEF us
  <2>2. \A k \in crashed : k \in 1..n
    BY <1>5, <1>7
  <2> QED BY <1>1, <1>4, <1>9, <1>11, <1>12, <2>1, <2>2 DEF Passes
<1>14. PassOf(q, ts, C, crashed, val, us)
  BY <1>3, <1>10, <1>11, <1>13 DEF PassOf, Taken, ts, n
<1> QED BY <1>14

(* The clusters' patterns.                                                 *)
Patterns == {clusters[j].pattern : j \in 1..Len(clusters)}

(* No name of a crash is a cluster's pattern.                              *)
Plain(pairs) == \A r \in pairs : r[2] \notin Patterns

(* What a pass crashed had its id to itself.                               *)
Single(ts, pairs) ==
  \A j, k \in 1..Len(ts) :
    ts[j].id = ts[k].id => j = k \/ \A x : <<ts[j].id, x>> \notin pairs

(* Or what it minted is the id of nothing yet.                             *)
Fresh(ts, pairs) == \A r \in pairs : r[2] \in Minted => r[2] \notin Ids(ts)

(* What a pass preserves, up to the folding that cloudwatch does behind    *)
(* it.                                                                     *)
LEMMA PassFacts ==
  ASSUME templates \in Seq(Template), Pairs(absorbed),
         NEW q, NEW ts, NEW C, NEW crashed, NEW val, NEW us,
         PassOf(q, ts, C, crashed, val, us)
  PROVE  /\ us \in Seq(Template)
         /\ \A id \in Ids(us) : id \in Ids(templates) \/ id \in Minted
         /\ Pairs(absorbed')
         /\ \A r \in absorbed' : r[2] \in Minted \/ \E s \in absorbed : r[2] = s[2]
         /\ Placed /\ Single(templates, absorbed') /\ Plain(absorbed') =>
              \A f : Traced(f, templates, absorbed) => \E g : Traced(g, us, absorbed')
         /\ DistinctIds(templates) /\ Fresh(templates, absorbed') /\ ~twins' => DistinctIds(us)
<1> DEFINE n == Len(templates)
           new == Absorbs(ts, val, crashed)
<1>1. n \in Nat /\ \A k \in 1..n : templates[k] \in Template
  OBVIOUS
<1>2. /\ \A k \in 1..n : q[k] \in 1..n /\ ts[k] = templates[q[k]] /\ ts[k] \in Template
      /\ ts = [k \in 1..n |-> templates[q[k]]] /\ Len(ts) = n
  <2>1. OneToOne(q, 1..n, 1..n) /\ ts = [k \in 1..n |-> templates[q[k]]]
    BY DEF PassOf, Taken
  <2> HIDE DEF n
  <2> QED BY <1>1, <2>1 DEF OneToOne
<1>3. Passes(ts, C, crashed, val, us) /\ Len(ts) = n
  BY <1>2 DEF PassOf
<1>4. absorbed' = ComposeAbsorbed(absorbed, new)
  BY DEF PassOf
<1>5. /\ \A k \in crashed :
           val[k] \in Template /\ Sums(ts, C[k], val[k]) /\ val[k].id \in Minted
      /\ twins' = (twins \/ \E j, k \in crashed : j \notin C[k] /\ val[j].id = val[k].id)
  BY DEF PassOf
<1> HIDE DEF n
<1>6. /\ \A k \in crashed : k \in 1..n
      /\ \A k \in 1..n : k \notin crashed => C[k] = {k} /\ val[k] = ts[k]
      /\ Classes(C, n) /\ us = InOrder(val, Heads(C, n))
  BY <1>2, <1>3 DEF Passes
<1>7. \A k \in 1..n : val[k] \in Template
  BY <1>2, <1>5, <1>6
<1>8. us \in Seq(Template)
  <2>1. IsFiniteSet(1..n)
    BY <1>1, FS_Interval
  <2>2. Heads(C, n) \subseteq 1..n
    BY DEF Heads
  <2>3. IsFiniteSet(Heads(C, n))
    BY <2>1, <2>2, FS_Subset
  <2>4. \A k \in 1..n : k \in Nat
    BY <1>1
  <2>5. Heads(C, n) \in SUBSET Nat
    BY <2>2, <2>4
  <2>6. Positions(Heads(C, n))
    BY <2>3, <2>5 DEF Positions
  <2>7. \A k \in Heads(C, n) : val[k] \in Template
    BY <1>7, <2>2
  <2> QED BY <1>6, <2>6, <2>7, InOrderType
<1>9. PICK h : GoesTo(h, C, n, val, us)
  BY <1>1, <1>6, ClassesGo
<1>10. GoesTo(h, C, Len(ts), val, us)
  BY <1>2, <1>9
<1>11. \A r \in 1..Len(us) : \E k \in 1..n : h[k] = r /\ us[r].id = val[k].id
  <2> SUFFICES ASSUME NEW r \in 1..Len(us)
               PROVE  \E k \in 1..n : h[k] = r /\ us[r].id = val[k].id
    OBVIOUS
  <2>1. PICK k \in 1..n : h[k] = r
    BY <1>9 DEF GoesTo, Heads
  <2>2. \A i \in 1..Len(ts) : us[h[i]].id = val[i].id
    BY <1>3, <1>10, PassedIds
  <2>3. us[h[k]].id = val[k].id
    BY <1>3, <2>2
  <2> QED BY <2>1, <2>3
<1>12. \A k \in 1..n : templates[q[k]].id \in Ids(templates)
  BY <1>2 DEF Ids, n
<1>13. \A id \in Ids(us) : id \in Ids(templates) \/ id \in Minted
  <2> SUFFICES ASSUME NEW r \in 1..Len(us)
               PROVE  us[r].id \in Ids(templates) \/ us[r].id \in Minted
    BY DEF Ids
  <2>1. PICK k \in 1..n : us[r].id = val[k].id
    BY <1>11
  <2> QED BY <1>2, <1>5, <1>6, <1>12, <2>1
<1>14. Pairs(new)
  BY DEF Pairs, Absorbs
<1>15. /\ Pairs(absorbed')
       /\ \A k \in crashed : <<ts[k].id, val[k].id>> \in absorbed'
  <2>1. \A k \in crashed : <<ts[k].id, val[k].id>> \in new
    BY DEF Absorbs
  <2> HIDE DEF new
  <2> QED BY <1>4, <1>14, <2>1, Composed
<1>16. ASSUME Placed, Single(templates, absorbed'), Plain(absorbed'),
              NEW f, Traced(f, templates, absorbed)
       PROVE  \E g : Traced(g, us, absorbed')
  <2>1. PICK e : Traced(e, ts, absorbed)
    <3>1. OneToOne(q, 1..Len(templates), 1..Len(templates)) /\ Len(templates) \in Nat
      BY <1>1 DEF PassOf, n
    <3>2. ts = Taken(q, templates)
      BY DEF PassOf
    <3>3. Placed /\ Traced(f, templates, absorbed)
      BY <1>16
    <3> QED BY <3>1, <3>2, <3>3, Reordered
  <2> DEFINE g == Along(h, e)
  <2>2. Keeps(g, us)
    <3>1. ts \in Seq(Template) /\ Classes(C, Len(ts))
      <4>1. ts \in Seq(Template)
        BY <1>1, <1>2
      <4> QED BY <1>2, <1>6, <4>1
    <3>2. SumsOrStays(ts, C, val)
      BY <1>2, <1>5, <1>6, <1>7 DEF SumsOrStays
    <3>3. Placed
      BY <1>16
    <3>4. Keeps(e, ts)
      BY <2>1 DEF Traced
    <3> HIDE DEF new
    <3> QED BY <1>10, <3>1, <3>2, <3>3, <3>4, Coalesced
  <2>3. \A j \in crashed, k \in 1..Len(ts) : ts[j].id = ts[k].id => j = k
    <3> SUFFICES ASSUME NEW j \in crashed, NEW k \in 1..n, ts[j].id = ts[k].id
                 PROVE  j = k
      BY <1>2
    <3>1. j \in 1..n /\ q[j] \in 1..n /\ q[k] \in 1..n /\ templates[q[j]].id = templates[q[k]].id
      BY <1>2, <1>6
    <3>2. <<templates[q[j]].id, val[j].id>> \in absorbed'
      BY <1>2, <1>15, <3>1
    <3>3. q[j] = q[k]
      BY <1>16, <3>1, <3>2 DEF Single, n
    <3>4. OneToOne(q, 1..n, 1..n)
      BY DEF PassOf, n
    <3> QED BY <3>1, <3>3, <3>4 DEF OneToOne
  <2>4. \A k \in crashed, j \in 1..Len(clusters) : val[k].id # clusters[j].pattern
    <3> SUFFICES ASSUME NEW k \in crashed, NEW j \in 1..Len(clusters)
                 PROVE  val[k].id # clusters[j].pattern
      OBVIOUS
    <3>1. <<ts[k].id, val[k].id>>[2] = val[k].id
      OBVIOUS
    <3>2. val[k].id \notin Patterns
      BY <1>15, <1>16, <3>1 DEF Plain
    <3> QED BY <3>2 DEF Patterns
  <2>5. Follows(g, us, ComposeAbsorbed(absorbed, new)) /\ Owns(g, us)
    <3>1. e \in [1..Len(clusters) -> 1..Len(ts)] /\ Follows(e, ts, absorbed) /\ Owns(e, ts)
      BY <2>1 DEF Traced, Keeps
    <3> QED BY <1>3, <1>10, <2>3, <2>4, <3>1, PassTraces
  <2> HIDE DEF g, new
  <2> QED BY <1>4, <2>2, <2>5 DEF Traced
<1>17. ASSUME DistinctIds(templates), Fresh(templates, absorbed'), ~twins'
       PROVE  DistinctIds(us)
  <2>1. DistinctIds(ts)
    <3>1. OneToOne(q, 1..n, 1..n)
      BY DEF PassOf, n
    <3> QED BY <1>2, <1>17, <3>1, SMTT(30) DEF DistinctIds, OneToOne, n
  <2>2. \A k \in crashed, j \in 1..Len(ts) : val[k].id # ts[j].id
    <3> SUFFICES ASSUME NEW k \in crashed, NEW j \in 1..n
                 PROVE  val[k].id # ts[j].id
      BY <1>3
    <3>1. <<ts[k].id, val[k].id>>[2] = val[k].id
      OBVIOUS
    <3>2. val[k].id \notin Ids(templates)
      BY <1>5, <1>15, <1>17, <3>1 DEF Fresh
    <3>3. j \in 1..n /\ ts[j].id \in Ids(templates)
      BY <1>2, <1>12
    <3> QED BY <3>2, <3>3
  <2>3. \A j, k \in crashed : val[j].id = val[k].id => j \in C[k]
    BY <1>5, <1>17
  <2> QED BY <1>3, <1>10, <2>1, <2>2, <2>3, PassKeepsDistinct
<1>18. ASSUME NEW r \in absorbed' PROVE r[2] \in Minted \/ \E s \in absorbed : r[2] = s[2]
  <2>1. PICK a, b : r = <<a, b>>
    BY <1>15 DEF Pairs
  <2>2. r[2] = b /\ <<a, b>> \in absorbed'
    BY <2>1
  <2>3. (\E c : <<c, b>> \in new) \/ <<a, b>> \in absorbed
    <3> HIDE DEF new
    <3>1. <<a, b>> \in ComposeAbsorbed(absorbed, new)
      BY <1>4, <2>2
    <3>2. \A x, y : <<x, y>> \in ComposeAbsorbed(absorbed, new) <=>
            \/ <<x, y>> \in new
            \/ /\ <<x, y>> \in absorbed
               /\ \A z : <<x, z>> \notin new /\ <<y, z>> \notin new
            \/ \E c : <<x, c>> \in absorbed /\ <<c, y>> \in new
      BY <1>14, Composed
    <3> QED BY <3>1, <3>2
  <2>4. CASE \E c : <<c, b>> \in new
    <3>1. PICK k \in crashed : b = val[k].id
      BY <2>4 DEF Absorbs
    <3> QED BY <1>5, <2>2, <3>1
  <2>5. CASE <<a, b>> \in absorbed
    <3>1. <<a, b>>[2] = b
      OBVIOUS
    <3> QED BY <2>2, <2>5, <3>1
  <2> QED BY <2>3, <2>4, <2>5
<1> QED BY <1>8, <1>13, <1>15, <1>16, <1>17, <1>18

(* And what Consolidate does.                                              *)
LEMMA PassSteps ==
  ASSUME stage \in {"gostack", "python"}, templates \in Seq(Template), Pairs(absorbed),
         NEW F \in SUBSET (1..Len(templates)), NEW H, NEW W, Consolidate(F, H, W)
  PROVE  /\ templates' \in Seq(Template)
         /\ \A id \in Ids(templates') : id \in Ids(templates) \/ id \in Minted
         /\ Pairs(absorbed')
         /\ \A r \in absorbed' : r[2] \in Minted \/ \E s \in absorbed : r[2] = s[2]
         /\ twins => twins'
         /\ Placed /\ Single(templates, absorbed') /\ Plain(absorbed') =>
              \A f : Traced(f, templates, absorbed) =>
                       \E g : Traced(g, templates', absorbed')
         /\ DistinctIds(templates) /\ Fresh(templates, absorbed') =>
              (pipe = "cloudwatch" \/ ~twins' => DistinctIds(templates'))
<1>1. PICK q, ts, C, crashed, val, us : PassOf(q, ts, C, crashed, val, us)
  BY PassIs
<1>2. /\ templates' = IF pipe = "cloudwatch" THEN FoldTwins(us) ELSE us
      /\ twins => twins'
  BY <1>1 DEF PassOf
<1>3. /\ us \in Seq(Template)
      /\ \A id \in Ids(us) : id \in Ids(templates) \/ id \in Minted
      /\ Pairs(absorbed')
      /\ \A r \in absorbed' : r[2] \in Minted \/ \E s \in absorbed : r[2] = s[2]
      /\ Placed /\ Single(templates, absorbed') /\ Plain(absorbed') =>
           \A f : Traced(f, templates, absorbed) => \E g : Traced(g, us, absorbed')
      /\ DistinctIds(templates) /\ Fresh(templates, absorbed') /\ ~twins' => DistinctIds(us)
  BY <1>1, PassFacts
<1>4. CASE pipe = "cloudwatch"
  <2>1. /\ FoldTwins(us) \in Seq(Template)
        /\ DistinctIds(FoldTwins(us))
        /\ Ids(FoldTwins(us)) = Ids(us)
        /\ Placed => \A f, old : Traced(f, us, old) => \E g : Traced(g, FoldTwins(us), old)
    BY <1>3, FoldFacts
  <2>2. templates' = FoldTwins(us)
    BY <1>2, <1>4
  <2> QED BY <1>2, <1>3, <2>1, <2>2
<1>5. CASE pipe # "cloudwatch"
  <2>1. templates' = us
    BY <1>2, <1>5
  <2> QED BY <1>2, <1>3, <1>5, <2>1
<1> QED BY <1>4, <1>5
-----------------------------------------------------------------------------
(* What the engine has gathered: its clusters count their entries and span *)
(* their times.                                                            *)
Cluster == [node : Paths, pattern : Strings, rows : Seq(Strings), count : Nat,
            first : Nat, last : Nat]

Members(j) == {i \in 1..Len(joined) : joined[i] = j}

(* What the clusters know of the entries that joined them.                 *)
Gathered ==
  /\ Placed
  /\ Len(joined) <= Len(log)
  /\ \A j \in 1..Len(clusters) :
       clusters[j] \in Cluster /\ clusters[j].count = Cardinality(Members(j))
  /\ \A i \in 1..Len(joined) : joined[i] # 0 =>
       clusters[joined[i]].first <= log[i].time /\ log[i].time <= clusters[joined[i]].last

(* Sequences, one element longer.                                          *)
LEMMA Appended ==
  ASSUME NEW s, IsSequence(s), NEW x
  PROVE  /\ IsSequence(Append(s, x)) /\ Len(s) \in Nat /\ Len(Append(s, x)) = Len(s) + 1
         /\ \A k \in 1..Len(s) : Append(s, x)[k] = s[k]
         /\ Append(s, x)[Len(s) + 1] = x
<1>1. PICK S : s \in Seq(S)
  BY DEF IsSequence
<1>2. s \in Seq(S \cup {x}) /\ Append(s, x) \in Seq(S \cup {x})
  BY <1>1
<1> QED BY <1>2 DEF IsSequence

(* Variables are tokens of the message.                                    *)
LEMMA VarsType ==
  ASSUME NEW p \in Strings, NEW t \in Strings
  PROVE  ExtractVars(p, t) \in Strings
<1>1. CASE Len(p) # Len(t)
  BY <1>1 DEF ExtractVars, Strings
<1>2. CASE Len(p) = Len(t)
  <2> DEFINE K == {i \in 1..Len(t) : p[i] = Wildcard /\ t[i] # Wildcard}
  <2>1. Len(t) \in Nat /\ \A i \in 1..Len(t) : t[i] \in STRING
    BY DEF Strings
  <2>2. Positions(K)
    <3> DEFINE n == Len(t)
    <3>1. IsFiniteSet(1..n)
      <4> HIDE DEF n
      <4>1. n \in Nat
        BY <2>1 DEF n
      <4> QED BY <4>1, FS_Interval
    <3>2. K \subseteq 1..n /\ K \in SUBSET Nat
      BY <2>1
    <3>3. IsFiniteSet(K)
      <4> HIDE DEF K, n
      <4> QED BY <3>1, <3>2, FS_Subset
    <3> QED BY <3>2, <3>3 DEF Positions
  <2>3. ExtractVars(p, t) = InOrder(t, K)
    BY <1>2 DEF ExtractVars
  <2>4. \A k \in K : t[k] \in STRING
    BY <2>1
  <2> HIDE DEF K
  <2>5. InOrder(t, K) \in Seq(STRING)
    BY <2>2, <2>4, InOrderType
  <2> QED BY <2>3, <2>5 DEF Strings
<1> QED BY <1>1, <1>2

(* updateCluster counts one more entry, and spans it.                      *)
LEMMA UpdatedType ==
  ASSUME NEW c \in Cluster, NEW e \in Entry
  PROVE  /\ Updated(c, e) \in Cluster
         /\ Updated(c, e).count = c.count + 1
         /\ Updated(c, e).first <= c.first /\ c.last <= Updated(c, e).last
         /\ Updated(c, e).first <= e.time /\ e.time <= Updated(c, e).last
<1>1. /\ c.node \in Paths /\ c.pattern \in Strings /\ c.rows \in Seq(Strings) /\ c.count \in Nat
      /\ c.first \in Nat /\ c.last \in Nat /\ e.text \in Strings /\ e.time \in Nat
  BY DEF Cluster, Entry
<1> DEFINE row == ExtractVars(c.pattern, e.text)
           pattern == MergeTokens(c.pattern, e.text)
           rows == IF row # <<>> /\ Len(c.rows) < 3 THEN Append(c.rows, row) ELSE c.rows
           d == Updated(c, e)
<1>2. row \in Strings
  BY <1>1, VarsType
<1>3. pattern \in Strings
  <2>1. CASE Len(c.pattern) = Len(e.text)
    BY <1>1, <2>1, MergeType
  <2>2. CASE Len(c.pattern) # Len(e.text)
    BY <1>1, <2>2 DEF MergeTokens
  <2> QED BY <2>1, <2>2
<1>4. rows \in Seq(Strings)
  <2> HIDE DEF row
  <2> QED BY <1>1, <1>2
<1>5. d = [c EXCEPT !.pattern = pattern, !.rows = rows, !.count = @ + 1,
                    !.first = Min2(@, e.time), !.last = Max2(@, e.time)]
  BY DEF Updated
<1>6. Min2(c.first, e.time) \in Nat /\ Max2(c.last, e.time) \in Nat
  BY <1>1 DEF Min2, Max2
<1> HIDE DEF row, pattern, rows, d
<1>7. /\ d \in Cluster /\ d.count = c.count + 1
      /\ d.first = Min2(c.first, e.time) /\ d.last = Max2(c.last, e.time)
  <2> DEFINE first == Min2(c.first, e.time)
             last == Max2(c.last, e.time)
             r == [node |-> c.node, pattern |-> pattern, rows |-> rows,
                   count |-> c.count + 1, first |-> first, last |-> last]
  <2> HIDE DEF first, last
  <2>1. c = [node |-> c.node, pattern |-> c.pattern, rows |-> c.rows, count |-> c.count,
             first |-> c.first, last |-> c.last]
    BY DEF Cluster
  <2>2. d = r
    BY <1>5, <2>1 DEF first, last
  <2>3. c.count + 1 \in Nat
    BY <1>1
  <2> QED BY <1>1, <1>3, <1>4, <1>6, <2>2, <2>3 DEF Cluster, first, last
<1> QED BY <1>1, <1>7 DEF Min2, Max2, d

(* The next entry joins x, or nothing if x is 0.                           *)
LEMMA MembersGrow ==
  ASSUME Placed, IsSequence(joined), NEW x, joined' = Append(joined, x), NEW j
  PROVE  /\ Cardinality(Members(j)) \in Nat
         /\ Cardinality(Members(j)') = Cardinality(Members(j)) + (IF j = x THEN 1 ELSE 0)
<1> DEFINE n == Len(joined)
<1>1. /\ n \in Nat /\ Len(joined') = n + 1 /\ joined'[n + 1] = x
      /\ \A k \in 1..n : joined'[k] = joined[k]
  BY Appended
<1>2. IsFiniteSet(Members(j)) /\ Cardinality(Members(j)) \in Nat
  <2>1. IsFiniteSet(1..n)
    BY <1>1, FS_Interval
  <2>2. Members(j) \subseteq 1..n
    BY DEF Members
  <2> QED BY <2>1, <2>2, FS_Subset, FS_CardinalityType
<1> HIDE DEF n
<1>3. Members(j) = {i \in 1..n : joined[i] = j} /\ Members(j)' = {i \in 1..(n + 1) : joined'[i] = j}
  BY <1>1 DEF Members, n
<1>4. CASE j = x
  <2>1. Members(j)' = Members(j) \cup {n + 1} /\ n + 1 \notin Members(j)
    BY <1>1, <1>3, <1>4
  <2>2. Cardinality(Members(j) \cup {n + 1}) = Cardinality(Members(j)) + 1
    BY <1>2, <2>1, FS_AddElement
  <2> QED BY <1>2, <1>4, <2>1, <2>2
<1>5. CASE j # x
  <2>1. Members(j)' = Members(j)
    BY <1>1, <1>3, <1>5
  <2> QED BY <1>2, <1>5, <2>1
<1> QED BY <1>4, <1>5

(* The clusters hold on to what they knew, and the one that is joined gets *)
(* to know the entry.                                                      *)
LEMMA GatherKeeps ==
  ASSUME Gathered, IsSequence(joined), UNCHANGED log, log \in Seq(Entry),
         Len(joined) < Len(log), Len(clusters)' \in Nat, Len(clusters) <= Len(clusters)',
         NEW x \in 0..Len(clusters)', joined' = Append(joined, x),
         \A j \in 1..Len(clusters)' : clusters'[j] \in Cluster,
         \A j \in 1..Len(clusters) :
           /\ clusters'[j].first <= clusters[j].first /\ clusters[j].last <= clusters'[j].last
           /\ clusters'[j].count = clusters[j].count + (IF j = x THEN 1 ELSE 0),
         \A j \in 1..Len(clusters)' :
           j > Len(clusters) => clusters'[j].count = (IF j = x THEN 1 ELSE 0),
         x # 0 => /\ clusters'[x].first <= log[Len(joined) + 1].time
                  /\ log[Len(joined) + 1].time <= clusters'[x].last
  PROVE  Gathered'
<1> DEFINE n == Len(joined)
           m == Len(clusters)
<1>1. /\ n \in Nat /\ Len(joined') = n + 1 /\ joined'[n + 1] = x
      /\ \A k \in 1..n : joined'[k] = joined[k]
  BY Appended
<1>2. /\ m \in Nat /\ \A i \in 1..n : joined[i] \in 0..m
      /\ \A j \in 1..m : clusters[j] \in Cluster
  BY DEF Gathered, Placed
<1>3. /\ m \in Nat /\ Len(clusters') \in Nat /\ m <= Len(clusters')
  BY <1>2
<1>4. \A i \in 1..(n + 1) : joined'[i] \in 0..Len(clusters')
  <2> HIDE DEF m, n
  <2> QED BY <1>1, <1>2, <1>3
<1>5. Placed'
  <2>1. \A j \in 1..Len(clusters') : clusters'[j].first \in Nat /\ clusters'[j].last \in Nat
    BY DEF Cluster
  <2> HIDE DEF m, n
  <2> QED BY <1>1, <1>3, <1>4, <2>1 DEF Placed
<1>6. Len(joined') <= Len(log')
  <2>1. Len(log) \in Nat
    OBVIOUS
  <2> QED BY <1>1, <2>1
<1>7. ASSUME NEW j \in 1..Len(clusters') PROVE clusters'[j].count = Cardinality(Members(j)')
  <2>1. /\ Cardinality(Members(j)) \in Nat
        /\ Cardinality(Members(j)') = Cardinality(Members(j)) + (IF j = x THEN 1 ELSE 0)
    BY MembersGrow DEF Gathered
  <2>2. CASE j <= m
    <3>1. j \in 1..m
      BY <1>3, <2>2
    <3>2. clusters[j].count = Cardinality(Members(j))
      BY <3>1 DEF Gathered
    <3> QED BY <2>1, <3>1, <3>2
  <2>3. CASE j > m
    <3>1. Members(j) = {}
      <4> HIDE DEF m, n
      <4>1. \A i \in 1..n : joined[i] # j
        BY <1>2, <1>3, <2>3
      <4> QED BY <4>1 DEF Members, n
    <3>2. Cardinality(Members(j)) = 0
      BY <3>1, FS_EmptySet
    <3> QED BY <2>1, <2>3, <3>2
  <2> QED BY <1>3, <2>2, <2>3
<1>8. ASSUME NEW i \in 1..(n + 1), joined'[i] # 0
      PROVE  /\ clusters'[joined'[i]].first <= log'[i].time
             /\ log'[i].time <= clusters'[joined'[i]].last
  <2>1. CASE i = n + 1
    BY <1>1, <1>8, <2>1
  <2>2. CASE i # n + 1
    <3>1. i \in 1..n /\ joined'[i] = joined[i]
      BY <1>1, <2>2
    <3>2. PICK j \in 1..m : joined[i] = j
      <4> HIDE DEF m, n
      <4> QED BY <1>2, <1>8, <3>1
    <3>3. clusters[j].first <= log[i].time /\ log[i].time <= clusters[j].last
      BY <1>8, <3>1, <3>2 DEF Gathered
    <3>4. log[i].time \in Nat
      <4>1. i \in 1..Len(log)
        <5>1. Len(log) \in Nat
          OBVIOUS
        <5> QED BY <1>1, <3>1, <5>1
      <4>2. log[i] \in Entry
        BY <4>1
      <4> QED BY <4>2 DEF Entry
    <3>5. /\ clusters[j].first \in Nat /\ clusters[j].last \in Nat
          /\ clusters'[j].first \in Nat /\ clusters'[j].last \in Nat
      <4>1. clusters[j] \in Cluster /\ clusters'[j] \in Cluster
        BY <1>2, <1>3
      <4> QED BY <4>1 DEF Cluster
    <3>6. clusters'[j].first <= clusters[j].first /\ clusters[j].last <= clusters'[j].last
      OBVIOUS
    <3>7. clusters'[j].first <= log[i].time /\ log[i].time <= clusters'[j].last
      <4> DEFINE t == log[i].time
                 a == clusters'[j].first
                 b == clusters[j].first
                 c == clusters[j].last
                 d == clusters'[j].last
      <4>1. t \in Nat /\ a \in Nat /\ b \in Nat /\ c \in Nat /\ d \in Nat
        BY <3>4, <3>5
      <4>2. a <= b /\ b <= t /\ t <= c /\ c <= d
        BY <3>3, <3>6
      <4> HIDE DEF t, a, b, c, d
      <4>3. a <= t /\ t <= d
        BY <4>1, <4>2
      <4> QED BY <4>3 DEF t, a, d
    <3> QED BY <3>1, <3>2, <3>7
  <2> QED BY <2>1, <2>2
<1> HIDE DEF m, n
<1> QED BY <1>1, <1>5, <1>6, <1>7, <1>8 DEF Gathered

(* AddMessage, of an entry that joins or makes a cluster, or neither.      *)
LEMMA AddGathers ==
  ASSUME DrainInv, ~forced => Gathered, AddMessage, ~forced'
  PROVE  Gathered'
<1>1. /\ Len(joined) \in Nat /\ Len(joined) < Len(log) /\ log \in Seq(Entry)
      /\ IsSequence(joined) /\ UNCHANGED log
  BY DEF DrainInv, IsSequence, AddMessage
<1>2. PICK e \in Entry : e = log[Len(joined) + 1]
  BY <1>1
<1>3. e.text \in Strings /\ e.time \in Nat
  BY DEF Entry
<1> DEFINE best == HomeMatches(e.text)
           d == NewCluster(Home(e.text), e)
<1>4. /\ ~forced
      /\ \/ joined' = Append(joined, 0) /\ UNCHANGED clusters
         \/ /\ best # {}
            /\ clusters' = [clusters EXCEPT ![LeastOf(best)] = Updated(@, e)]
            /\ joined' = Append(joined, LeastOf(best))
         \/ /\ clusters' = Append(clusters, d)
            /\ joined' = Append(joined, Len(clusters'))
  <2>1. \/ joined' = Append(joined, 0) /\ UNCHANGED clusters /\ UNCHANGED forced
        \/ /\ HomeMatches(e.text) # {} /\ UNCHANGED forced
           /\ clusters' = [clusters EXCEPT ![LeastOf(HomeMatches(e.text))] = Updated(@, e)]
           /\ joined' = Append(joined, LeastOf(HomeMatches(e.text)))
        \/ /\ clusters' = Append(clusters, NewCluster(Home(e.text), e)) /\ UNCHANGED forced
           /\ joined' = Append(joined, Len(clusters'))
    BY <1>2 DEF AddMessage, Join, HomeMatches, Home
  <2> QED BY <2>1, SMTT(30)
<1>5. /\ Gathered /\ Drained /\ Len(clusters) \in Nat
      /\ \A j \in 1..Len(clusters) :
           clusters[j] \in Cluster /\ clusters[j].count \in Nat
             /\ clusters[j].first \in Nat /\ clusters[j].last \in Nat
  <2>1. Gathered /\ Drained
    BY <1>4 DEF DrainInv
  <2>2. Len(clusters) \in Nat /\ \A j \in 1..Len(clusters) : clusters[j] \in Cluster
    BY <2>1 DEF Gathered, Placed
  <2> QED BY <2>1, <2>2 DEF Cluster
<1>6. CASE joined' = Append(joined, 0) /\ UNCHANGED clusters
  <2>1. \A j \in 1..Len(clusters) :
          /\ clusters'[j].first <= clusters[j].first /\ clusters[j].last <= clusters'[j].last
          /\ clusters'[j].count = clusters[j].count + (IF j = 0 THEN 1 ELSE 0)
    BY <1>5, <1>6
  <2>2. Len(clusters)' = Len(clusters) /\ \A j \in 1..Len(clusters)' : clusters'[j] \in Cluster
    BY <1>5, <1>6
  <2>3. 0 \in 0..Len(clusters)' /\ Len(clusters)' \in Nat /\ Len(clusters) <= Len(clusters)'
    BY <1>5, <2>2
  <2>4. \A j \in 1..Len(clusters)' :
          j > Len(clusters) => clusters'[j].count = (IF j = 0 THEN 1 ELSE 0)
    BY <1>5, <2>2
  <2> QED BY <1>1, <1>5, <1>6, <2>1, <2>2, <2>3, <2>4, GatherKeeps
<1>7. CASE /\ best # {}
           /\ clusters' = [clusters EXCEPT ![LeastOf(best)] = Updated(@, e)]
           /\ joined' = Append(joined, LeastOf(best))
  <2> DEFINE x == LeastOf(best)
  <2>1. x \in 1..Len(clusters)
    <3>1. best \in SUBSET Nat /\ \A i \in best : i \in 1..Len(clusters)
      BY DEF HomeMatches, BestMatches
    <3>2. x \in best
      BY <1>7, <3>1, FirstIsLeast
    <3> QED BY <3>1, <3>2
  <2> HIDE DEF x
  <2>2. /\ joined' = Append(joined, x) /\ Len(clusters)' = Len(clusters)
        /\ \A j \in 1..Len(clusters) :
             clusters'[j] = IF j = x THEN Updated(clusters[j], e) ELSE clusters[j]
    <3>1. PICK S : clusters \in Seq(S)
      BY <1>5 DEF Drained, IsSequence
    <3>2. clusters' = [clusters EXCEPT ![x] = Updated(@, e)]
      BY <1>7 DEF x
    <3>3. DOMAIN clusters' = 1..Len(clusters) /\ Len(clusters') = Len(clusters)
      <4>1. clusters' \in Seq(S \cup {Updated(clusters[x], e)})
        BY <2>1, <3>1, <3>2
      <4> QED BY <3>1, <3>2, <4>1
    <3> QED BY <1>7, <2>1, <3>1, <3>2, <3>3 DEF x
  <2>3. PICK c \in Cluster : c = clusters[x]
    BY <1>5, <2>1
  <2>4. /\ Updated(c, e) \in Cluster
        /\ Updated(c, e).count = c.count + 1
        /\ Updated(c, e).first <= c.first /\ c.last <= Updated(c, e).last
        /\ Updated(c, e).first <= e.time /\ e.time <= Updated(c, e).last
    BY UpdatedType
  <2>5. clusters'[x] = Updated(c, e)
    BY <2>1, <2>2, <2>3
  <2>6. \A j \in 1..Len(clusters)' : clusters'[j] \in Cluster
    BY <1>5, <2>2, <2>4, <2>5
  <2>7. \A j \in 1..Len(clusters) :
          /\ clusters'[j].first <= clusters[j].first /\ clusters[j].last <= clusters'[j].last
          /\ clusters'[j].count = clusters[j].count + (IF j = x THEN 1 ELSE 0)
    <3> SUFFICES ASSUME NEW j \in 1..Len(clusters)
                 PROVE  /\ clusters'[j].first <= clusters[j].first
                        /\ clusters[j].last <= clusters'[j].last
                        /\ clusters'[j].count = clusters[j].count + (IF j = x THEN 1 ELSE 0)
      OBVIOUS
    <3>1. CASE j = x
      BY <2>3, <2>4, <2>5, <3>1
    <3>2. CASE j # x
      BY <1>5, <2>2, <3>2
    <3> QED BY <3>1, <3>2
  <2>8. x \in 0..Len(clusters)' /\ Len(clusters)' \in Nat /\ Len(clusters) <= Len(clusters)'
    BY <1>5, <2>1, <2>2
  <2>9. \A j \in 1..Len(clusters)' :
          j > Len(clusters) => clusters'[j].count = (IF j = x THEN 1 ELSE 0)
    BY <1>5, <2>2
  <2>10. x # 0 => /\ clusters'[x].first <= log[Len(joined) + 1].time
                  /\ log[Len(joined) + 1].time <= clusters'[x].last
    BY <1>2, <2>4, <2>5
  <2> QED BY <1>1, <1>5, <2>2, <2>6, <2>7, <2>8, <2>9, <2>10, GatherKeeps
<1>8. CASE /\ clusters' = Append(clusters, d)
           /\ joined' = Append(joined, Len(clusters'))
  <2>1. /\ d \in Cluster /\ d.count = 1 /\ d.first = e.time /\ d.last = e.time
    <3>1. Home(e.text) \in Paths
      BY <1>3, WalkFacts DEF Home
    <3>2. <<>> \in Seq(Strings)
      OBVIOUS
    <3> QED BY <1>3, <3>1, <3>2 DEF NewCluster, Cluster
  <2> HIDE DEF d
  <2> DEFINE x == Len(clusters')
  <2>2. /\ x = Len(clusters) + 1 /\ clusters'[x] = d
        /\ \A j \in 1..Len(clusters) : clusters'[j] = clusters[j]
    BY <1>5, <1>8, Appended DEF Drained
  <2> HIDE DEF x
  <2>3. x \in Nat /\ Len(clusters)' = x /\ joined' = Append(joined, x) /\ Len(clusters) <= x
    BY <1>5, <1>8, <2>2 DEF x
  <2>4. \A j \in 1..x : j \in 1..Len(clusters) \/ j = x
    BY <1>5, <2>2, <2>3
  <2>5. \A j \in 1..x : clusters'[j] \in Cluster
    BY <1>5, <2>1, <2>2, <2>4
  <2>6. \A j \in 1..Len(clusters) :
          /\ clusters'[j].first <= clusters[j].first /\ clusters[j].last <= clusters'[j].last
          /\ clusters'[j].count = clusters[j].count + (IF j = x THEN 1 ELSE 0)
    BY <1>5, <2>2
  <2>7. \A j \in 1..x :
          j > Len(clusters) => clusters'[j].count = (IF j = x THEN 1 ELSE 0)
    BY <1>5, <2>1, <2>2, <2>4
  <2>8. x # 0 => /\ clusters'[x].first <= log[Len(joined) + 1].time
                 /\ log[Len(joined) + 1].time <= clusters'[x].last
    BY <1>2, <1>3, <2>1, <2>2
  <2>9. x \in 0..Len(clusters)'
    BY <2>3
  <2> QED BY <1>1, <1>5, <2>3, <2>5, <2>6, <2>7, <2>8, <2>9, GatherKeeps
<1> QED BY <1>4, <1>6, <1>7, <1>8
-----------------------------------------------------------------------------
(* What holds of the templates before each stage: where the clusters went  *)
(* is known, unless the log has a line that reads as a crash.              *)
GoCrash == <<"Go runtime crash">>

Traces == \E f : Traced(f, templates, absorbed)

(* What each stage may rely on.  Equal ids first come of a crash that is   *)
(* minted twice.                                                           *)
GoStackReady ==
  /\ templates \in Seq(Template)
  /\ absorbed = {} /\ ~twins
  /\ \A id \in Ids(templates) : id \in Patterns
  /\ DistinctIds(templates)
  /\ Traces

PythonReady ==
  /\ templates \in Seq(Template)
  /\ Pairs(absorbed)
  /\ \A id \in Ids(templates) : id \in Patterns \/ id = GoCrash
  /\ GoCrash \notin Patterns =>
       Traces /\ (pipe = "cloudwatch" \/ ~twins => DistinctIds(templates))

(* Regular, before the end.                                                *)
Usual ==
  /\ GoCrash \notin Patterns /\ Plain(absorbed)
  /\ pipe \in {"loki", "stackdriver"} => ~(twins /\ \E r \in absorbed : r[1] = GoCrash)
  /\ pipe = "k8slogs" => ~twins

ResolveReady ==
  /\ templates \in Seq(Template)
  /\ Pairs(absorbed)
  /\ \A id \in Ids(templates) : id # <<>>
  /\ Usual => Traces /\ (pipe = "cloudwatch" \/ ~twins => DistinctIds(templates))

Known == pipe \in {"loki", "cloudwatch", "stackdriver", "k8slogs"}

(* None of this looks at the stage.                                        *)
LEMMA SamePatterns ==
  ASSUME UNCHANGED <<clusters, joined>>
  PROVE  /\ Patterns' = Patterns
         /\ Placed' <=> Placed
         /\ \A f, ts, old : Traced(f, ts, old)' <=> Traced(f, ts, old)
<1>1. Patterns' = Patterns /\ (Placed' <=> Placed)
  BY DEF Patterns, Placed
<1>2. ASSUME NEW f, NEW ts, NEW old PROVE Traced(f, ts, old)' <=> Traced(f, ts, old)
  BY DEF Traced, Keeps, Follows, Owns, EntriesOf
<1> QED BY <1>1, <1>2

LEMMA StringsAreTexts == \A s \in Strings : s \in Texts
<1> SUFFICES ASSUME NEW s \in Seq(STRING) PROVE s \in Seq(Words)
  BY DEF Strings, Texts
<1>1. \A x \in STRING : x \in Words
  BY DEF Words
<1>2. Len(s) \in Nat /\ s = [i \in 1..Len(s) |-> s[i]] /\ \A i \in 1..Len(s) : s[i] \in STRING
  OBVIOUS
<1>3. \A i \in 1..Len(s) : s[i] \in Words
  BY <1>1, <1>2
<1> QED BY <1>2, <1>3

(* The clusters become the templates the first pass is given.              *)
LEMMA ClusteredReady ==
  ASSUME Drained, Gathered, Clustered, absorbed = {}, ~twins
  PROVE  GoStackReady'
<1> DEFINE n == Len(clusters)
           f == [j \in 1..n |-> j]
<1>1. /\ n \in Nat
      /\ \A i \in 1..Len(joined) : joined[i] \in 0..n
      /\ \A j \in 1..n : clusters[j] \in Cluster /\ clusters[j].count = Cardinality(Members(j))
  BY DEF Gathered, Placed
<1>2. UNCHANGED <<clusters, joined, absorbed, twins>>
  BY DEF Clustered
<1>3. /\ templates' = [i \in 1..n |->
           [id |-> clusters[i].pattern, rows |-> clusters[i].rows,
            count |-> clusters[i].count, first |-> clusters[i].first,
            last |-> clusters[i].last]]
      /\ Len(templates') = n
  BY <1>1 DEF Clustered
<1>4. ASSUME NEW j \in 1..n
      PROVE  /\ templates'[j] \in Template
             /\ templates'[j].id = clusters[j].pattern
             /\ templates'[j].count = clusters[j].count
             /\ templates'[j].first = clusters[j].first
             /\ templates'[j].last = clusters[j].last
             /\ clusters[j].first \in Nat /\ clusters[j].last \in Nat
  <2>1. /\ clusters[j].pattern \in Strings /\ clusters[j].rows \in Seq(Strings)
        /\ clusters[j].count \in Nat /\ clusters[j].first \in Nat /\ clusters[j].last \in Nat
    BY <1>1 DEF Cluster
  <2>2. clusters[j].pattern \in Texts
    BY <2>1, StringsAreTexts
  <2>3. clusters[j].rows \in Seq(Texts)
    BY <2>1, StringsAreTexts
  <2>4. templates'[j] = [id |-> clusters[j].pattern, rows |-> clusters[j].rows,
                         count |-> clusters[j].count, first |-> clusters[j].first,
                         last |-> clusters[j].last]
    BY <1>3
  <2> QED BY <2>1, <2>2, <2>3, <2>4 DEF Template
<1> HIDE DEF n
<1>5. templates' \in Seq(Template)
  <2>1. templates' = [i \in 1..n |-> templates'[i]]
    BY <1>3
  <2> QED BY <1>1, <1>4, <2>1
<1>6. \A id \in Ids(templates') : id \in Patterns
  BY <1>3, <1>4 DEF Ids, Patterns, n
<1>7. \A j, k \in 1..n : clusters[j].pattern = clusters[k].pattern => j = k
  BY DEF Drained, n
<1>8. DistinctIds(templates')
  BY <1>3, <1>4, <1>7 DEF DistinctIds
<1>9. \A j \in 1..n : f[j] = j
  OBVIOUS
<1>10. f \in [1..n -> 1..n]
  OBVIOUS
<1> HIDE DEF f
<1>11. \A k \in 1..n : EntriesOf(f, k) = Members(k)
  <2> SUFFICES ASSUME NEW k \in 1..n PROVE EntriesOf(f, k) = Members(k)
    OBVIOUS
  <2>1. \A i \in 1..Len(joined) : joined[i] # 0 /\ f[joined[i]] = k <=> joined[i] = k
    BY <1>1, <1>9
  <2> QED BY <2>1 DEF EntriesOf, Members
<1>12. Keeps(f, templates')
  <2>1. \A j \in 1..n : /\ templates'[f[j]].first <= clusters[j].first
                        /\ clusters[j].last <= templates'[f[j]].last
    BY <1>4, <1>9
  <2>2. \A k \in 1..n : templates'[k].count = Cardinality(EntriesOf(f, k))
    BY <1>1, <1>4, <1>11
  <2> QED BY <1>3, <1>10, <2>1, <2>2 DEF Keeps, n
<1>13. Follows(f, templates', {}) /\ Owns(f, templates')
  BY <1>3, <1>4, <1>7, <1>9 DEF Follows, Owns, n
<1>14. Traced(f, templates', absorbed')
  BY <1>2, <1>12, <1>13 DEF Traced
<1>15. Traces'
  BY <1>2, <1>14, SamePatterns DEF Traces
<1>16. Patterns' = Patterns
  BY <1>2, SamePatterns
<1> QED BY <1>2, <1>5, <1>6, <1>8, <1>15, <1>16 DEF GoStackReady

(* The first pass, which names every crash the same.                       *)
LEMMA GoStackPass ==
  ASSUME stage = "gostack", GoStackReady, Placed, UNCHANGED <<clusters, joined, pipe>>,
         NEW F \in SUBSET (1..Len(templates)), NEW H, NEW W, Consolidate(F, H, W)
  PROVE  PythonReady'
<1>1. templates \in Seq(Template) /\ Pairs(absorbed) /\ absorbed = {} /\ ~twins
      /\ DistinctIds(templates) /\ \A id \in Ids(templates) : id \in Patterns
  BY DEF GoStackReady, Pairs
<1>2. /\ templates' \in Seq(Template)
      /\ \A id \in Ids(templates') : id \in Ids(templates) \/ id \in Minted
      /\ Pairs(absorbed')
      /\ \A r \in absorbed' : r[2] \in Minted \/ \E s \in absorbed : r[2] = s[2]
      /\ Single(templates, absorbed') /\ Plain(absorbed') =>
           \A f : Traced(f, templates, absorbed) => \E g : Traced(g, templates', absorbed')
      /\ DistinctIds(templates) /\ Fresh(templates, absorbed') =>
           (pipe = "cloudwatch" \/ ~twins' => DistinctIds(templates'))
  BY <1>1, PassSteps
<1>3. \A id \in Minted : id = GoCrash
  BY DEF Minted, GoCrash
<1>4. \A id \in Ids(templates') : id \in Patterns \/ id = GoCrash
  BY <1>1, <1>2, <1>3
<1>5. \A r \in absorbed' : r[2] = GoCrash
  BY <1>1, <1>2, <1>3
<1>6. Single(templates, absorbed')
  BY <1>1 DEF Single, DistinctIds
<1>7. ASSUME GoCrash \notin Patterns
      PROVE  /\ \E g : Traced(g, templates', absorbed')
             /\ pipe = "cloudwatch" \/ ~twins' => DistinctIds(templates')
  <2>1. Plain(absorbed') /\ Fresh(templates, absorbed')
    BY <1>1, <1>5, <1>7 DEF Plain, Fresh
  <2>2. PICK f : Traced(f, templates, absorbed)
    BY DEF GoStackReady, Traces
  <2> QED BY <1>1, <1>2, <1>6, <2>1, <2>2
<1>8. Patterns' = Patterns /\ \A f, ts, old : Traced(f, ts, old)' <=> Traced(f, ts, old)
  BY SamePatterns
<1>9. GoCrash \notin Patterns => Traces'
  <2> SUFFICES ASSUME GoCrash \notin Patterns PROVE Traces'
    OBVIOUS
  <2>1. PICK g : Traced(g, templates', absorbed')
    BY <1>7
  <2> QED BY <2>1, SamePatterns DEF Traces
<1>10. GoCrash' = GoCrash /\ Ids(templates)' = Ids(templates')
       /\ (DistinctIds(templates)' <=> DistinctIds(templates'))
  BY DEF GoCrash, Ids, DistinctIds
<1> QED BY <1>2, <1>4, <1>7, <1>8, <1>9, <1>10 DEF PythonReady

(* The second, which may take the first one's crash for a fragment.        *)
LEMMA PythonPass ==
  ASSUME stage = "python", Known, PythonReady, Placed,
         \A p \in Patterns : p # <<>>,
         UNCHANGED <<clusters, joined, pipe>>,
         NEW F \in SUBSET (1..Len(templates)), NEW H, NEW W, Consolidate(F, H, W)
  PROVE  ResolveReady'
<1>1. templates \in Seq(Template) /\ Pairs(absorbed)
      /\ \A id \in Ids(templates) : id \in Patterns \/ id = GoCrash
  BY DEF PythonReady
<1>2. /\ templates' \in Seq(Template)
      /\ \A id \in Ids(templates') : id \in Ids(templates) \/ id \in Minted
      /\ Pairs(absorbed')
      /\ twins => twins'
      /\ Single(templates, absorbed') /\ Plain(absorbed') =>
           \A f : Traced(f, templates, absorbed) => \E g : Traced(g, templates', absorbed')
      /\ DistinctIds(templates) /\ Fresh(templates, absorbed') =>
           (pipe = "cloudwatch" \/ ~twins' => DistinctIds(templates'))
  BY <1>1, PassSteps
<1>3. \A id \in Minted : id # <<>> /\ id # GoCrash
  <2>1. GoCrash[1] = "Go runtime crash" /\ "Go runtime crash" # "Python traceback"
    BY DEF GoCrash
  <2> QED BY <2>1 DEF Minted
<1>4. \A id \in Ids(templates') : id # <<>>
  <2>1. GoCrash # <<>>
    BY DEF GoCrash
  <2> QED BY <1>1, <1>2, <1>3, <2>1
<1>5. /\ Patterns' = Patterns /\ GoCrash' = GoCrash /\ Ids(templates)' = Ids(templates')
      /\ (DistinctIds(templates)' <=> DistinctIds(templates'))
      /\ (Plain(absorbed)' <=> Plain(absorbed'))
  BY SamePatterns DEF GoCrash, Ids, DistinctIds, Plain
<1>6. ASSUME Usual'
      PROVE  /\ \E g : Traced(g, templates', absorbed')
             /\ pipe = "cloudwatch" \/ ~twins' => DistinctIds(templates')
  <2>1. /\ GoCrash \notin Patterns /\ Plain(absorbed')
        /\ pipe \in {"loki", "stackdriver"} => ~(twins' /\ \E r \in absorbed' : r[1] = GoCrash)
        /\ pipe = "k8slogs" => ~twins'
    BY <1>5, <1>6 DEF Usual
  <2>2. PICK f : Traced(f, templates, absorbed)
    BY <2>1 DEF PythonReady, Traces
  <2>3. pipe = "cloudwatch" \/ ~twins => DistinctIds(templates)
    BY <2>1 DEF PythonReady
  <2>4. \A x : twins' /\ pipe # "cloudwatch" => <<GoCrash, x>> \notin absorbed'
    <3>1. \A x : <<GoCrash, x>>[1] = GoCrash
      OBVIOUS
    <3> QED BY <2>1, <3>1 DEF Known
  <2>5. Single(templates, absorbed')
    <3> SUFFICES ASSUME NEW j \in 1..Len(templates), NEW k \in 1..Len(templates),
                        templates[j].id = templates[k].id, j # k,
                        NEW x, <<templates[j].id, x>> \in absorbed'
                 PROVE  FALSE
      BY DEF Single
    <3>1. CASE templates[j].id \in Patterns
      <4>1. PICK c \in 1..Len(clusters) : templates[j].id = clusters[c].pattern
        BY <3>1 DEF Patterns
      <4>2. f[c] = j /\ f[c] = k
        BY <2>2, <4>1 DEF Traced, Owns
      <4> QED BY <4>2
    <3>2. CASE templates[j].id = GoCrash
      <4>1. ~(pipe = "cloudwatch" \/ ~twins)
        BY <2>3 DEF DistinctIds
      <4> QED BY <1>2, <2>4, <3>2, <4>1
    <3>3. templates[j].id \in Ids(templates)
      BY DEF Ids
    <3> QED BY <1>1, <3>1, <3>2, <3>3
  <2>6. \E g : Traced(g, templates', absorbed')
    BY <1>2, <2>1, <2>2, <2>5
  <2>7. Fresh(templates, absorbed')
    BY <1>1, <1>3, <2>1 DEF Fresh, Plain
  <2>8. pipe = "cloudwatch" \/ ~twins' => DistinctIds(templates')
    BY <1>2, <2>3, <2>7
  <2> QED BY <2>6, <2>8
<1>7. Usual' => Traces'
  <2> SUFFICES ASSUME Usual' PROVE Traces'
    OBVIOUS
  <2>1. PICK g : Traced(g, templates', absorbed')
    BY <1>6
  <2> QED BY <2>1, SamePatterns DEF Traces
<1> QED BY <1>2, <1>4, <1>5, <1>6, <1>7 DEF ResolveReady

(* A pass that has nothing to do.                                          *)
LEMMA GoStackIdle ==
  ASSUME GoStackReady, UNCHANGED <<templates, absorbed, twins, clusters, joined, pipe>>
  PROVE  PythonReady'
<1>1. PythonReady
  BY DEF GoStackReady, PythonReady, Pairs
<1>2. Patterns' = Patterns /\ (Traces' <=> Traces)
  BY SamePatterns DEF Traces
<1> QED BY <1>1, <1>2 DEF PythonReady, Pairs, Ids, DistinctIds, GoCrash

LEMMA PythonIdle ==
  ASSUME PythonReady, \A p \in Patterns : p # <<>>,
         UNCHANGED <<templates, absorbed, twins, clusters, joined, pipe>>
  PROVE  ResolveReady'
<1>1. GoCrash # <<>>
  BY DEF GoCrash
<1>2. ResolveReady
  BY <1>1 DEF PythonReady, ResolveReady, Usual
<1>3. Patterns' = Patterns /\ (Traces' <=> Traces)
  BY SamePatterns DEF Traces
<1>4. Usual' <=> Usual
  BY <1>3 DEF Usual, GoCrash, Plain
<1> QED BY <1>2, <1>3, <1>4 DEF ResolveReady, Pairs, Ids, DistinctIds
-----------------------------------------------------------------------------
(* Where an entry whose cluster's id is gone may end.                      *)
LEMMA AbsorberIs ==
  ASSUME pipe # "k8slogs", Pairs(absorbed), NEW after, NEW f, Traced(f, after, absorbed),
         NEW j \in 1..Len(clusters), clusters[j].pattern \notin Ids(after)
  PROVE  Targets(clusters[j].pattern, after) = {after[f[j]].id}
<1> DEFINE p == clusters[j].pattern
           id == after[f[j]].id
           heads == {r \in absorbed : r[1] = p}
           absorbers == {r[2] : r \in heads} \cap Ids(after)
<1>1. f[j] \in 1..Len(after) /\ \A x : <<p, x>> \in absorbed <=> x = id /\ x # p
  BY DEF Traced, Keeps, Follows
<1>2. id \in Ids(after)
  BY <1>1 DEF Ids
<1>3. id # p
  BY <1>2
<1>4. \A r \in heads : r[2] = id
  <2> SUFFICES ASSUME NEW r \in heads PROVE r[2] = id
    OBVIOUS
  <2>1. PICK a, b : r = <<a, b>>
    BY DEF Pairs
  <2>2. a = p /\ r[2] = b /\ <<p, b>> \in absorbed
    BY <2>1
  <2> HIDE DEF p, id, heads
  <2> QED BY <1>1, <2>2
<1>5. \E r \in heads : r[2] = id
  <2>1. <<p, id>> \in absorbed
    <3> HIDE DEF p, id
    <3> QED BY <1>1, <1>3
  <2>2. <<p, id>>[1] = p /\ <<p, id>>[2] = id
    OBVIOUS
  <2> QED BY <2>1, <2>2
<1> HIDE DEF p, id, heads
<1>6. absorbers = {id}
  BY <1>2, <1>4, <1>5
<1>7. Targets(p, after) = absorbers
  BY <1>6 DEF Targets, AbsorberTargets, heads
<1> QED BY <1>6, <1>7 DEF p, id

(* k8s-logs: the survivor that shares the most time with a cluster that is *)
(* gone spans it, as the one that absorbed it does.                        *)
LEMMA OverlapCovers ==
  ASSUME pipe = "k8slogs", Placed, Drained, NEW after \in Seq(Template), DistinctIds(after),
         NEW f, Keeps(f, after),
         NEW j \in 1..Len(clusters), clusters[j].first <= clusters[j].last,
         NEW id \in Targets(clusters[j].pattern, after)
  PROVE  \E k \in 1..Len(after) :
           after[k].id = id /\ after[k].first <= clusters[j].first
             /\ clusters[j].last <= after[k].last
<1> DEFINE p == clusters[j].pattern
           dropped == clusters[CHOOSE i \in 1..Len(clusters) :
                                 /\ clusters[i].pattern = p
                                 /\ \A h \in (i + 1)..Len(clusters) : clusters[h].pattern # p]
           S == Survivors(after)
           T == {u \in S : Overlap(dropped, u) >= 0}
           Better(v, u) == \/ Overlap(dropped, v) > Overlap(dropped, u)
                           \/ Overlap(dropped, v) = Overlap(dropped, u) /\ v.first < u.first
           best == {u \in T : ~\E v \in T : Better(v, u)}
           c == clusters[j]
           a == after[f[j]]
<1>1. /\ Len(after) \in Nat /\ Len(clusters) \in Nat
      /\ \A k \in 1..Len(after) : after[k] \in Template
      /\ c.first \in Nat /\ c.last \in Nat
  BY DEF Placed
<1>2. \A i \in 1..Len(clusters) : clusters[i].pattern = p <=> i = j
  BY DEF Drained
<1>3. dropped = c
  <2>1. \A h \in (j + 1)..Len(clusters) : clusters[h].pattern # p
    <3>1. \A h \in (j + 1)..Len(clusters) : h \in 1..Len(clusters) /\ h # j
      BY <1>1
    <3> QED BY <1>2, <3>1
  <2>2. \A i \in 1..Len(clusters) :
          (/\ clusters[i].pattern = p
           /\ \A h \in (i + 1)..Len(clusters) : clusters[h].pattern # p) <=> i = j
    BY <1>2, <2>1
  <2>3. (CHOOSE i \in 1..Len(clusters) :
           /\ clusters[i].pattern = p
           /\ \A h \in (i + 1)..Len(clusters) : clusters[h].pattern # p) = j
    BY <2>2
  <2> QED BY <2>3
<1>4. Targets(p, after) = IF T = {} THEN {p} ELSE {u.id : u \in best}
  BY DEF Targets, OverlapTargets
<1> HIDE DEF dropped
<1>5. \A u : u \in S <=> \E k \in 1..Len(after) : u = after[k]
  <2>1. \A k \in 1..Len(after) : \A h \in (k + 1)..Len(after) : after[h].id # after[k].id
    <3> SUFFICES ASSUME NEW k \in 1..Len(after), NEW h \in (k + 1)..Len(after)
                 PROVE  after[h].id # after[k].id
      OBVIOUS
    <3>1. h \in 1..Len(after) /\ h # k
      BY <1>1
    <3> QED BY <3>1 DEF DistinctIds
  <2>2. S = {after[k] : k \in {k \in 1..Len(after) :
               pipe = "cloudwatch" \/ \A h \in (k + 1)..Len(after) : after[h].id # after[k].id}}
    BY DEF Survivors
  <2> HIDE DEF S
  <2> QED BY <2>1, <2>2
<1>6. /\ f[j] \in 1..Len(after) /\ a \in S
      /\ a.first <= c.first /\ c.last <= a.last
  BY <1>5 DEF Keeps
<1>7. \A u \in S : u.first \in Nat /\ u.last \in Nat
  BY <1>1, <1>5 DEF Template
<1> HIDE DEF S
<1>8. /\ Overlap(c, a) = c.last - c.first
      /\ \A u \in S : Overlap(c, u) >= c.last - c.first =>
                        u.first <= c.first /\ c.last <= u.last
      /\ \A u \in S : Overlap(c, u) \in Int
  <2>1. a.first \in Nat /\ a.last \in Nat
    BY <1>6, <1>7
  <2>2. Overlap(c, a) = c.last - c.first
    <3> HIDE DEF a, c
    <3> QED BY <1>1, <1>6, <2>1 DEF Overlap, Min2, Max2
  <2>3. ASSUME NEW u \in S
        PROVE  /\ Overlap(c, u) >= c.last - c.first =>
                    u.first <= c.first /\ c.last <= u.last
               /\ Overlap(c, u) \in Int
    <3>1. u.first \in Nat /\ u.last \in Nat
      BY <1>7
    <3> HIDE DEF a, c
    <3> QED BY <1>1, <3>1, SMTT(30) DEF Overlap, Min2, Max2
  <2> QED BY <2>2, <2>3
<1>9. a \in T
  <2> HIDE DEF a
  <2> QED BY <1>1, <1>3, <1>6, <1>8
<1>10. PICK u \in T : u.id = id /\ ~\E v \in T : Better(v, u)
  BY <1>4, <1>9
<1>11. ~(Overlap(c, a) > Overlap(c, u)) /\ u \in S
  BY <1>3, <1>9, <1>10
<1>12. u.first <= c.first /\ c.last <= u.last
  <2> HIDE DEF c, a
  <2>1. Overlap(c, u) \in Int /\ Overlap(c, a) = c.last - c.first /\ c.last \in Nat /\ c.first \in Nat
    BY <1>1, <1>8, <1>11
  <2>2. Overlap(c, u) >= c.last - c.first
    BY <1>11, <2>1
  <2> QED BY <1>8, <1>11, <2>2
<1> QED BY <1>5, <1>10, <1>11, <1>12

(* What ResolveEntries makes of an entry.                                  *)
LEMMA ResolvedIs ==
  ASSUME ResolveEntries, NEW i \in 1..Len(log)
  PROVE  /\ joined[i] = 0 => resolved'[i] = <<>>
         /\ \A j \in 1..Len(clusters) : joined[i] = j /\ j # 0 =>
              LET p == clusters[j].pattern IN
              /\ p \in Ids(templates') => resolved'[i] = p
              /\ p \notin Ids(templates') =>
                   \E id \in Targets(p, templates') :
                     resolved'[i] = IF pipe = "stackdriver" /\ id \notin Ids(templates')
                                    THEN <<>> ELSE id
<1> DEFINE gone(after) == {clusters[k].pattern : k \in 1..Len(clusters)} \ Ids(after)
<1>1. PICK after : /\ after = templates'
                   /\ after = IF pipe = "stackdriver" THEN FoldTwins(templates) ELSE templates
  BY DEF ResolveEntries
<1>2. PICK remap \in Remaps(gone(after), after) :
        resolved' = [k \in 1..Len(log) |->
          IF joined[k] = 0 THEN <<>>
          ELSE LET id == clusters[joined[k]].pattern
                   mapped == IF id \in DOMAIN remap THEN remap[id] ELSE id
               IN IF pipe = "stackdriver" /\ mapped \notin Ids(after) THEN <<>>
                  ELSE mapped]
  BY <1>1, ZenonT(30) DEF ResolveEntries
<1>3. DOMAIN remap = gone(after) /\ \A id \in gone(after) : remap[id] \in Targets(id, after)
  <2> HIDE DEF gone
  <2> QED BY <1>2 DEF Remaps
<1>4. joined[i] = 0 => resolved'[i] = <<>>
  BY <1>2
<1>5. ASSUME NEW j \in 1..Len(clusters), joined[i] = j, j # 0
      PROVE  LET p == clusters[j].pattern IN
              /\ p \in Ids(after) => resolved'[i] = p
              /\ p \notin Ids(after) =>
                   \E id \in Targets(p, after) :
                     resolved'[i] = IF pipe = "stackdriver" /\ id \notin Ids(after)
                                    THEN <<>> ELSE id
  <2> DEFINE p == clusters[j].pattern
             mapped == IF p \in DOMAIN remap THEN remap[p] ELSE p
  <2>1. resolved'[i] = IF pipe = "stackdriver" /\ mapped \notin Ids(after) THEN <<>> ELSE mapped
    BY <1>2, <1>5
  <2>2. p \in DOMAIN remap <=> p \notin Ids(after)
    BY <1>3
  <2>3. p \in DOMAIN remap => remap[p] \in Targets(p, after)
    <3> HIDE DEF gone
    <3> QED BY <1>3
  <2> HIDE DEF p
  <2>4. p \in Ids(after) => resolved'[i] = p
    BY <2>1, <2>2
  <2>5. p \notin Ids(after) => remap[p] \in Targets(p, after) /\ mapped = remap[p]
    BY <2>2, <2>3
  <2> HIDE DEF mapped
  <2> QED BY <2>1, <2>4, <2>5 DEF p
<1> QED BY <1>1, <1>4, <1>5
-----------------------------------------------------------------------------
(* As many ids as templates.                                               *)
LEMMA DistinctCount ==
  ASSUME NEW ts, Len(ts) \in Nat, DistinctIds(ts)
  PROVE  Cardinality(Ids(ts)) = Len(ts)
<1> DEFINE n == Len(ts)
           S == Ids(ts)
           R == 1..n
           f == [k \in R |-> ts[k].id]
           g == [x \in S |-> CHOOSE k \in R : f[k] = x]
<1>1. /\ f \in [R -> S]
      /\ \A j, k \in R : f[j] = f[k] => j = k
      /\ \A x \in S : \E k \in R : f[k] = x
  BY DEF Ids, DistinctIds
<1>2. IsFiniteSet(R) /\ Cardinality(R) = n /\ n \in Nat
  <2> HIDE DEF n
  <2>1. n \in Nat
    BY DEF n
  <2>2. IsFiniteSet(R)
    BY <2>1, FS_Interval
  <2>3. Cardinality(R) = IF 1 > n THEN 0 ELSE n - 1 + 1
    BY <2>1, FS_Interval
  <2> QED BY <2>1, <2>2, <2>3
<1>3. IsFiniteSet(S)
  <2> DEFINE w == [k \in 1..n |-> ts[k].id]
  <2>1. S = {w[k] : k \in 1..n}
    BY DEF Ids
  <2> HIDE DEF w, S, n
  <2> QED BY <1>2, <2>1, ImageFinite
<1> HIDE DEF f, S, R, n
<1>4. \A x \in S : g[x] \in R /\ f[g[x]] = x
  BY <1>1
<1> HIDE DEF g
<1>5. Cardinality(S) \in Nat
  BY <1>3, FS_CardinalityType
<1>6. ~(Cardinality(S) < Cardinality(R))
  <2> SUFFICES ASSUME Cardinality(S) < Cardinality(R) PROVE FALSE
    OBVIOUS
  <2>1. \E x, y \in R : x # y /\ f[x] = f[y]
    BY <1>1, <1>2, <1>3, FS_PigeonHole
  <2> QED BY <1>1, <2>1
<1>7. ~(Cardinality(R) < Cardinality(S))
  <2> SUFFICES ASSUME Cardinality(R) < Cardinality(S) PROVE FALSE
    OBVIOUS
  <2>1. g \in [S -> R]
    BY <1>4 DEF g
  <2>2. \E x, y \in S : x # y /\ g[x] = g[y]
    BY <1>2, <1>3, <2>1, FS_PigeonHole
  <2> QED BY <1>4, <2>2
<1>8. Cardinality(S) = n
  BY <1>2, <1>5, <1>6, <1>7
<1> QED BY <1>8 DEF S, n

(* Cluster j's entries are resolved to r among the templates ts.           *)
Sends(j, ts, r) ==
  LET p == clusters[j].pattern IN
  /\ p \in Ids(ts) => r = p
  /\ p \notin Ids(ts) =>
       \E id \in Targets(p, ts) :
         r = IF pipe = "stackdriver" /\ id \notin Ids(ts) THEN <<>> ELSE id

(* They land in a template that covers their cluster.                      *)
LEMMA LandsIn ==
  ASSUME Placed, Drained, Pairs(absorbed), NEW ts \in Seq(Template),
         pipe = "k8slogs" => DistinctIds(ts),
         NEW f, Traced(f, ts, absorbed),
         NEW j \in 1..Len(clusters), clusters[j].first <= clusters[j].last,
         NEW r, Sends(j, ts, r)
  PROVE  /\ \E k \in 1..Len(ts) :
              /\ ts[k].id = r
              /\ ts[k].first <= clusters[j].first /\ clusters[j].last <= ts[k].last
         /\ pipe # "k8slogs" => r = ts[f[j]].id
<1> DEFINE c == clusters[j]
           p == clusters[j].pattern
<1>0. /\ p \in Ids(ts) => r = p
      /\ p \notin Ids(ts) => \E id \in Targets(p, ts) :
           r = IF pipe = "stackdriver" /\ id \notin Ids(ts) THEN <<>> ELSE id
  BY DEF Sends
<1>1. /\ f[j] \in 1..Len(ts)
      /\ ts[f[j]].first <= c.first /\ c.last <= ts[f[j]].last
  BY DEF Traced, Keeps
<1>2. ASSUME p \in Ids(ts) PROVE p = ts[f[j]].id
  <2>1. PICK k \in 1..Len(ts) : ts[k].id = p
    BY <1>2 DEF Ids
  <2> QED BY <2>1 DEF Traced, Owns
<1>3. ts[f[j]].id \in Ids(ts)
  BY <1>1 DEF Ids
<1>4. CASE p \in Ids(ts)
  BY <1>0, <1>1, <1>2, <1>4
<1>5. CASE p \notin Ids(ts) /\ pipe # "k8slogs"
  <2>1. Targets(p, ts) = {ts[f[j]].id}
    BY <1>5, AbsorberIs, ZenonT(30)
  <2>2. r = ts[f[j]].id
    BY <1>0, <1>3, <1>5, <2>1
  <2> QED BY <1>1, <2>2
<1>6. CASE p \notin Ids(ts) /\ pipe = "k8slogs"
  <2>1. PICK id \in Targets(p, ts) : r = id
    BY <1>0, <1>6
  <2>2. Keeps(f, ts)
    BY DEF Traced
  <2>3. id \in Targets(clusters[j].pattern, ts)
    BY <2>1
  <2>4. \E k \in 1..Len(ts) :
          ts[k].id = id /\ ts[k].first <= c.first /\ c.last <= ts[k].last
    BY <1>6, <2>2, <2>3, OverlapCovers
  <2> QED BY <1>6, <2>1, <2>4
<1> QED BY <1>4, <1>5, <1>6

(* What is resolved: the templates, at last in ts, and where f takes the   *)
(* clusters among them.                                                    *)
LEMMA Landing ==
  ASSUME ResolveEntries, Known, Drained, Gathered, Len(joined) = Len(log), log \in Seq(Entry),
         NEW ts \in Seq(Template), ts = templates', Pairs(absorbed),
         pipe = "k8slogs" => DistinctIds(ts),
         NEW f, Traced(f, ts, absorbed),
         NEW i \in 1..Len(log), NEW j \in 1..Len(clusters), joined[i] = j
  PROVE  /\ \E k \in 1..Len(ts) :
              /\ ts[k].id = resolved'[i]
              /\ ts[k].first <= log[i].time /\ log[i].time <= ts[k].last
         /\ pipe # "k8slogs" => resolved'[i] = ts[f[j]].id
<1> DEFINE c == clusters[j]
           t == log[i].time
<1>1. /\ Len(ts) \in Nat /\ \A k \in 1..Len(ts) : ts[k] \in Template
      /\ Len(clusters) \in Nat /\ j # 0 /\ c \in Cluster
      /\ i \in 1..Len(joined) /\ log[i] \in Entry
  BY DEF Gathered, Placed
<1>2. /\ c.first \in Nat /\ c.last \in Nat /\ t \in Nat
      /\ \A k \in 1..Len(ts) : ts[k].first \in Nat /\ ts[k].last \in Nat
  BY <1>1 DEF Cluster, Entry, Template
<1>3. c.first <= t /\ t <= c.last
  BY <1>1 DEF Gathered
<1>4. Sends(j, ts, resolved'[i])
  BY <1>1, ResolvedIs DEF Sends
<1>5. c.first <= c.last
  <2> HIDE DEF c, t
  <2> QED BY <1>2, <1>3
<1>6. Placed
  BY DEF Gathered
<1>7. /\ \E k \in 1..Len(ts) :
           ts[k].id = resolved'[i] /\ ts[k].first <= c.first /\ c.last <= ts[k].last
      /\ pipe # "k8slogs" => resolved'[i] = ts[f[j]].id
  BY <1>4, <1>5, <1>6, LandsIn
<1>8. PICK k \in 1..Len(ts) :
         ts[k].id = resolved'[i] /\ ts[k].first <= c.first /\ c.last <= ts[k].last
  BY <1>7
<1>9. ts[k].first <= t /\ t <= ts[k].last
  <2> DEFINE a == ts[k].first
             b == c.first
             d == c.last
             e == ts[k].last
  <2>1. t \in Nat /\ a \in Nat /\ b \in Nat /\ d \in Nat /\ e \in Nat
    BY <1>2
  <2>2. a <= b /\ b <= t /\ t <= d /\ d <= e
    BY <1>3, <1>8
  <2> HIDE DEF t, a, b, d, e
  <2>3. a <= t /\ t <= e
    BY <2>1, <2>2
  <2> QED BY <2>3 DEF a, e
<1> QED BY <1>7, <1>8, <1>9

(* The templates of an id count the entries that end in it.                *)
LEMMA Adding ==
  ASSUME Placed, Len(joined) = Len(log), NEW ts, Len(ts) \in Nat,
         \A id \in Ids(ts) : id # <<>>,
         NEW f, Keeps(f, ts), NEW ends,
         \A i \in 1..Len(log) :
           ends[i] = IF joined[i] = 0 THEN <<>> ELSE ts[f[joined[i]]].id,
         NEW id \in Ids(ts)
  PROVE  CountOf(ts, {k \in 1..Len(ts) : ts[k].id = id}) =
           Cardinality({i \in 1..Len(log) : ends[i] = id})
<1> DEFINE n == Len(ts)
           G == {k \in 1..n : ts[k].id = id}
           E == {i \in 1..Len(joined) : joined[i] # 0}
           e == [i \in E |-> f[joined[i]]]
<1>1. Len(joined) \in Nat /\ \A i \in E : joined[i] \in 1..Len(clusters)
  BY DEF Placed
<1>2. IsFiniteSet(E) /\ e \in [E -> 1..n]
  <2>1. IsFiniteSet(1..Len(joined))
    BY <1>1, FS_Interval
  <2>2. IsFiniteSet(E)
    BY <2>1, FS_Subset
  <2> QED BY <1>1, <2>2 DEF Keeps
<1>3. \A k \in 1..n : ts[k].count = Cardinality(Fiber(e, E, {k}))
  <2>1. \A k \in 1..n : EntriesOf(f, k) = Fiber(e, E, {k})
    BY DEF EntriesOf, Fiber
  <2> QED BY <2>1 DEF Keeps
<1>4. Fiber(e, E, G) = {i \in 1..Len(log) : ends[i] = id}
  <2>1. \A i \in 1..Len(log) : ends[i] = id <=> i \in E /\ e[i] \in G
    <3> SUFFICES ASSUME NEW i \in 1..Len(log)
                 PROVE  ends[i] = id <=> i \in E /\ e[i] \in G
      OBVIOUS
    <3>1. CASE joined[i] = 0
      BY <3>1
    <3>2. CASE joined[i] # 0
      <4>1. i \in E
        BY <3>2
      <4>2. e[i] = f[joined[i]] /\ e[i] \in 1..n /\ ends[i] = ts[e[i]].id
        BY <1>2, <3>2, <4>1
      <4> QED BY <4>1, <4>2
    <3> QED BY <3>1, <3>2
  <2>2. \A i \in E : i \in 1..Len(log)
    OBVIOUS
  <2> HIDE DEF E, e, G
  <2> QED BY <2>1, <2>2 DEF Fiber
<1>5. G \in SUBSET (1..n) /\ \A k \in G : k \in 1..n
  OBVIOUS
<1>6. CountsOwn(ts, G, e, E)
  <2> HIDE DEF e, E, G
  <2> QED BY <1>2, <1>3, <1>5 DEF CountsOwn
<1> HIDE DEF e, E
<1>7. CountOf(ts, G) = Cardinality(Fiber(e, E, G))
  <2> HIDE DEF G
  <2> QED BY <1>6, CountsTogether
<1> QED BY <1>4, <1>7
-----------------------------------------------------------------------------
(* The emitted templates.                                                  *)
LEMMA Emitted ==
  ASSUME ResolveEntries, Known, Placed, ResolveReady, Usual
  PROVE  /\ templates' \in Seq(Template)
         /\ \A id \in Ids(templates') : id # <<>>
         /\ pipe # "loki" => DistinctIds(templates')
         /\ \E f : Traced(f, templates', absorbed)
<1>1. /\ templates \in Seq(Template) /\ \A id \in Ids(templates) : id # <<>>
      /\ pipe = "cloudwatch" \/ ~twins => DistinctIds(templates)
      /\ \E f : Traced(f, templates, absorbed)
      /\ pipe = "k8slogs" => ~twins
  BY DEF ResolveReady, Usual, Traces
<1>2. CASE pipe = "stackdriver"
  <2>1. templates' = FoldTwins(templates)
    BY <1>2 DEF ResolveEntries
  <2>2. /\ FoldTwins(templates) \in Seq(Template)
        /\ DistinctIds(FoldTwins(templates))
        /\ Ids(FoldTwins(templates)) = Ids(templates)
        /\ \E g : Traced(g, FoldTwins(templates), absorbed)
    BY <1>1, FoldFacts
  <2> QED BY <1>1, <2>1, <2>2
<1>3. CASE pipe # "stackdriver"
  <2>1. templates' = templates
    BY <1>3 DEF ResolveEntries
  <2>2. \A x : x = templates =>
          /\ x \in Seq(Template)
          /\ \A id \in Ids(x) : id # <<>>
          /\ pipe = "cloudwatch" \/ ~twins => DistinctIds(x)
          /\ \E f : Traced(f, x, absorbed)
    BY <1>1
  <2>3. pipe # "loki" => pipe = "cloudwatch" \/ ~twins
    BY <1>1, <1>3 DEF Known
  <2> QED BY <2>1, <2>2, <2>3
<1> QED BY <1>2, <1>3

(* The templates ts count the n entries that end in them.                  *)
Tally(ts, ends, n, once) ==
  /\ \A id \in Ids(ts) :
       CountOf(ts, {k \in 1..Len(ts) : ts[k].id = id}) =
         Cardinality({i \in 1..n : ends[i] = id})
  /\ once => Cardinality(Ids(ts)) = Len(ts)

LEMMA Tallied ==
  /\ CountsAddUp <=>
       (Regular /\ pipe # "k8slogs" =>
          Tally(templates, resolved, Len(log), pipe \in {"cloudwatch", "stackdriver"}))
  /\ CountsAddUp' <=>
       (Regular' /\ pipe' # "k8slogs" =>
          Tally(templates', resolved', Len(log'), pipe' \in {"cloudwatch", "stackdriver"}))
BY DEF CountsAddUp, Tally

(* The result of the pipeline.                                             *)
LEMMA ResolveLands ==
  ASSUME ResolveEntries, Known, Drained, Gathered, Len(joined) = Len(log), log \in Seq(Entry),
         ResolveReady, Usual
  PROVE  EntriesLand' /\ CountsAddUp'
<1>1. /\ UNCHANGED <<pipe, log, joined, clusters, absorbed>>
      /\ Placed /\ Pairs(absorbed)
      /\ Len(joined) \in Nat
      /\ \A i \in 1..Len(joined) : joined[i] \in 0..Len(clusters)
  BY DEF ResolveEntries, Gathered, Placed, ResolveReady
<1>2. PICK ts \in Seq(Template) : ts = templates'
  BY <1>1, Emitted
<1>3. /\ \A id \in Ids(ts) : id # <<>>
      /\ pipe # "loki" => DistinctIds(ts)
      /\ \E f : Traced(f, ts, absorbed)
  <2>1. \A x : x = templates' =>
          /\ \A id \in Ids(x) : id # <<>>
          /\ pipe # "loki" => DistinctIds(x)
          /\ \E f : Traced(f, x, absorbed)
    BY <1>1, Emitted
  <2> QED BY <1>2, <2>1
<1>4. PICK f : Traced(f, ts, absorbed)
  BY <1>3
<1>5. PICK ends : ends = resolved'
  OBVIOUS
<1>6. ASSUME NEW i \in 1..Len(log), joined[i] # 0
      PROVE  /\ \E k \in 1..Len(ts) :
                  /\ ts[k].id = ends[i]
                  /\ ts[k].first <= log[i].time /\ log[i].time <= ts[k].last
             /\ pipe # "k8slogs" => ends[i] = ts[f[joined[i]]].id
  <2>1. PICK j \in 1..Len(clusters) : joined[i] = j
    <3>1. joined[i] \in 0..Len(clusters) /\ Len(clusters) \in Nat
      BY <1>1 DEF Placed
    <3> QED BY <1>6, <3>1
  <2>2. pipe = "k8slogs" => DistinctIds(ts)
    BY <1>3
  <2>3. /\ \E k \in 1..Len(ts) :
             /\ ts[k].id = resolved'[i]
             /\ ts[k].first <= log[i].time /\ log[i].time <= ts[k].last
        /\ pipe # "k8slogs" => resolved'[i] = ts[f[j]].id
    BY <1>1, <1>2, <1>4, <2>1, <2>2, Landing, SMTT(30)
  <2> QED BY <1>5, <2>1, <2>3
<1>7. EntriesLand'
  <2>1. \A i \in 1..Len(log) : joined[i] # 0 =>
          \E k \in 1..Len(ts) :
            /\ ts[k].id = ends[i]
            /\ ts[k].first <= log[i].time /\ log[i].time <= ts[k].last
    BY <1>6
  <2> QED BY <1>1, <1>2, <1>5, <2>1 DEF EntriesLand
<1>8. CountsAddUp'
  <2> DEFINE once == pipe \in {"cloudwatch", "stackdriver"}
  <2> SUFFICES ASSUME pipe # "k8slogs" PROVE Tally(ts, ends, Len(log), once)
    <3>1. pipe' = pipe /\ log' = log /\ templates' = ts /\ resolved' = ends
      BY <1>1, <1>2, <1>5
    <3> QED BY <3>1, Tallied
  <2>1. Len(ts) \in Nat /\ Keeps(f, ts)
    BY <1>4 DEF Traced
  <2>2. \A i \in 1..Len(log) :
          ends[i] = IF joined[i] = 0 THEN <<>> ELSE ts[f[joined[i]]].id
    <3> SUFFICES ASSUME NEW i \in 1..Len(log)
                 PROVE  ends[i] = IF joined[i] = 0 THEN <<>> ELSE ts[f[joined[i]]].id
      OBVIOUS
    <3>1. CASE joined[i] = 0
      BY <1>5, <3>1, ResolvedIs
    <3>2. CASE joined[i] # 0
      BY <1>6, <3>2
    <3> QED BY <3>1, <3>2
  <2>3. ASSUME NEW id \in Ids(ts)
        PROVE  CountOf(ts, {k \in 1..Len(ts) : ts[k].id = id}) =
                 Cardinality({i \in 1..Len(log) : ends[i] = id})
    BY <1>1, <1>3, <2>1, <2>2, Adding
  <2>4. once => Cardinality(Ids(ts)) = Len(ts)
    BY <1>3, <2>1, DistinctCount
  <2> QED BY <2>3, <2>4 DEF Tally
<1> QED BY <1>7, <1>8

(* How far the pipeline has come, and what the rest of it may rely on.     *)
PipeInv ==
  /\ DrainInv
  /\ ~forced => Gathered
  /\ stage # "idle" => Known
  /\ stage = "cluster" => absorbed = {} /\ ~twins
  /\ stage \in {"gostack", "python", "resolve"} => Len(joined) = Len(log)
  /\ stage = "gostack" /\ ~forced => GoStackReady
  /\ stage = "python" /\ ~forced => PythonReady
  /\ stage = "resolve" /\ ~forced => ResolveReady
  /\ EntriesLand
  /\ CountsAddUp

(* It holds at first, and each action preserves it.                        *)
LEMMA PipeInvInit == CollectInit => PipeInv
<1> SUFFICES ASSUME CollectInit PROVE PipeInv
  OBVIOUS
<1>1. /\ stage \in {"idle", "cluster"} /\ joined = <<>> /\ clusters = <<>>
      /\ absorbed = {} /\ ~twins
  BY DEF CollectInit, PipeIdle, PipeInit
<1>2. stage = "cluster" => Known
  BY PipesAssumption DEF CollectInit, PipeIdle, PipeInit, Known
<1>3. DrainInv
  BY DrainInit
<1>4. Gathered
  <2>1. Len(joined) = 0 /\ Len(clusters) = 0 /\ Len(log) \in Nat
    BY <1>1, <1>3 DEF DrainInv
  <2> QED BY <2>1 DEF Gathered, Placed
<1>5. ~Regular
  BY <1>1 DEF Regular
<1> QED BY <1>1, <1>2, <1>3, <1>4, <1>5 DEF PipeInv, EntriesLand, CountsAddUp

(* What was gathered does not depend on the later stages.                  *)
LEMMA GatheredStays ==
  ASSUME Gathered, UNCHANGED <<log, joined, clusters>>
  PROVE  Gathered' /\ Placed'
BY DEF Gathered, Placed, Members

LEMMA AddStep ==
  ASSUME PipeInv, AddMessage
  PROVE  PipeInv'
<1>1. stage = "cluster" /\ UNCHANGED <<stage, pipe, absorbed, twins>>
  BY DEF AddMessage
<1>2. ~forced' => Gathered'
  BY AddGathers DEF PipeInv
<1>3. DrainInv'
  BY AddKeeps DEF PipeInv
<1>4. Known'
  BY <1>1 DEF PipeInv, Known
<1>5. ~Regular'
  BY <1>1 DEF Regular
<1> QED BY <1>1, <1>2, <1>3, <1>4, <1>5 DEF PipeInv, EntriesLand, CountsAddUp

LEMMA ClusteredStep ==
  ASSUME PipeInv, Clustered
  PROVE  PipeInv'
<1>1. /\ stage = "cluster" /\ stage' = "gostack" /\ Len(joined) = Len(log)
      /\ UNCHANGED <<pipe, log, joined, tree, clusters, absorbed, forced, twins>>
  BY DEF Clustered
<1>2. ~forced' => Gathered'
  BY <1>1, GatheredStays DEF PipeInv
<1>3. DrainInv'
  BY <1>1, DrainNext DEF PipeInv, DrainInv, Drained, Filed, Closed, Children
<1>4. Known'
  BY <1>1 DEF PipeInv, Known
<1>5. ~Regular'
  BY <1>1 DEF Regular
<1>6. ~forced' => GoStackReady'
  BY <1>1, ClusteredReady DEF PipeInv, DrainInv
<1> QED BY <1>1, <1>2, <1>3, <1>4, <1>5, <1>6 DEF PipeInv, EntriesLand, CountsAddUp

LEMMA GoStackStep ==
  ASSUME PipeInv, ConsolidateGoStack
  PROVE  PipeInv'
<1>1. /\ stage = "gostack" /\ stage' = "python"
      /\ UNCHANGED <<pipe, log, joined, tree, clusters, forced>>
  BY DEF ConsolidateGoStack
<1>2. ~forced' => Gathered'
  BY <1>1, GatheredStays DEF PipeInv
<1>3. DrainInv'
  BY <1>1 DEF PipeInv, DrainInv, Drained, Filed, Closed, Children
<1>4. Known'
  BY <1>1 DEF PipeInv, Known
<1>5. ~Regular'
  BY <1>1 DEF Regular
<1>6. ASSUME ~forced' PROVE PythonReady'
  <2>1. GoStackReady /\ Placed
    BY <1>1, <1>6 DEF PipeInv, Gathered
  <2> DEFINE F == {k \in 1..Len(templates) : IsGoStackFragment(templates[k])}
  <2>2. F \in SUBSET (1..Len(templates))
    OBVIOUS
  <2>3. UNCHANGED <<templates, absorbed, twins>> \/ Consolidate(F, {}, GoWindow)
    BY DEF ConsolidateGoStack
  <2> HIDE DEF F
  <2>4. CASE UNCHANGED <<templates, absorbed, twins>>
    BY <1>1, <2>1, <2>4, GoStackIdle
  <2>5. CASE Consolidate(F, {}, GoWindow)
    BY <1>1, <2>1, <2>2, <2>5, GoStackPass
  <2> QED BY <2>3, <2>4, <2>5
<1>7. Len(joined)' = Len(log)'
  BY <1>1 DEF PipeInv
<1> QED BY <1>1, <1>2, <1>3, <1>4, <1>5, <1>6, <1>7 DEF PipeInv, EntriesLand, CountsAddUp

LEMMA PythonStep ==
  ASSUME PipeInv, ConsolidatePython
  PROVE  PipeInv'
<1>1. /\ stage = "python" /\ stage' = "resolve"
      /\ UNCHANGED <<pipe, log, joined, tree, clusters, forced>>
  BY DEF ConsolidatePython
<1>2. ~forced' => Gathered'
  BY <1>1, GatheredStays DEF PipeInv
<1>3. DrainInv'
  BY <1>1 DEF PipeInv, DrainInv, Drained, Filed, Closed, Children
<1>4. Known /\ Known'
  BY <1>1 DEF PipeInv, Known
<1>5. ~Regular'
  BY <1>1 DEF Regular
<1>6. ASSUME ~forced' PROVE ResolveReady'
  <2>1. PythonReady /\ Placed
    BY <1>1, <1>6 DEF PipeInv, Gathered
  <2>2. \A p \in Patterns : p # <<>>
    BY <1>1, <1>6 DEF PipeInv, DrainInv, Drained, Filed, Patterns
  <2> DEFINE H == {k \in 1..Len(templates) : IsPythonHeader(templates[k])}
             F == H \cup {k \in 1..Len(templates) : IsPythonFragment(templates[k])}
  <2>3. F \in SUBSET (1..Len(templates))
    OBVIOUS
  <2>4. UNCHANGED <<templates, absorbed, twins>> \/ Consolidate(F, H, PyWindow)
    BY DEF ConsolidatePython
  <2> HIDE DEF F, H
  <2>5. CASE UNCHANGED <<templates, absorbed, twins>>
    BY <1>1, <2>1, <2>2, <2>5, PythonIdle
  <2>6. CASE Consolidate(F, H, PyWindow)
    BY <1>1, <1>4, <2>1, <2>2, <2>3, <2>6, PythonPass
  <2> QED BY <2>4, <2>5, <2>6
<1>7. Len(joined)' = Len(log)'
  BY <1>1 DEF PipeInv
<1> QED BY <1>1, <1>2, <1>3, <1>4, <1>5, <1>6, <1>7 DEF PipeInv, EntriesLand, CountsAddUp

LEMMA ResolveStep ==
  ASSUME PipeInv, ResolveEntries
  PROVE  PipeInv'
<1>1. /\ stage = "resolve" /\ stage' = "emitted"
      /\ UNCHANGED <<pipe, log, joined, tree, clusters, absorbed, forced, twins>>
  BY DEF ResolveEntries
<1>2. ~forced' => Gathered'
  BY <1>1, GatheredStays DEF PipeInv
<1>3. DrainInv'
  BY <1>1 DEF PipeInv, DrainInv, Drained, Filed, Closed, Children
<1>4. Known /\ Known'
  BY <1>1 DEF PipeInv, Known
<1>5. Regular' => EntriesLand' /\ CountsAddUp'
  <2> SUFFICES ASSUME Regular' PROVE EntriesLand' /\ CountsAddUp'
    OBVIOUS
  <2>1. ~forced
    BY <1>1 DEF Regular
  <2>2. Usual
    BY <1>1 DEF Regular, Usual, GoCrash, Plain, Patterns
  <2>3. /\ Drained /\ Gathered /\ ResolveReady /\ Len(joined) = Len(log)
        /\ log \in Seq(Entry)
    BY <1>1, <2>1 DEF PipeInv, DrainInv
  <2> QED BY <1>4, <2>2, <2>3, ResolveLands
<1>6. EntriesLand' /\ CountsAddUp'
  BY <1>5 DEF EntriesLand, CountsAddUp
<1> QED BY <1>1, <1>2, <1>3, <1>4, <1>6 DEF PipeInv

LEMMA PipeInvNext == PipeInv /\ [CollectNext]_collectVars => PipeInv'
<1> SUFFICES ASSUME PipeInv, [CollectNext]_collectVars PROVE PipeInv'
  OBVIOUS
<1>1. CASE UNCHANGED pipeVars
  <2>1. /\ UNCHANGED <<stage, pipe, log, joined, tree, clusters, templates, absorbed,
                       resolved, forced, twins>>
    BY <1>1 DEF pipeVars
  <2>2. Gathered => Gathered'
    BY <2>1, GatheredStays
  <2>3. DrainInv'
    BY <2>1 DEF PipeInv, DrainInv, Drained, Filed, Closed, Children
  <2>4. Known' <=> Known
    BY <2>1 DEF Known
  <2>5. Traces' <=> Traces
    BY <2>1, SamePatterns DEF Traces
  <2>6. Patterns' = Patterns
    BY <2>1, SamePatterns
  <2>7. GoStackReady => GoStackReady'
    BY <2>1, <2>5, <2>6 DEF GoStackReady, Ids, DistinctIds
  <2>8. PythonReady => PythonReady'
    BY <2>1, <2>5, <2>6 DEF PythonReady, Ids, DistinctIds, GoCrash, Pairs
  <2>9. Usual' <=> Usual
    BY <2>1, <2>6 DEF Usual, GoCrash, Plain
  <2>10. ResolveReady => ResolveReady'
    BY <2>1, <2>5, <2>9 DEF ResolveReady, Ids, DistinctIds, Pairs
  <2>11. EntriesLand' /\ CountsAddUp'
    <3>1. Regular' <=> Regular
      BY <2>1 DEF Regular
    <3>2. EntriesLand /\ CountsAddUp
      BY DEF PipeInv
    <3>3. EntriesLand'
      BY <2>1, <3>1, <3>2 DEF EntriesLand
    <3>4. CountsAddUp'
      BY <2>1, <3>1, <3>2, Tallied
    <3> QED BY <3>3, <3>4
  <2> QED BY <2>1, <2>2, <2>3, <2>4, <2>7, <2>8, <2>10, <2>11 DEF PipeInv
<1>2. \/ AddMessage \/ Clustered \/ ConsolidateGoStack \/ ConsolidatePython
      \/ ResolveEntries \/ UNCHANGED pipeVars
  BY DEF CollectNext, PipeNext, collectVars
<1> QED BY <1>1, <1>2, AddStep, ClusteredStep, GoStackStep, PythonStep, ResolveStep

(* Whatever is read, in whatever order, and however the sorts and the      *)
(* hashes decide what they are left to decide: no entry is orphaned.       *)
THEOREM EntriesAlwaysLand == CollectSpec => []EntriesLand
<1>1. PipeInv => EntriesLand
  BY DEF PipeInv
<1> QED BY <1>1, PipeInvInit, PipeInvNext, PTL DEF CollectSpec

(* And the counts of the emitted templates are of the entries resolved to  *)
(* them, however often a crash was merged.                                 *)
THEOREM CountsAlwaysAddUp == CollectSpec => []CountsAddUp
<1>1. PipeInv => CountsAddUp
  BY DEF PipeInv
<1> QED BY <1>1, PipeInvInit, PipeInvNext, PTL DEF CollectSpec
=============================================================================
