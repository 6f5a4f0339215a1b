------------------------- MODULE FileManagerProofs -------------------------
(***************************************************************************)
(* The file manager of module FileManager keeps its properties for names   *)
(* and depths without a bound.                                             *)
(***************************************************************************)
EXTENDS FileManager, FiniteSetTheorems, SequenceTheorems, TLAPS

-----------------------------------------------------------------------------
(* Paths: the root, and what is above and below another *)

Nodes == Paths \cup {Root}

LEMMA NodesAre ==
    ASSUME NEW p
    PROVE  /\ p \in Nodes <=> p \in Seq(Names) /\ Len(p) <= Depth
           /\ p \in Paths <=> p \in Nodes /\ p # Root
           /\ p \in Paths => Len(p) \in 1 .. Depth
           /\ Root \in Nodes /\ Len(Root) = 0
<1>1. Depth \in Nat \ {0}
  BY DepthAssumption
<1>2. Root \in Seq(Names) /\ Len(Root) = 0 /\ Len(Root) <= Depth
  BY <1>1 DEF Root
<1>3. ASSUME p \in Paths
      PROVE  p \in Seq(Names) /\ Len(p) \in 1 .. Depth /\ Len(p) <= Depth /\ p # Root
  <2>1. PICK n \in 1 .. Depth : p \in [1 .. n -> Names]
    BY <1>3 DEF Paths
  <2>2. p \in Seq(Names) /\ Len(p) = n
    BY <1>1, <2>1
  <2> QED
    BY <1>2, <2>2
<1>4. ASSUME p \in Seq(Names), Len(p) <= Depth, p # Root
      PROVE  p \in Paths
  <2>1. Len(p) \in 1 .. Depth
    BY <1>1, <1>4, EmptySeq DEF Root
  <2>2. p \in [1 .. Len(p) -> Names]
    BY <1>4
  <2> QED
    BY <2>1, <2>2 DEF Paths
<1>5. (p \in Nodes <=> p \in Paths \/ p = Root) /\ Root \in Nodes
  BY DEF Nodes
<1> QED
  BY <1>2, <1>3, <1>4, <1>5

LEMMA PrefixIs ==
    ASSUME NEW a \in Nodes, NEW b \in Nodes
    PROVE  IsPrefix(a, b) <=> Len(a) <= Len(b) /\ \A i \in 1 .. Len(a) : a[i] = b[i]
<1>1. a \in Seq(Names) /\ b \in Seq(Names) /\ Len(a) \in Nat /\ Len(b) \in Nat
  BY NodesAre
<1>2. SubSeq(a, 1, Len(a)) = a
  BY <1>1, SubSeqFull
<1>3. ASSUME Len(a) <= Len(b)
      PROVE  /\ SubSeq(b, 1, Len(a)) \in Seq(Names) /\ Len(SubSeq(b, 1, Len(a))) = Len(a)
             /\ \A i \in 1 .. Len(a) : SubSeq(b, 1, Len(a))[i] = b[i]
  BY <1>1, <1>3
<1>4. ASSUME Len(a) <= Len(b), \A i \in 1 .. Len(a) : a[i] = b[i]
      PROVE  a = SubSeq(b, 1, Len(a))
  <2> DEFINE c == SubSeq(b, 1, Len(a))
  <2>1. c \in Seq(Names) /\ Len(a) = Len(c) /\ \A i \in 1 .. Len(a) : a[i] = c[i]
    BY <1>3, <1>4
  <2> HIDE DEF c
  <2>2. a = c
    BY <1>1, <2>1, SeqEqual
  <2> QED
    BY <2>2 DEF c
<1> QED
  BY <1>2, <1>3, <1>4 DEF IsPrefix

\* Prefixes order the paths, and those of one path are in a line.
LEMMA PrefixOrder ==
    /\ \A a \in Nodes : IsPrefix(a, a) /\ IsPrefix(Root, a) /\ (IsPrefix(a, Root) => a = Root)
    /\ \A a, b, c \in Nodes : IsPrefix(a, b) /\ IsPrefix(b, c) => IsPrefix(a, c)
    /\ \A a, b \in Nodes : IsPrefix(a, b) /\ Len(a) = Len(b) => a = b
    /\ \A a, b \in Nodes : IsPrefix(a, b) /\ IsPrefix(b, a) => a = b
    /\ \A a, b \in Nodes : IsPrefix(a, b) => Len(a) <= Len(b)
    /\ \A a, b, c \in Nodes : IsPrefix(a, c) /\ IsPrefix(b, c) => IsPrefix(a, b) \/ IsPrefix(b, a)
<1>1. \A a \in Nodes : a \in Seq(Names) /\ Len(a) \in Nat
  BY NodesAre
<1>2. Root \in Nodes /\ Len(Root) = 0
  BY NodesAre
<1>3. ASSUME NEW a \in Nodes, NEW b \in Nodes, IsPrefix(a, b), Len(a) = Len(b)
      PROVE  a = b
  <2>1. \A i \in 1 .. Len(a) : a[i] = b[i]
    BY <1>3, PrefixIs
  <2> QED
    BY <1>1, <1>3, <2>1, SeqEqual
<1>4. ASSUME NEW a \in Nodes
      PROVE  IsPrefix(a, a) /\ IsPrefix(Root, a) /\ (IsPrefix(a, Root) => a = Root)
  <2>1. Len(a) \in Nat /\ Len(a) <= Len(a) /\ 0 <= Len(a)
    BY <1>1
  <2>2. IsPrefix(a, a) /\ IsPrefix(Root, a)
    BY <1>2, <2>1, PrefixIs
  <2>3. ASSUME IsPrefix(a, Root)
        PROVE  a = Root
    <3>1. Len(a) = Len(Root)
      BY <1>2, <2>1, <2>3, PrefixIs
    <3> QED
      BY <1>2, <1>3, <2>3, <3>1
  <2> QED
    BY <2>2, <2>3
<1>5. ASSUME NEW a \in Nodes, NEW b \in Nodes, NEW c \in Nodes, IsPrefix(a, b), IsPrefix(b, c)
      PROVE  IsPrefix(a, c)
  <2>1. /\ Len(a) <= Len(b) /\ Len(b) <= Len(c)
        /\ Len(a) \in Nat /\ Len(b) \in Nat /\ Len(c) \in Nat
        /\ \A i \in 1 .. Len(a) : a[i] = b[i]
        /\ \A i \in 1 .. Len(b) : b[i] = c[i]
    BY <1>1, <1>5, PrefixIs
  <2>2. Len(a) <= Len(c) /\ \A i \in 1 .. Len(a) : i \in 1 .. Len(b)
    BY <2>1
  <2>3. \A i \in 1 .. Len(a) : a[i] = c[i]
    BY <2>1, <2>2
  <2> QED
    BY <2>2, <2>3, PrefixIs
<1>6. ASSUME NEW a \in Nodes, NEW b \in Nodes, IsPrefix(a, b), IsPrefix(b, a)
      PROVE  a = b
  <2>1. Len(a) <= Len(b) /\ Len(b) <= Len(a) /\ Len(a) \in Nat /\ Len(b) \in Nat
    BY <1>1, <1>6, PrefixIs
  <2>2. Len(a) = Len(b)
    BY <2>1
  <2> QED
    BY <1>3, <1>6, <2>2
<1>7. ASSUME NEW a \in Nodes, NEW b \in Nodes, IsPrefix(a, b)
      PROVE  Len(a) <= Len(b)
  BY <1>7, PrefixIs
<1>8. ASSUME NEW a \in Nodes, NEW b \in Nodes, NEW c \in Nodes, IsPrefix(a, c), IsPrefix(b, c)
      PROVE  IsPrefix(a, b) \/ IsPrefix(b, a)
  <2>1. /\ \A i \in 1 .. Len(a) : a[i] = c[i]
        /\ \A i \in 1 .. Len(b) : b[i] = c[i]
        /\ Len(a) \in Nat /\ Len(b) \in Nat
    BY <1>1, <1>8, PrefixIs
  <2>2. CASE Len(a) <= Len(b)
    <3>1. \A i \in 1 .. Len(a) : i \in 1 .. Len(b)
      BY <2>1, <2>2
    <3>2. \A i \in 1 .. Len(a) : a[i] = b[i]
      BY <2>1, <3>1
    <3> QED
      BY <2>2, <3>2, PrefixIs
  <2>3. CASE Len(b) <= Len(a)
    <3>1. \A i \in 1 .. Len(b) : i \in 1 .. Len(a)
      BY <2>1, <2>3
    <3>2. \A i \in 1 .. Len(b) : b[i] = a[i]
      BY <2>1, <3>1
    <3> QED
      BY <2>3, <3>2, PrefixIs
  <2> QED
    BY <2>1, <2>2, <2>3
<1> QED
  BY <1>3, <1>4, <1>5, <1>6, <1>7, <1>8

\* A prefix of a path is one of its beginnings.
LEMMA Beginning ==
    ASSUME NEW p \in Paths, NEW n \in 0 .. Len(p)
    PROVE  /\ SubSeq(p, 1, n) \in Nodes /\ Len(SubSeq(p, 1, n)) = n
           /\ IsPrefix(SubSeq(p, 1, n), p)
           /\ \A a \in Nodes : IsPrefix(a, p) /\ Len(a) = n => a = SubSeq(p, 1, n)
<1> DEFINE s == SubSeq(p, 1, n)
<1>1. p \in Nodes /\ p \in Seq(Names) /\ Len(p) \in Nat /\ Len(p) <= Depth /\ Depth \in Nat
  BY NodesAre, DepthAssumption
<1>2. n \in Nat /\ n <= Len(p) /\ n <= Depth
  BY <1>1
<1>3. s \in Seq(Names) /\ Len(s) = n /\ \A i \in 1 .. n : s[i] = p[i]
  BY <1>1, <1>2
<1> HIDE DEF s
<1>4. s \in Nodes
  BY <1>2, <1>3, NodesAre
<1>5. IsPrefix(s, p)
  BY <1>1, <1>2, <1>3, <1>4, PrefixIs
<1>6. ASSUME NEW a \in Nodes, IsPrefix(a, p), Len(a) = n
      PROVE  a = s
  <2>1. a \in Seq(Names) /\ \A i \in 1 .. Len(a) : a[i] = p[i]
    BY <1>1, <1>6, NodesAre, PrefixIs
  <2> QED
    BY <1>3, <1>6, <2>1, SeqEqual
<1> QED
  BY <1>3, <1>4, <1>5, <1>6 DEF s

LEMMA AboveIs ==
    ASSUME NEW p \in Paths
    PROVE  Above(p) = {a \in Paths : IsPrefix(a, p) /\ a # p}
<1>1. p \in Nodes /\ Len(p) \in Nat
  BY NodesAre
<1>2. ASSUME NEW a \in Above(p)
      PROVE  a \in Paths /\ IsPrefix(a, p) /\ a # p
  <2>1. PICK n \in 1 .. Len(p) - 1 : a = SubSeq(p, 1, n)
    BY <1>2 DEF Above
  <2>2. n \in 0 .. Len(p) /\ n # 0 /\ n # Len(p)
    BY <1>1, <2>1
  <2>3. a \in Nodes /\ Len(a) = n /\ IsPrefix(a, p)
    BY <2>1, <2>2, Beginning
  <2> QED
    BY <2>2, <2>3, NodesAre
<1>3. ASSUME NEW a \in Paths, IsPrefix(a, p), a # p
      PROVE  a \in Above(p)
  <2>1. a \in Nodes /\ Len(a) \in 1 .. Depth
    BY NodesAre
  <2>2. Len(a) <= Len(p) /\ Len(a) # Len(p)
    BY <1>1, <1>3, <2>1, PrefixOrder
  <2>3. Len(a) \in 1 .. Len(p) - 1 /\ Len(a) \in 0 .. Len(p)
    BY <1>1, <2>1, <2>2
  <2>4. a = SubSeq(p, 1, Len(a))
    BY <1>3, <2>1, <2>3, Beginning
  <2> QED
    BY <2>3, <2>4 DEF Above
<1> QED
  BY <1>2, <1>3

\* The parent of a path is the longest one above it.
LEMMA FrontIs ==
    ASSUME NEW p \in Paths
    PROVE  /\ Front(p) \in Nodes /\ IsPrefix(Front(p), p) /\ Front(p) # p
           /\ Len(Front(p)) = Len(p) - 1
           /\ \A a \in Nodes : IsPrefix(a, p) /\ a # p => IsPrefix(a, Front(p))
           /\ Front(p) = Root \/ Front(p) \in Above(p)
<1>1. p \in Nodes /\ Len(p) \in Nat /\ Len(p) - 1 \in 0 .. Len(p)
  BY NodesAre
<1>2. /\ Front(p) \in Nodes /\ IsPrefix(Front(p), p) /\ Len(Front(p)) = Len(p) - 1
  BY <1>1, Beginning DEF Front
<1>3. Front(p) # p
  BY <1>1, <1>2
<1>4. ASSUME NEW a \in Nodes, IsPrefix(a, p), a # p
      PROVE  IsPrefix(a, Front(p))
  <2>1. Len(a) \in Nat /\ Len(a) <= Len(p) /\ Len(a) # Len(p)
    BY <1>1, <1>4, PrefixOrder, NodesAre
  <2>2. Len(a) <= Len(Front(p))
    BY <1>1, <1>2, <2>1
  <2>3. IsPrefix(a, Front(p)) \/ IsPrefix(Front(p), a)
    BY <1>1, <1>2, <1>4, PrefixOrder
  <2>4. ASSUME IsPrefix(Front(p), a)
        PROVE  IsPrefix(a, Front(p))
    <3>1. Len(Front(p)) <= Len(a)
      BY <1>2, <2>4, PrefixOrder
    <3>2. Len(Front(p)) = Len(a)
      BY <1>1, <1>2, <2>1, <2>2, <3>1
    <3>3. Front(p) = a
      BY <1>2, <2>4, <3>2, PrefixOrder
    <3> QED
      BY <1>4, <3>3, PrefixOrder
  <2> QED
    BY <2>3, <2>4
<1>5. Front(p) = Root \/ Front(p) \in Above(p)
  BY <1>2, <1>3, NodesAre, AboveIs
<1> QED
  BY <1>2, <1>3, <1>4, <1>5

-----------------------------------------------------------------------------
(* Trees *)

Kinds == {"absent", "dir"} \cup Contents

\* What exists has only directories above it.
Tree(f) ==
    /\ f \in [Paths -> Kinds]
    /\ \A p, a \in Paths : f[p] # "absent" /\ IsPrefix(a, p) /\ a # p => f[a] = "dir"

\* Induction in the form in which it is used: a set of numbers has a least one.
LEMMA LeastNatural ==
    ASSUME NEW S \in SUBSET Nat, S # {}
    PROVE  \E m \in S : \A k \in S : m <= k
<1> DEFINE T == {0 .. n : n \in S}
<1>1. \A n \in S : 0 .. n \in FiniteSubsetsOf(Nat)
  <2>1. \A n \in S : IsFiniteSet(0 .. n)
    BY FS_Interval
  <2> QED
    BY <2>1 DEF FiniteSubsetsOf
<1>2. T \subseteq FiniteSubsetsOf(Nat) /\ T # {}
  BY <1>1
<1>3. PICK x \in T : \A y \in T : ~ (<<y, x>> \in StrictSubsetOrdering(Nat))
  <2> HIDE DEF T
  <2> QED
    BY <1>2, FS_StrictSubsetOrderingWellFounded, WFMin
<1>4. PICK m \in S : x = 0 .. m
  BY <1>3
<1>5. ASSUME NEW k \in S, ~(m <= k)
      PROVE  FALSE
  <2>1. 0 .. k \subseteq 0 .. m /\ m \in 0 .. m /\ m \notin 0 .. k
    BY <1>5
  <2>2. <<0 .. k, 0 .. m>> \in StrictSubsetOrdering(Nat)
    BY <2>1 DEF StrictSubsetOrdering
  <2> QED
    BY <1>3, <1>4, <2>2
<1> QED
  BY <1>5

\* It is enough that every parent is a directory.
LEMMA TreeOfParents ==
    ASSUME NEW f \in [Paths -> Kinds],
           \A p \in Paths : f[p] # "absent" => Kind(f, Front(p)) = "dir"
    PROVE  Tree(f)
<1> SUFFICES ASSUME NEW p \in Paths, NEW a \in Paths, f[p] # "absent", IsPrefix(a, p), a # p,
                    f[a] # "dir"
             PROVE  FALSE
  BY DEF Tree
<1> DEFINE beg(k) == SubSeq(p, 1, Len(p) - k)
           S == {k \in Nat : k \in 1 .. Len(p) - 1 /\ f[beg(k)] # "dir"}
<1>1. Len(p) \in Nat /\ p \in Nodes /\ a \in Nodes /\ Len(a) \in Nat /\ Len(a) >= 1
  BY NodesAre
<1>2. Len(a) < Len(p)
  <2>1. Len(a) <= Len(p) /\ Len(a) # Len(p)
    BY <1>1, PrefixOrder
  <2> QED
    BY <1>1, <2>1
<1>3. \A k \in 0 .. Len(p) - 1 :
         /\ beg(k) \in Nodes /\ Len(beg(k)) = Len(p) - k /\ IsPrefix(beg(k), p)
         /\ \A b \in Nodes : IsPrefix(b, p) /\ Len(b) = Len(p) - k => b = beg(k)
  <2> SUFFICES ASSUME NEW k \in 0 .. Len(p) - 1
               PROVE  /\ beg(k) \in Nodes /\ Len(beg(k)) = Len(p) - k /\ IsPrefix(beg(k), p)
                      /\ \A b \in Nodes : IsPrefix(b, p) /\ Len(b) = Len(p) - k => b = beg(k)
    OBVIOUS
  <2>1. Len(p) - k \in 0 .. Len(p)
    BY <1>1
  <2> QED
    BY <2>1, Beginning
<1>4. S # {}
  <2>1. PICK d \in 1 .. Len(p) - 1 : Len(a) = Len(p) - d
    <3>1. Len(p) - Len(a) \in 1 .. Len(p) - 1 /\ Len(a) = Len(p) - (Len(p) - Len(a))
      BY <1>1, <1>2
    <3> QED
      BY <3>1
  <2>2. d \in 0 .. Len(p) - 1 /\ d \in Nat
    BY <1>1
  <2>3. a = beg(d)
    BY <1>1, <1>3, <2>1, <2>2
  <2>4. f[beg(d)] # "dir"
    BY <2>3
  <2> QED
    BY <2>2, <2>4
<1>5. PICK m \in S : \A k \in S : m <= k
  <2>1. S \in SUBSET Nat /\ S # {}
    BY <1>4
  <2> HIDE DEF S
  <2> QED
    BY <2>1, LeastNatural
<1> DEFINE n == m - 1
           c == beg(n)
<1>6. m \in 1 .. Len(p) - 1 /\ n \in 0 .. Len(p) - 1 /\ n \notin S /\ f[beg(m)] # "dir"
  <2>1. m \in 1 .. Len(p) - 1 /\ f[beg(m)] # "dir" /\ m \in Nat
    BY <1>5
  <2>2. n \in 0 .. Len(p) - 1 /\ n < m /\ ~(m <= n)
    BY <1>1, <2>1
  <2> HIDE DEF n, S
  <2> QED
    BY <1>5, <2>1, <2>2
<1>7. c \in Paths /\ IsPrefix(c, p) /\ Len(c) = Len(p) - n
  <2>1. Len(p) - n # 0
    BY <1>1, <1>6
  <2>2. c \in Nodes /\ IsPrefix(c, p) /\ Len(c) = Len(p) - n
    BY <1>3, <1>6
  <2> HIDE DEF c, n
  <2> QED
    BY <2>1, <2>2, NodesAre
<1>8. f[c] # "absent"
  <2>1. CASE n = 0
    <3>1. Len(c) = Len(p)
      BY <1>1, <1>7, <2>1
    <3>2. c = p
      BY <1>1, <1>7, <3>1, PrefixOrder DEF Nodes
    <3> QED
      BY <3>2
  <2>2. CASE n # 0
    <3>1. n \in 1 .. Len(p) - 1 /\ n \in Nat
      BY <1>1, <1>6, <2>2
    <3>2. f[c] = "dir"
      BY <1>6, <3>1
    <3> QED
      BY <3>2
  <2> QED
    BY <2>1, <2>2
<1>9. Front(c) = beg(m)
  <2>1. /\ Front(c) \in Nodes /\ IsPrefix(Front(c), c) /\ Len(Front(c)) = Len(c) - 1
    BY <1>7, FrontIs
  <2>2. IsPrefix(Front(c), p) /\ c \in Nodes
    BY <1>1, <1>7, <2>1, PrefixOrder DEF Nodes
  <2>3. Len(Front(c)) = Len(p) - m
    BY <1>1, <1>6, <1>7, <2>1
  <2> QED
    BY <1>3, <1>6, <2>1, <2>2, <2>3
<1>10. beg(m) # Root
  <2>1. Len(beg(m)) = Len(p) - m /\ Len(p) - m # 0
    BY <1>1, <1>3, <1>6
  <2> QED
    BY <2>1, NodesAre
<1> HIDE DEF beg
<1> QED
  BY <1>6, <1>7, <1>8, <1>9, <1>10 DEF Kind

LEMMA ParentsOfTree ==
    ASSUME NEW f, Tree(f), NEW p \in Paths, f[p] # "absent"
    PROVE  Kind(f, Front(p)) = "dir"
BY FrontIs, AboveIs DEF Tree, Kind

\* A path without an entry has nothing below it.
LEMMA NoEntries ==
    ASSUME NEW f, Tree(f), NEW p \in Paths, Children(f, p) = {},
           NEW r \in Paths, IsPrefix(p, r), r # p
    PROVE  f[r] = "absent"
<1> SUFFICES ASSUME f[r] # "absent"
             PROVE  FALSE
  OBVIOUS
<1> DEFINE n == Len(p) + 1
           c == SubSeq(r, 1, n)
<1>1. p \in Nodes /\ r \in Nodes /\ Len(p) \in Nat /\ Len(r) \in Nat
  BY NodesAre
<1>2. Len(p) < Len(r)
  <2>1. Len(p) <= Len(r) /\ Len(p) # Len(r)
    BY <1>1, PrefixOrder
  <2> QED
    BY <1>1, <2>1
<1>3. n \in 0 .. Len(r) /\ n # 0 /\ n - 1 = Len(p)
  BY <1>1, <1>2
<1>4. c \in Nodes /\ Len(c) = n /\ IsPrefix(c, r)
  BY <1>3, Beginning
<1> HIDE DEF c
<1>5. c \in Paths
  BY <1>3, <1>4, NodesAre
<1>6. Front(c) = p
  <2>1. Front(c) \in Nodes /\ IsPrefix(Front(c), c) /\ Len(Front(c)) = Len(p)
    BY <1>3, <1>4, <1>5, FrontIs
  <2>2. IsPrefix(Front(c), r)
    BY <1>1, <1>4, <2>1, PrefixOrder
  <2>3. Len(p) \in 0 .. Len(r)
    BY <1>1, <1>2
  <2> QED
    BY <1>1, <2>1, <2>2, <2>3, Beginning
<1>7. f[c] # "absent"
  BY <1>4, <1>5 DEF Tree
<1>8. c \in Children(f, p)
  BY <1>4, <1>5, <1>6, <1>7 DEF Children
<1> QED
  BY <1>8

-----------------------------------------------------------------------------
(* What LittleFS does to a tree *)

\* The effect of a removal: what it takes, and that a tree is left.
Taken(f, p, q) == q = p \/ q \in Emptied(f, p)

LEMMA RemovalKeepsTree ==
    ASSUME NEW f, Tree(f), NEW p \in Paths
    PROVE  /\ Tree(remove(f, p))
           /\ ~(f[p] # "absent" /\ Children(f, p) = {}) => remove(f, p) = f
           /\ f[p] # "absent" /\ Children(f, p) = {} =>
                 \A q \in Paths : remove(f, p)[q] = IF Taken(f, p, q) THEN "absent" ELSE f[q]
<1>1. Exists(f, p) <=> f[p] # "absent"
  BY NodesAre DEF Exists, Kind
<1>2. CASE ~(f[p] # "absent" /\ Children(f, p) = {})
  BY <1>1, <1>2 DEF remove
<1>3. CASE f[p] # "absent" /\ Children(f, p) = {}
  <2> DEFINE g == remove(f, p)
  <2>1. g = [q \in Paths |-> IF Taken(f, p, q) THEN "absent" ELSE f[q]]
    BY <1>1, <1>3 DEF remove, Taken
  <2>2. g \in [Paths -> Kinds]
    BY <2>1 DEF Tree, Kinds
  <2>3. \A q \in Paths : g[q] = IF Taken(f, p, q) THEN "absent" ELSE f[q]
    BY <2>1
  <2> HIDE DEF g
  <2>4. ASSUME NEW r \in Paths, NEW a \in Paths, g[r] # "absent", IsPrefix(a, r), a # r
        PROVE  g[a] = "dir"
    <3>1. ~Taken(f, p, r) /\ f[r] # "absent" /\ f[a] = "dir"
      BY <2>3, <2>4 DEF Tree
    <3>2. a # p
      BY <1>3, <2>4, <3>1, NoEntries
    <3>3. a \notin Emptied(f, p)
      <4> SUFFICES ASSUME a \in Emptied(f, p)
                   PROVE  FALSE
        OBVIOUS
      <4>1. IsPrefix(r, p) /\ r # p
        BY <2>4, <3>1 DEF Emptied, Below, Taken
      <4>2. r \in Above(p)
        BY <4>1, AboveIs
      <4>3. PICK q \in Below(r) : f[q] # "absent" /\ ~IsPrefix(q, p)
        BY <3>1, <4>2 DEF Taken, Emptied
      <4>4. q \in Below(a)
        BY <2>4, <4>3, PrefixOrder DEF Below, Nodes
      <4> QED
        BY <4>3, <4>4 DEF Emptied
    <3> QED
      BY <2>3, <3>1, <3>2, <3>3 DEF Taken
  <2>5. Tree(g)
    BY <2>2, <2>4 DEF Tree
  <2> QED
    BY <1>3, <2>3, <2>5 DEF g
<1> QED
  BY <1>2, <1>3

\* The nearest that is left above a path that is gone is a directory.
LEMMA ParentLeft ==
    ASSUME NEW f \in [Paths -> Kinds], NEW p \in Paths, f[p] = "absent",
           \A a \in Above(p) : f[a] \in {"absent", "dir"}
    PROVE  /\ lastExistingParent(f, p) \in Nodes
           /\ Kind(f, lastExistingParent(f, p)) = "dir"
<1> DEFINE there == {a \in Above(p) \cup {Root, p} : Exists(f, a)}
           depths == {n \in Nat : \E a \in there : n = Depth - Len(a)}
           last == CHOOSE a \in there : \A b \in there : Len(b) <= Len(a)
<1>1. there \subseteq Nodes /\ Root \in there
  BY AboveIs, NodesAre DEF Nodes, Exists, Kind
<1>2. \A a \in there : Len(a) \in Nat /\ Depth - Len(a) \in Nat
  <2> SUFFICES ASSUME NEW a \in Nodes
               PROVE  Len(a) \in Nat /\ Depth - Len(a) \in Nat
    BY <1>1
  <2>1. Len(a) \in Nat /\ Len(a) <= Depth /\ Depth \in Nat
    BY NodesAre, DepthAssumption
  <2> QED
    BY <2>1
<1>3. depths \in SUBSET Nat /\ depths # {}
  BY <1>1, <1>2
<1>4. PICK m \in depths : \A n \in depths : m <= n
  <2> HIDE DEF depths
  <2> QED
    BY <1>3, LeastNatural
<1>5. PICK c \in there : m = Depth - Len(c)
  BY <1>4
<1>6. \A b \in there : Len(b) <= Len(c)
  <2> SUFFICES ASSUME NEW b \in there
               PROVE  Len(b) <= Len(c)
    OBVIOUS
  <2>1. Depth - Len(b) \in depths
    BY <1>2
  <2>2. Depth - Len(c) <= Depth - Len(b) /\ Len(b) \in Nat /\ Len(c) \in Nat /\ Depth \in Nat
    BY <1>2, <1>4, <1>5, <2>1, DepthAssumption
  <2> QED
    BY <2>2
<1>7. last \in there
  <2> HIDE DEF there
  <2> QED
    BY <1>5, <1>6
<1>8. lastExistingParent(f, p) = last
  BY DEF lastExistingParent
<1> HIDE DEF last
<1>9. last \in Nodes /\ last # p /\ Exists(f, last)
  BY <1>1, <1>7, NodesAre DEF Exists, Kind
<1>10. last = Root \/ last \in Above(p)
  BY <1>7, <1>9
<1> QED
  BY <1>8, <1>9, <1>10, NodesAre DEF Exists, Kind

\* A file that is created where it may be leaves a tree, and every file its content.
LEMMA MadeKeepsTree ==
    ASSUME Tree(fs), NEW p \in Paths, CanOpen(p)
    PROVE  /\ Tree(Made(p)) /\ Made(p)[p] # "absent"
           /\ Made(p)[p] = IF fs[p] = "absent" THEN "empty" ELSE fs[p]
           /\ \A q \in Above(p) : Made(p)[q] = "dir"
           /\ \A q \in Paths : q \notin Above(p) /\ q # p => Made(p)[q] = fs[q]
           /\ \A q \in Paths : fs[q] \in Contents => Made(p)[q] = fs[q]
<1> DEFINE g == Made(p)
<1>1. p \notin Above(p) /\ Above(p) \subseteq Paths
  BY AboveIs
<1>2. g = [q \in Paths |-> IF q \in Above(p) THEN "dir"
                           ELSE IF q = p /\ fs[p] = "absent" THEN "empty" ELSE fs[q]]
  BY DEF Made
<1>3. fs \in [Paths -> Kinds] /\ "dir" \in Kinds /\ "empty" \in Kinds
  BY DEF Tree, Kinds, Contents
<1>4. g \in [Paths -> Kinds]
  BY <1>2, <1>3
<1>5. \A q \in Paths : g[q] = IF q \in Above(p) THEN "dir"
                              ELSE IF q = p /\ fs[p] = "absent" THEN "empty" ELSE fs[q]
  BY <1>2
<1> HIDE DEF g
<1>6. g[p] # "absent"
  BY <1>1, <1>5
<1>7. \A q \in Paths : fs[q] \in Contents => g[q] = fs[q]
  BY <1>5 DEF CanOpen, Contents
<1>8. ASSUME NEW r \in Paths, NEW a \in Paths, g[r] # "absent", IsPrefix(a, r), a # r
      PROVE  g[a] = "dir"
  <2>1. CASE r \in Above(p) \/ r = p
    <3>1. a \in Above(p)
      BY <1>8, <2>1, AboveIs, PrefixOrder DEF Nodes
    <3> QED
      BY <1>5, <3>1
  <2>2. CASE ~(r \in Above(p) \/ r = p)
    <3>1. fs[r] # "absent"
      BY <1>5, <1>8, <2>2
    <3>2. fs[a] = "dir"
      BY <1>8, <3>1 DEF Tree
    <3> QED
      BY <1>5, <3>2
  <2> QED
    BY <2>1, <2>2
<1>9. Tree(g)
  BY <1>4, <1>8 DEF Tree
<1> QED
  BY <1>1, <1>5, <1>6, <1>7, <1>9 DEF g

\* To write a file changes no tree.
LEMMA WrittenKeepsTree ==
    ASSUME NEW f, Tree(f), NEW p \in Paths, f[p] \in Contents, NEW content \in Contents
    PROVE  Tree([f EXCEPT ![p] = content])
<1> DEFINE g == [f EXCEPT ![p] = content]
<1>1. g \in [Paths -> Kinds] /\ \A q \in Paths : g[q] = IF q = p THEN content ELSE f[q]
  BY DEF Tree, Kinds
<1>2. f[p] # "absent" /\ f[p] # "dir" /\ content # "absent"
  BY DEF Contents
<1> HIDE DEF g
<1>3. ASSUME NEW r \in Paths, NEW a \in Paths, g[r] # "absent", IsPrefix(a, r), a # r
      PROVE  g[a] = "dir"
  <2>1. f[r] # "absent"
    BY <1>1, <1>2, <1>3
  <2>2. f[a] = "dir"
    BY <1>3, <2>1 DEF Tree
  <2> QED
    BY <1>1, <1>2, <2>2
<1>4. Tree(g)
  BY <1>1, <1>3 DEF Tree
<1> QED
  BY <1>4 DEF g

LEMMA FolderKeepsTree ==
    ASSUME NEW f, Tree(f), NEW p \in Paths, Kind(f, Front(p)) = "dir", f[p] = "absent"
    PROVE  /\ Tree([f EXCEPT ![p] = "dir"])
           /\ \A q \in Paths : f[q] # "absent" => [f EXCEPT ![p] = "dir"][q] = f[q]
           /\ Kind([f EXCEPT ![p] = "dir"], Front(p)) = "dir"
<1> DEFINE g == [f EXCEPT ![p] = "dir"]
<1>1. g \in [Paths -> Kinds] /\ \A q \in Paths : g[q] = IF q = p THEN "dir" ELSE f[q]
  BY DEF Tree, Kinds
<1> HIDE DEF g
<1>2. Front(p) = Root \/ (Front(p) \in Paths /\ f[Front(p)] = "dir")
  BY FrontIs, AboveIs DEF Kind
<1>3. ASSUME NEW r \in Paths, NEW a \in Paths, g[r] # "absent", IsPrefix(a, r), a # r
      PROVE  g[a] = "dir"
  <2>1. CASE r = p
    <3>1. IsPrefix(a, Front(p)) /\ a \in Nodes /\ Front(p) \in Nodes /\ a # Root
      BY <1>3, <2>1, FrontIs, NodesAre
    <3>2. Front(p) # Root
      BY <3>1, PrefixOrder
    <3>3. f[a] = "dir"
      BY <1>2, <3>1, <3>2 DEF Tree
    <3> QED
      BY <1>1, <3>3
  <2>2. CASE r # p
    BY <1>1, <1>3, <2>2 DEF Tree
  <2> QED
    BY <2>1, <2>2
<1>4. Tree(g)
  BY <1>1, <1>3 DEF Tree
<1>5. Kind(g, Front(p)) = "dir"
  BY <1>1, <1>2 DEF Kind
<1>6. \A q \in Paths : f[q] # "absent" => g[q] = f[q]
  BY <1>1
<1> QED
  BY <1>4, <1>5, <1>6 DEF g

\* The path from which what is below q has come.
Source(p, q, r) == p \o SubSeq(r, Len(q) + 1, Len(r))

LEMMA SourceIs ==
    ASSUME NEW p \in Paths, NEW q \in Paths, NEW r \in Paths, IsPrefix(q, r)
    PROVE  /\ Source(p, q, r) \in Seq(Names) /\ Len(Source(p, q, r)) = Len(p) + (Len(r) - Len(q))
           /\ \A i \in 1 .. Len(p) : Source(p, q, r)[i] = p[i]
           /\ \A i \in 1 .. Len(r) - Len(q) : Source(p, q, r)[Len(p) + i] = r[Len(q) + i]
<1> DEFINE t == SubSeq(r, Len(q) + 1, Len(r))
           n == Len(r) - Len(q)
<1>1. p \in Seq(Names) /\ q \in Nodes /\ r \in Nodes /\ r \in Seq(Names) /\ Len(p) \in Nat /\ Len(q) \in Nat /\ Len(r) \in Nat
  BY NodesAre
<1>2. Len(q) <= Len(r)
  BY <1>1, PrefixOrder
<1>3. n \in Nat /\ Len(r) = Len(q) + n
  BY <1>1, <1>2
<1>4. t \in Seq(Names) /\ Len(t) = n /\ \A i \in 1 .. n : t[i] = r[Len(q) + i]
  <2>1. Len(q) + 1 \in Int /\ Len(r) \in Int
    BY <1>1
  <2>2. \A i \in Len(q) + 1 .. Len(r) : r[i] \in Names
    BY <1>1
  <2>3. /\ t \in Seq(Names)
        /\ Len(t) = IF Len(q) + 1 <= Len(r) THEN Len(r) - (Len(q) + 1) + 1 ELSE 0
        /\ \A i \in 1 .. Len(r) - (Len(q) + 1) + 1 : t[i] = r[(Len(q) + 1) + i - 1]
    BY <2>1, <2>2, SubSeqProperties
  <2> HIDE DEF t
  <2>4. Len(t) = n
    BY <1>1, <1>2, <2>3
  <2>5. \A i \in 1 .. n : i \in 1 .. Len(r) - (Len(q) + 1) + 1 /\ (Len(q) + 1) + i - 1 = Len(q) + i
    BY <1>1, <1>3
  <2>6. \A i \in 1 .. n : t[i] = r[Len(q) + i]
    BY <2>3, <2>5
  <2> QED
    BY <2>3, <2>4, <2>6
<1> HIDE DEF t, n
<1>5. /\ p \o t \in Seq(Names) /\ Len(p \o t) = Len(p) + n
      /\ \A i \in 1 .. Len(p) : (p \o t)[i] = p[i]
      /\ \A i \in 1 .. n : (p \o t)[Len(p) + i] = t[i]
  BY <1>1, <1>3, <1>4
<1>6. Source(p, q, r) = p \o t
  BY DEF Source, t
<1>7. \A i \in 1 .. n : Source(p, q, r)[Len(p) + i] = r[Len(q) + i]
  BY <1>4, <1>5, <1>6
<1> QED
  BY <1>5, <1>6, <1>7 DEF n

\* Sources are above each other as their paths are.
LEMMA SourceOrder ==
    ASSUME NEW p \in Paths, NEW q \in Paths, NEW r \in Paths, NEW a \in Paths,
           IsPrefix(q, a), IsPrefix(a, r), a # r, Source(p, q, r) \in Paths
    PROVE  /\ Source(p, q, a) \in Paths /\ Source(p, q, a) # Source(p, q, r)
           /\ IsPrefix(Source(p, q, a), Source(p, q, r))
<1> DEFINE sa == Source(p, q, a)
           sr == Source(p, q, r)
           k == Len(a) - Len(q)
           n == Len(r) - Len(q)
           l == Len(p)
           m == Len(q)
<1>1. p \in Nodes /\ q \in Nodes /\ r \in Nodes /\ a \in Nodes /\ IsPrefix(q, r)
  BY NodesAre, PrefixOrder
<1>2. /\ l \in Nat /\ l >= 1 /\ m \in Nat /\ Len(r) \in Nat /\ Len(a) \in Nat
      /\ m <= Len(a) /\ Len(a) <= Len(r) /\ Len(a) # Len(r)
  BY <1>1, NodesAre, PrefixOrder
<1>3. /\ sa \in Seq(Names) /\ Len(sa) = l + k
      /\ \A i \in 1 .. l : sa[i] = p[i]
      /\ \A i \in 1 .. k : sa[l + i] = a[m + i]
  BY SourceIs
<1>4. /\ sr \in Seq(Names) /\ Len(sr) = l + n
      /\ \A i \in 1 .. l : sr[i] = p[i]
      /\ \A i \in 1 .. n : sr[l + i] = r[m + i]
  BY <1>1, SourceIs
<1>5. \A i \in 1 .. Len(a) : a[i] = r[i]
  BY <1>1, PrefixIs
<1>6. k \in Nat /\ n \in Nat /\ k < n /\ m + k = Len(a) /\ m + n = Len(r)
  BY <1>2
<1>7. sr \in Nodes /\ Len(sr) <= Depth /\ Depth \in Nat
  BY NodesAre, DepthAssumption
<1> HIDE DEF sa, sr, k, n, l, m
<1>8. sa \in Paths
  <2>1. Len(sa) \in Nat /\ Len(sa) <= Len(sr) /\ Len(sr) \in Nat /\ Len(sa) # 0
    BY <1>2, <1>3, <1>4, <1>6
  <2>2. Len(sa) <= Depth
    BY <1>7, <2>1
  <2>3. sa # Root
    BY <2>1, NodesAre
  <2> QED
    BY <1>3, <2>2, <2>3, NodesAre
<1>9. Len(sa) < Len(sr) /\ Len(sa) <= Len(sr)
  BY <1>2, <1>3, <1>4, <1>6
<1>10. \A i \in 1 .. Len(sa) : sa[i] = sr[i]
  <2> SUFFICES ASSUME NEW i \in 1 .. Len(sa)
               PROVE  sa[i] = sr[i]
    OBVIOUS
  <2>1. CASE i <= l
    BY <1>2, <1>3, <1>4, <2>1
  <2>2. CASE ~(i <= l)
    <3>1. PICK j \in 1 .. k : i = l + j
      <4>1. i - l \in 1 .. k /\ i = l + (i - l)
        BY <1>2, <1>3, <1>6, <2>2
      <4> QED
        BY <4>1
    <3>2. j \in 1 .. n /\ m + j \in 1 .. Len(a)
      BY <1>2, <1>6
    <3>3. sa[l + j] = a[m + j] /\ sr[l + j] = r[m + j] /\ a[m + j] = r[m + j]
      BY <1>3, <1>4, <1>5, <3>2
    <3> QED
      BY <3>1, <3>3
  <2> QED
    BY <2>1, <2>2
<1>11. sa # sr
  BY <1>9, <1>3, <1>4
<1>12. IsPrefix(sa, sr)
  BY <1>7, <1>8, <1>9, <1>10, PrefixIs, NodesAre
<1> QED
  BY <1>8, <1>11, <1>12 DEF sa, sr

\* A renaming leaves a tree, and alone what it does not move.
LEMMA MovedKeepsTree ==
    ASSUME Tree(fs), NEW p \in Paths, NEW q \in Paths, ~IsPrefix(p, q), fs[p] # "absent",
           fs[q] = "absent", Kind(fs, Front(q)) = "dir"
    PROVE  /\ Tree(Moved(p, q))
           /\ Moved(p, q)[p] = "absent"
           /\ \A r \in Paths : ~IsPrefix(q, r) /\ ~IsPrefix(p, r) => Moved(p, q)[r] = fs[r]
           /\ \A r \in Paths : IsPrefix(q, r) => fs[r] = "absent"
           /\ \A r \in Paths : IsPrefix(p, r) /\ ~IsPrefix(q, r) => Moved(p, q)[r] = "absent"
<1> DEFINE g == Moved(p, q)
<1>1. g = [r \in Paths |->
             IF IsPrefix(q, r)
               THEN IF Source(p, q, r) \in Paths THEN fs[Source(p, q, r)] ELSE "absent"
             ELSE IF IsPrefix(p, r) THEN "absent" ELSE fs[r]]
  BY DEF Moved, Source
<1>2. g \in [Paths -> Kinds]
  BY <1>1 DEF Tree, Kinds
<1>3. \A r \in Paths :
         g[r] = IF IsPrefix(q, r)
                  THEN IF Source(p, q, r) \in Paths THEN fs[Source(p, q, r)] ELSE "absent"
                ELSE IF IsPrefix(p, r) THEN "absent" ELSE fs[r]
  BY <1>1
<1> HIDE DEF g
<1>4. \A r \in Paths : IsPrefix(q, r) => fs[r] = "absent"
  BY DEF Tree
<1>5. \A a \in Paths : IsPrefix(a, q) /\ a # q => fs[a] = "dir"
  <2> SUFFICES ASSUME NEW a \in Paths, IsPrefix(a, q), a # q
               PROVE  fs[a] = "dir"
    OBVIOUS
  <2>1. IsPrefix(a, Front(q)) /\ Front(q) \in Nodes /\ a \in Nodes /\ a # Root
    BY FrontIs, NodesAre
  <2>2. Front(q) # Root
    BY <2>1, PrefixOrder
  <2>3. Front(q) \in Paths /\ fs[Front(q)] = "dir"
    BY <2>1, <2>2, NodesAre DEF Kind
  <2> QED
    BY <2>1, <2>3 DEF Tree
<1>6. p \in Nodes /\ q \in Nodes /\ IsPrefix(p, p) /\ ~IsPrefix(q, p)
  BY <1>4, NodesAre, PrefixOrder
<1>7. ASSUME NEW r \in Paths, NEW a \in Paths, g[r] # "absent", IsPrefix(a, r), a # r
      PROVE  g[a] = "dir"
  <2>0. a \in Nodes /\ r \in Nodes
    BY NodesAre
  <2>1. CASE IsPrefix(q, r)
    <3>1. Source(p, q, r) \in Paths /\ fs[Source(p, q, r)] # "absent"
      BY <1>3, <1>7, <2>1
    <3>2. CASE IsPrefix(q, a)
      <4>1. /\ Source(p, q, a) \in Paths /\ Source(p, q, a) # Source(p, q, r)
            /\ IsPrefix(Source(p, q, a), Source(p, q, r))
        BY <1>7, <3>1, <3>2, SourceOrder
      <4>2. fs[Source(p, q, a)] = "dir"
        BY <3>1, <4>1 DEF Tree
      <4> QED
        BY <1>3, <3>2, <4>1, <4>2
    <3>3. CASE ~IsPrefix(q, a)
      <4>1. IsPrefix(a, q) /\ a # q
        BY <1>6, <1>7, <2>0, <2>1, <3>3, PrefixOrder
      <4>2. ~IsPrefix(p, a)
        BY <1>6, <2>0, <4>1, PrefixOrder
      <4> QED
        BY <1>3, <1>5, <3>3, <4>1, <4>2
    <3> QED
      BY <3>2, <3>3
  <2>2. CASE ~IsPrefix(q, r)
    <3>1. ~IsPrefix(p, r) /\ fs[r] # "absent"
      BY <1>3, <1>7, <2>2
    <3>2. ~IsPrefix(q, a) /\ ~IsPrefix(p, a)
      BY <1>6, <1>7, <2>0, <2>2, <3>1, PrefixOrder
    <3>3. fs[a] = "dir"
      BY <1>7, <3>1 DEF Tree
    <3> QED
      BY <1>3, <3>2, <3>3
  <2> QED
    BY <2>1, <2>2
<1>8. Tree(g)
  BY <1>2, <1>7 DEF Tree
<1> QED
  BY <1>3, <1>4, <1>6, <1>8 DEF g

-----------------------------------------------------------------------------
(* What a delete takes *)

\* What is kept of the directories above p has something else in it.
Keeps(f, p, q) ==
    /\ f[q] # "absent" /\ ~IsPrefix(p, q)
    /\ q \in Above(p) =>
          \E r \in Paths : IsPrefix(q, r) /\ f[r] # "absent" /\ ~IsPrefix(p, r) /\ r \notin Above(p)

LEMMA LeftIs ==
    ASSUME NEW f \in [Paths -> Kinds], NEW p \in Paths
    PROVE  /\ Left(f, p) \in [Paths -> Kinds]
           /\ \A q \in Paths : Left(f, p)[q] = IF Keeps(f, p, q) THEN f[q] ELSE "absent"
<1> DEFINE left == {q \in Paths : f[q] # "absent" /\ ~IsPrefix(p, q)}
           kept == {q \in left : q \in Above(p) => Below(q) \cap (left \ Above(p)) # {}}
<1>1. Left(f, p) = [q \in Paths |-> IF q \in kept THEN f[q] ELSE "absent"]
  BY DEF Left
<1>2. \A q \in Paths : q \in kept <=> Keeps(f, p, q)
  BY DEF Keeps, Below
<1> HIDE DEF kept
<1> QED
  BY <1>1, <1>2 DEF Kinds

\* How far the delete of path t has come: f is what it has left of b.
Progress(f, b, t) ==
    /\ \A q \in Paths : ~IsPrefix(t, q) /\ q \notin Above(t) => f[q] = b[q]
    /\ \A q \in Paths : IsPrefix(t, q) => f[q] \in {"absent", b[q]}
    /\ \/ f[t] = b[t] /\ \A q \in Above(t) : f[q] = b[q]
       \/ f = Left(b, t)

LEMMA EntryDeleted ==
    ASSUME NEW f, Tree(f), NEW b, Tree(b), NEW t \in Paths, b[t] # "absent", Progress(f, b, t),
           NEW p \in Paths, IsPrefix(t, p), Children(f, p) = {}
    PROVE  Progress(remove(f, p), b, t) /\ (p = t => remove(f, p) = Left(b, t))
<1> DEFINE g == remove(f, p)
           end == Left(b, t)
<1>1. t \in Nodes /\ p \in Nodes /\ Paths \subseteq Nodes /\ IsPrefix(t, t) /\ Above(t) \subseteq Paths
  BY NodesAre, PrefixOrder, AboveIs
<1>2. /\ end \in [Paths -> Kinds]
      /\ \A q \in Paths : end[q] = IF Keeps(b, t, q) THEN b[q] ELSE "absent"
  BY LeftIs DEF Tree
<1>3. end[t] = "absent"
  BY <1>1, <1>2 DEF Keeps
<1>4. /\ Tree(g)
      /\ ~(f[p] # "absent" /\ Children(f, p) = {}) => g = f
      /\ f[p] # "absent" /\ Children(f, p) = {} =>
            \A q \in Paths : g[q] = IF Taken(f, p, q) THEN "absent" ELSE f[q]
  BY RemovalKeepsTree
<1> HIDE DEF g, end
<1>5. CASE f[p] = "absent"
  <2>1. g = f
    BY <1>4, <1>5
  <2>2. p = t => f = end
    BY <1>5 DEF Progress, end
  <2> QED
    BY <2>1, <2>2 DEF g, end
<1>6. CASE f[p] # "absent"
  <2>1. \A q \in Paths : g[q] = IF Taken(f, p, q) THEN "absent" ELSE f[q]
    BY <1>4, <1>6
  <2>2. f[t] # "absent"
    BY <1>6 DEF Tree
  <2>3. f[t] = b[t] /\ \A q \in Above(t) : f[q] = b[q]
    BY <1>3, <2>2 DEF Progress, end
  <2>4. \A q \in Paths : Taken(f, p, q) => IsPrefix(q, p)
    BY <1>1, AboveIs, PrefixOrder DEF Taken, Emptied
  <2>5. \A q \in Paths : IsPrefix(q, p) => IsPrefix(t, q) \/ q \in Above(t)
    BY <1>1, AboveIs, PrefixOrder
  <2>6. \A q \in Paths : ~IsPrefix(t, q) /\ q \notin Above(t) => g[q] = b[q]
    BY <2>1, <2>4, <2>5 DEF Progress
  <2>7. \A q \in Paths : IsPrefix(t, q) => g[q] \in {"absent", b[q]}
    BY <2>1 DEF Progress
  <2>8. CASE ~Taken(f, p, t)
    <3>1. p # t
      BY <2>8 DEF Taken
    <3>2. ASSUME NEW q \in Above(t), Taken(f, p, q)
          PROVE  FALSE
      <4>1. q \in Paths /\ IsPrefix(q, t) /\ q # t
        BY <3>2, AboveIs
      <4>2. q # p
        BY <1>1, <4>1, PrefixOrder
      <4>3. \A r \in Below(q) : f[r] # "absent" => IsPrefix(r, p)
        BY <3>2, <4>2 DEF Taken, Emptied
      <4>4. \A r \in Below(t) : r \in Below(q)
        BY <1>1, <4>1, PrefixOrder DEF Below
      <4>5. t \in Above(p)
        BY <3>1, AboveIs
      <4> QED
        BY <2>8, <4>3, <4>4, <4>5 DEF Taken, Emptied
    <3>3. g[t] = b[t] /\ \A q \in Above(t) : g[q] = b[q]
      BY <1>1, <2>1, <2>3, <2>8, <3>2
    <3> QED
      BY <2>6, <2>7, <3>1, <3>3 DEF Progress, g
  <2>9. CASE Taken(f, p, t)
    <3>1. \A r \in Paths : IsPrefix(t, r) /\ f[r] # "absent" => IsPrefix(r, p)
      <4>1. CASE t = p
        BY <1>1, <4>1, NoEntries
      <4>2. CASE t # p
        BY <2>9, <4>2 DEF Taken, Emptied, Below
      <4> QED
        BY <4>1, <4>2
    <3>2. ASSUME NEW q \in Paths, IsPrefix(t, q)
          PROVE  g[q] = end[q]
      <4>1. end[q] = "absent"
        BY <1>2, <3>2 DEF Keeps
      <4>2. ASSUME f[q] # "absent", q # p
            PROVE  Taken(f, p, q)
        <5>1. q \in Above(p)
          BY <3>1, <3>2, <4>2, AboveIs
        <5>2. \A r \in Below(q) : f[r] # "absent" => IsPrefix(r, p)
          BY <1>1, <3>1, <3>2, PrefixOrder DEF Below
        <5> QED
          BY <5>1, <5>2 DEF Taken, Emptied
      <4>3. g[q] = "absent"
        BY <2>1, <4>2 DEF Taken
      <4> QED
        BY <4>1, <4>3
    <3>3. ASSUME NEW q \in Above(t)
          PROVE  g[q] = end[q]
      <4>1. q \in Paths /\ IsPrefix(q, t) /\ q # t /\ ~IsPrefix(t, q)
        BY <1>1, AboveIs, PrefixOrder
      <4>2. f[q] = b[q] /\ b[q] # "absent"
        BY <2>2, <2>3, <4>1 DEF Tree
      <4>3. q \in Above(p)
        BY <1>1, <4>1, AboveIs, PrefixOrder
      <4>4. ASSUME Taken(f, p, q)
            PROVE  ~Keeps(b, t, q)
        <5> SUFFICES ASSUME NEW r \in Paths, IsPrefix(q, r), b[r] # "absent",
                            ~IsPrefix(t, r), r \notin Above(t)
                     PROVE  FALSE
          BY DEF Keeps
        <5>1. f[r] # "absent"
          BY DEF Progress
        <5>2. q # p
          BY <4>1
        <5>3. IsPrefix(r, p)
          BY <4>4, <5>1, <5>2 DEF Taken, Emptied, Below
        <5> QED
          BY <2>5, <5>3
      <4>5. ASSUME ~Taken(f, p, q)
            PROVE  Keeps(b, t, q)
        <5>1. PICK r \in Below(q) : f[r] # "absent" /\ ~IsPrefix(r, p)
          BY <4>3, <4>5 DEF Taken, Emptied
        <5>2. r \in Paths /\ IsPrefix(q, r) /\ ~IsPrefix(t, r)
          BY <3>1, <5>1 DEF Below
        <5>3. r \notin Above(t)
          BY <1>1, <5>1, <5>2, AboveIs, PrefixOrder
        <5>4. b[r] # "absent"
          BY <5>1, <5>2, <5>3 DEF Progress
        <5> QED
          BY <4>1, <4>2, <5>2, <5>3, <5>4 DEF Keeps
      <4> QED
        BY <1>2, <2>1, <4>1, <4>2, <4>4, <4>5
    <3>4. ASSUME NEW q \in Paths, ~IsPrefix(t, q), q \notin Above(t)
          PROVE  g[q] = end[q]
      BY <1>2, <2>6, <3>4 DEF Keeps
    <3>5. \A q \in Paths : g[q] = end[q]
      BY <3>2, <3>3, <3>4
    <3>6. g = end
      BY <1>2, <1>4, <3>5 DEF Tree
    <3> QED
      BY <2>6, <2>7, <3>6 DEF Progress, g, end
  <2> QED
    BY <2>8, <2>9
<1> QED
  BY <1>5, <1>6

-----------------------------------------------------------------------------
(* The inductive invariant *)

Types ==
    /\ uploadFile \in Handles /\ uploading \in BOOLEAN /\ aborted \in BOOLEAN
    /\ reply \in Nodes \cup {Bad} /\ target \in Nodes /\ at \in Nodes
    /\ before \in [Paths -> Kinds]

\* The handle of a file has its path only as long as the file is there.
FileOpen ==
    uploadFile.kind = "file" =>
        /\ uploadFile.path \in Paths /\ fs[uploadFile.path] \in Contents
        /\ uploading \/ aborted

\* A request that has its work ahead has no reply; one works at a time.
OneRequest == uploading => reply = Bad /\ target = Root

DeleteAtWork ==
    target # Root =>
        /\ reply = Bad /\ at \in Paths /\ IsPrefix(target, at)
        /\ Tree(before) /\ before[target] # "absent" /\ Progress(fs, before, target)

Inv == Tree(fs) /\ Types /\ FileOpen /\ OneRequest /\ ReplyIsDirectory /\ DeleteAtWork

\* What DeleteIsExact and OnlyUploadsWrite say of a step.
ExactStep ==
    target # Root =>
          /\ fs' = Left(before, target)
                \/ \A q \in Paths : fs'[q] = before[q] \/ (fs'[q] = "absent" /\ IsPrefix(target, q))
          /\ target' # target /\ reply' # Bad => fs' = Left(before, target)

WriteStep ==
    \A p \in Paths :
          fs[p] \in Contents /\ fs'[p] \in Contents /\ fs'[p] # fs[p] =>
              uploadFile.path = p /\ (uploading \/ aborted)

LEMMA ProgressIsExact ==
    ASSUME NEW f, NEW b, NEW t, Progress(f, b, t)
    PROVE  f = Left(b, t)
              \/ \A q \in Paths : f[q] = b[q] \/ (f[q] = "absent" /\ IsPrefix(t, q))
BY DEF Progress

LEMMA OrphanedIs ==
    ASSUME uploadFile \in Handles, NEW ps
    PROVE  /\ Orphaned(ps) \in Handles
           /\ Orphaned(ps).kind = "file" => Orphaned(ps) = uploadFile /\ uploadFile.path \notin ps
BY DEF Orphaned, Handles

LEMMA ClosedKeepsTree ==
    ASSUME NEW f, Tree(f), NEW content \in Contents,
           uploadFile.kind = "file" => uploadFile.path \in Paths /\ f[uploadFile.path] \in Contents
    PROVE  /\ Tree(Closed(f, content))
           /\ \A q \in Paths :
                 Closed(f, content)[q] = IF uploadFile.kind = "file" /\ q = uploadFile.path
                                           THEN content ELSE f[q]
<1>1. CASE uploadFile.kind = "file"
  <2>1. Closed(f, content) = [f EXCEPT ![uploadFile.path] = content]
    BY <1>1 DEF Closed
  <2>2. f \in [Paths -> Kinds]
    BY DEF Tree
  <2>3. Tree([f EXCEPT ![uploadFile.path] = content])
    BY <1>1, WrittenKeepsTree
  <2> QED
    BY <1>1, <2>1, <2>2, <2>3
<1>2. CASE uploadFile.kind # "file"
  BY <1>2 DEF Closed
<1> QED
  BY <1>1, <1>2

-----------------------------------------------------------------------------
(* The steps *)

LEMMA CreateFolderStep ==
    ASSUME Inv, NEW p \in Paths, CreateFolder(p)
    PROVE  Inv' /\ ExactStep /\ WriteStep
<1>1. /\ target = Root /\ uploading = FALSE
      /\ uploadFile' = uploadFile /\ uploading' = uploading /\ aborted' = aborted
      /\ target' = target /\ at' = at /\ before' = before
  BY DEF CreateFolder, Quiet, delvars, Inv, Types
<1>2. Tree(fs) /\ Types /\ FileOpen
  BY DEF Inv
<1>3. CASE ~Exists(fs, p) /\ Kind(fs, Front(p)) = "dir"
  <2>1. fs' = [fs EXCEPT ![p] = "dir"] /\ reply' = Front(p) /\ Front(p) \in Nodes
    BY <1>3, FrontIs DEF CreateFolder
  <2>2. fs[p] = "absent"
    BY <1>3, NodesAre DEF Exists, Kind
  <2>3. /\ Tree(fs') /\ Kind(fs', reply') = "dir"
        /\ \A q \in Paths : fs[q] # "absent" => fs'[q] = fs[q]
    BY <1>2, <1>3, <2>1, <2>2, FolderKeepsTree
  <2>4. \A q \in Paths : fs[q] \in Contents => fs'[q] = fs[q]
    BY <2>3 DEF Contents
  <2>5. FileOpen'
    BY <1>1, <1>2, <2>4 DEF FileOpen
  <2> QED
    BY <1>1, <1>2, <2>1, <2>3, <2>4, <2>5
    DEF Inv, Types, OneRequest, ReplyIsDirectory, DeleteAtWork, ExactStep, WriteStep
<1>4. CASE ~(~Exists(fs, p) /\ Kind(fs, Front(p)) = "dir")
  <2>1. fs' = fs /\ reply' = Bad
    BY <1>4 DEF CreateFolder
  <2> QED
    BY <1>1, <1>2, <2>1
    DEF Inv, Types, FileOpen, OneRequest, ReplyIsDirectory, DeleteAtWork, ExactStep, WriteStep
<1> QED
  BY <1>3, <1>4

LEMMA CreateFileStep ==
    ASSUME Inv, NEW p \in Paths, CreateFile(p)
    PROVE  Inv' /\ ExactStep /\ WriteStep
<1>1. /\ target = Root /\ uploading = FALSE
      /\ uploadFile' = uploadFile /\ uploading' = uploading /\ aborted' = aborted
      /\ target' = target /\ at' = at /\ before' = before
  BY DEF CreateFile, Quiet, delvars, Inv, Types
<1>2. Tree(fs) /\ Types /\ FileOpen
  BY DEF Inv
<1>3. CASE ~Exists(fs, p) /\ CanOpen(p)
  <2>1. fs' = Made(p) /\ reply' = Front(p) /\ Front(p) \in Nodes
    BY <1>3, FrontIs DEF CreateFile
  <2>2. /\ Tree(fs') /\ \A q \in Above(p) : fs'[q] = "dir"
        /\ \A q \in Paths : fs[q] \in Contents => fs'[q] = fs[q]
    BY <1>2, <1>3, <2>1, MadeKeepsTree
  <2>3. Kind(fs', reply') = "dir"
    BY <2>1, <2>2, FrontIs DEF Kind
  <2>4. FileOpen'
    BY <1>1, <1>2, <2>2 DEF FileOpen
  <2> QED
    BY <1>1, <1>2, <2>1, <2>2, <2>3, <2>4
    DEF Inv, Types, OneRequest, ReplyIsDirectory, DeleteAtWork, ExactStep, WriteStep
<1>4. CASE ~(~Exists(fs, p) /\ CanOpen(p))
  <2>1. fs' = fs /\ reply' = Bad
    BY <1>4 DEF CreateFile
  <2> QED
    BY <1>1, <1>2, <2>1
    DEF Inv, Types, FileOpen, OneRequest, ReplyIsDirectory, DeleteAtWork, ExactStep, WriteStep
<1> QED
  BY <1>3, <1>4

LEMMA RenameStep ==
    ASSUME Inv, NEW p \in Paths, NEW q \in Paths, Rename(p, q)
    PROVE  Inv' /\ ExactStep /\ WriteStep
<1>1. /\ target = Root /\ uploading = FALSE /\ ~IsPrefix(p, q)
      /\ uploading' = uploading /\ aborted' = aborted
      /\ target' = target /\ at' = at /\ before' = before
  BY DEF Rename, Quiet, delvars, Inv, Types
<1>2. Tree(fs) /\ Types /\ FileOpen
  BY DEF Inv
<1>3. CASE Exists(fs, p) /\ ~Exists(fs, q) /\ Kind(fs, Front(q)) = "dir"
  <2>1. /\ fs' = Moved(p, q) /\ uploadFile' = Orphaned(Below(p))
        /\ reply' = lastExistingParent(fs', p)
    BY <1>3 DEF Rename
  <2>2. fs[p] # "absent" /\ fs[q] = "absent"
    BY <1>3, NodesAre DEF Exists, Kind
  <2>3. /\ Tree(fs') /\ fs'[p] = "absent"
        /\ \A r \in Paths : ~IsPrefix(q, r) /\ ~IsPrefix(p, r) => fs'[r] = fs[r]
        /\ \A r \in Paths : IsPrefix(q, r) => fs[r] = "absent"
        /\ \A r \in Paths : IsPrefix(p, r) /\ ~IsPrefix(q, r) => fs'[r] = "absent"
    BY <1>1, <1>2, <1>3, <2>1, <2>2, MovedKeepsTree
  <2>4. ASSUME NEW a \in Above(p)
        PROVE  fs'[a] = "dir"
    <3>1. a \in Paths /\ IsPrefix(a, p) /\ a # p
      BY AboveIs
    <3>2. fs[a] = "dir"
      BY <1>2, <2>2, <3>1 DEF Tree
    <3>3. ~IsPrefix(q, a) /\ ~IsPrefix(p, a)
      BY <2>3, <3>1, <3>2, NodesAre, PrefixOrder
    <3> QED
      BY <2>3, <3>1, <3>2, <3>3
  <2>5. reply' \in Nodes /\ Kind(fs', reply') = "dir"
    <3>1. fs' \in [Paths -> Kinds]
      BY <2>3 DEF Tree
    <3> QED
      BY <2>1, <2>3, <2>4, <3>1, ParentLeft
  <2>6. \A r \in Paths : fs[r] \in Contents =>
           ~IsPrefix(q, r) /\ (~IsPrefix(p, r) => fs'[r] = fs[r]) /\ fs'[r] \in {fs[r], "absent"}
    BY <2>3 DEF Contents
  <2>7. /\ uploadFile' \in Handles
        /\ uploadFile'.kind = "file" => uploadFile' = uploadFile /\ uploadFile.path \notin Below(p)
    BY <1>2, <2>1, OrphanedIs DEF Types
  <2>8. FileOpen'
    BY <1>1, <1>2, <2>6, <2>7 DEF FileOpen, Below
  <2>9. WriteStep
    BY <2>6 DEF WriteStep, Contents
  <2> QED
    BY <1>1, <1>2, <2>3, <2>5, <2>7, <2>8, <2>9
    DEF Inv, Types, OneRequest, ReplyIsDirectory, DeleteAtWork, ExactStep
<1>4. CASE ~(Exists(fs, p) /\ ~Exists(fs, q) /\ Kind(fs, Front(q)) = "dir")
  <2>1. fs' = fs /\ uploadFile' = uploadFile /\ reply' = Bad
    BY <1>4 DEF Rename
  <2> QED
    BY <1>1, <1>2, <2>1
    DEF Inv, Types, FileOpen, OneRequest, ReplyIsDirectory, DeleteAtWork, ExactStep, WriteStep
<1> QED
  BY <1>3, <1>4

LEMMA DeleteStep ==
    ASSUME Inv, NEW p \in Paths, Delete(p)
    PROVE  Inv' /\ ExactStep /\ WriteStep
<1>1. /\ target = Root /\ uploading = FALSE /\ reply' = Bad /\ fs' = fs
      /\ uploadFile' = uploadFile /\ uploading' = uploading /\ aborted' = aborted
  BY DEF Delete, Quiet, Inv, Types
<1>2. Tree(fs) /\ Types /\ FileOpen
  BY DEF Inv
<1>3. p \in Nodes /\ IsPrefix(p, p)
  BY NodesAre, PrefixOrder
<1>4. CASE Exists(fs, p)
  <2>1. target' = p /\ at' = p /\ before' = fs
    BY <1>4 DEF Delete
  <2>2. fs[p] # "absent" /\ fs \in [Paths -> Kinds]
    BY <1>2, <1>4, NodesAre DEF Exists, Kind, Tree
  <2>3. Progress(fs, fs, p)
    BY DEF Progress
  <2>4. DeleteAtWork'
    BY <1>1, <1>2, <1>3, <2>1, <2>2, <2>3 DEF DeleteAtWork
  <2> QED
    BY <1>1, <1>2, <1>3, <2>1, <2>2, <2>4
    DEF Inv, Types, FileOpen, OneRequest, ReplyIsDirectory, ExactStep, WriteStep
<1>5. CASE ~Exists(fs, p)
  <2>1. target' = target /\ at' = at /\ before' = before
    BY <1>5 DEF Delete, delvars
  <2> QED
    BY <1>1, <1>2, <2>1
    DEF Inv, Types, FileOpen, OneRequest, ReplyIsDirectory, DeleteAtWork, ExactStep, WriteStep
<1> QED
  BY <1>4, <1>5

LEMMA DeleteContentsStep ==
    ASSUME Inv, DeleteContents
    PROVE  Inv' /\ ExactStep /\ WriteStep
<1>1. /\ target # Root /\ at' \in Children(fs, at)
      /\ fs' = fs /\ uploadFile' = uploadFile /\ uploading' = uploading /\ reply' = reply
      /\ aborted' = aborted /\ target' = target /\ before' = before
  BY DEF DeleteContents
<1>2. Tree(fs) /\ Types /\ FileOpen /\ OneRequest /\ DeleteAtWork
  BY DEF Inv
<1>3. at' \in Paths /\ at' \in Nodes /\ Front(at') = at
  BY <1>1, NodesAre DEF Children
<1>4. IsPrefix(target, at')
  <2>1. IsPrefix(at, at') /\ IsPrefix(target, at) /\ target \in Nodes /\ at \in Nodes
    BY <1>1, <1>2, <1>3, FrontIs DEF DeleteAtWork, Types
  <2> QED
    BY <1>3, <2>1, PrefixOrder
<1>5. DeleteAtWork'
  BY <1>1, <1>2, <1>3, <1>4 DEF DeleteAtWork
<1>6. ExactStep
  BY <1>1, <1>2, ProgressIsExact DEF DeleteAtWork, ExactStep
<1> QED
  BY <1>1, <1>2, <1>3, <1>5, <1>6
  DEF Inv, Types, FileOpen, OneRequest, ReplyIsDirectory, WriteStep

LEMMA DeleteEntryStep ==
    ASSUME Inv, DeleteEntry
    PROVE  Inv' /\ ExactStep /\ WriteStep
<1>1. /\ target # Root /\ Children(fs, at) = {}
      /\ fs' = remove(fs, at) /\ uploadFile' = Orphaned({at})
      /\ uploading' = uploading /\ aborted' = aborted
  BY DEF DeleteEntry
<1>2. Tree(fs) /\ Types /\ FileOpen /\ OneRequest /\ DeleteAtWork
  BY DEF Inv
<1>3. /\ reply = Bad /\ at \in Paths /\ IsPrefix(target, at) /\ target \in Paths /\ target \in Nodes
      /\ Tree(before) /\ before[target] # "absent" /\ Progress(fs, before, target)
  BY <1>1, <1>2, NodesAre DEF DeleteAtWork, Types
<1>4. /\ Tree(fs')
      /\ \A q \in Paths : fs[q] \in Contents => fs'[q] = IF q = at /\ fs' # fs THEN "absent" ELSE fs[q]
  <2>1. /\ Tree(fs') /\ ~(fs[at] # "absent" /\ Children(fs, at) = {}) => fs' = fs
    BY <1>1, <1>2, <1>3, RemovalKeepsTree
  <2>2. fs[at] # "absent" =>
           \A q \in Paths : fs'[q] = IF Taken(fs, at, q) THEN "absent" ELSE fs[q]
    BY <1>1, <1>2, <1>3, RemovalKeepsTree
  <2>3. \A q \in Paths : fs[q] \in Contents /\ fs[at] # "absent" => (Taken(fs, at, q) <=> q = at)
    BY <1>2, <1>3, AboveIs DEF Taken, Emptied, Tree, Contents
  <2>4. Tree(fs')
    BY <1>1, <1>2, <1>3, RemovalKeepsTree
  <2>5. CASE fs[at] # "absent"
    <3>1. fs'[at] = "absent" /\ fs' # fs
      BY <1>3, <2>2, <2>5 DEF Taken
    <3> QED
      BY <2>2, <2>3, <2>4, <2>5, <3>1
  <2>6. CASE fs[at] = "absent"
    BY <2>1, <2>4, <2>6
  <2> QED
    BY <2>5, <2>6
<1>5. Progress(fs', before, target) /\ (at = target => fs' = Left(before, target))
  BY <1>1, <1>2, <1>3, EntryDeleted
<1>6. /\ uploadFile' \in Handles
      /\ uploadFile'.kind = "file" => uploadFile' = uploadFile /\ uploadFile.path # at
  BY <1>1, <1>2, OrphanedIs DEF Types
<1>7. FileOpen'
  BY <1>1, <1>2, <1>4, <1>6 DEF FileOpen
<1>8. WriteStep
  BY <1>4 DEF WriteStep, Contents
<1>9. CASE at = target
  <2>1. /\ reply' = lastExistingParent(fs', target)
        /\ target' = Root /\ at' = Root /\ before' = Nothing
    BY <1>1, <1>9 DEF DeleteEntry
  <2>2. fs' = Left(before, target) /\ before \in [Paths -> Kinds] /\ fs' \in [Paths -> Kinds]
    BY <1>3, <1>4, <1>5, <1>9 DEF Tree
  <2>3. \A q \in Paths : fs'[q] = IF Keeps(before, target, q) THEN before[q] ELSE "absent"
    BY <1>3, <2>2, LeftIs
  <2>4. fs'[target] = "absent"
    BY <1>3, <2>3, PrefixOrder DEF Keeps
  <2>5. \A a \in Above(target) : fs'[a] \in {"absent", "dir"}
    BY <1>3, <2>3, AboveIs DEF Tree
  <2>6. reply' \in Nodes /\ Kind(fs', reply') = "dir"
    BY <1>3, <2>1, <2>2, <2>4, <2>5, ParentLeft
  <2>7. before' \in [Paths -> Kinds] /\ Root \in Nodes
    BY <2>1, NodesAre DEF Nothing, Kinds
  <2> QED
    BY <1>1, <1>2, <1>4, <1>5, <1>6, <1>7, <1>8, <2>1, <2>2, <2>6, <2>7
    DEF Inv, Types, OneRequest, ReplyIsDirectory, DeleteAtWork, ExactStep
<1>10. CASE at # target
  <2>1. at' = Front(at) /\ reply' = reply /\ target' = target /\ before' = before
    BY <1>1, <1>10 DEF DeleteEntry
  <2>2. at' \in Nodes /\ IsPrefix(target, at')
    BY <1>3, <1>10, <2>1, FrontIs
  <2>3. at' \in Paths
    BY <1>1, <1>3, <2>2, PrefixOrder, NodesAre
  <2>4. ExactStep
    BY <1>3, <1>5, <2>1, ProgressIsExact DEF ExactStep
  <2> QED
    BY <1>1, <1>2, <1>3, <1>4, <1>5, <1>6, <1>7, <1>8, <2>1, <2>2, <2>3, <2>4
    DEF Inv, Types, OneRequest, ReplyIsDirectory, DeleteAtWork
<1> QED
  BY <1>9, <1>10

LEMMA UploadStartStep ==
    ASSUME Inv, NEW p \in Paths, UploadStart(p)
    PROVE  Inv' /\ ExactStep /\ WriteStep
<1>1. /\ target = Root /\ uploading' = TRUE /\ aborted' = FALSE /\ reply' = Bad
      /\ target' = target /\ at' = at /\ before' = before
  BY DEF UploadStart, delvars
<1>2. Tree(fs) /\ Types /\ FileOpen
  BY DEF Inv
<1>3. Rest \in Contents
  BY DEF Rest, Contents
<1>4. CASE CanOpen(p)
  <2>1. /\ fs' = Closed(Made(p), Rest)
        /\ uploadFile' = [kind |-> IF fs[p] = "dir" THEN "dir" ELSE "file",
                          path |-> p, content |-> "empty"]
    BY <1>4 DEF UploadStart
  <2>2. /\ Tree(Made(p)) /\ Made(p)[p] = IF fs[p] = "absent" THEN "empty" ELSE fs[p]
        /\ \A q \in Paths : fs[q] \in Contents => Made(p)[q] = fs[q]
    BY <1>2, <1>4, MadeKeepsTree
  <2>3. /\ Tree(fs')
        /\ \A q \in Paths : fs'[q] = IF uploadFile.kind = "file" /\ q = uploadFile.path
                                       THEN Rest ELSE Made(p)[q]
    BY <1>2, <1>3, <2>1, <2>2, ClosedKeepsTree DEF FileOpen
  <2>4. uploadFile' \in Handles
    BY <2>1 DEF Handles
  <2>5. fs[p] # "dir" => fs'[p] \in Contents
    BY <1>2, <1>3, <2>2, <2>3 DEF Tree, Kinds, Contents
  <2>6. FileOpen'
    BY <1>1, <2>1, <2>5 DEF FileOpen
  <2>7. WriteStep
    BY <1>2, <2>2, <2>3 DEF WriteStep, FileOpen
  <2> QED
    BY <1>1, <1>2, <2>3, <2>4, <2>6, <2>7
    DEF Inv, Types, OneRequest, ReplyIsDirectory, DeleteAtWork, ExactStep
<1>5. CASE ~CanOpen(p)
  <2>1. fs' = Closed(fs, Rest) /\ uploadFile' = None
    BY <1>5 DEF UploadStart
  <2>2. /\ Tree(fs')
        /\ \A q \in Paths : fs'[q] = IF uploadFile.kind = "file" /\ q = uploadFile.path
                                       THEN Rest ELSE fs[q]
    BY <1>2, <1>3, <2>1, ClosedKeepsTree DEF FileOpen
  <2>3. uploadFile' \in Handles /\ FileOpen'
    BY <2>1 DEF None, Handles, FileOpen
  <2>4. WriteStep
    BY <1>2, <2>2 DEF WriteStep, FileOpen
  <2> QED
    BY <1>1, <1>2, <2>2, <2>3, <2>4
    DEF Inv, Types, OneRequest, ReplyIsDirectory, DeleteAtWork, ExactStep
<1> QED
  BY <1>4, <1>5

LEMMA UploadWriteStep ==
    ASSUME Inv, UploadWrite
    PROVE  Inv' /\ ExactStep /\ WriteStep
<1>1. /\ uploading = TRUE /\ uploadFile.kind = "file"
      /\ fs' = fs /\ uploading' = uploading /\ reply' = reply /\ aborted' = aborted
      /\ target' = target /\ at' = at /\ before' = before
  BY DEF UploadWrite, delvars, Inv, Types
<1>2. Tree(fs) /\ Types /\ FileOpen /\ OneRequest
  BY DEF Inv
<1>3. PICK c \in {"part", "cut"} :
         uploadFile' = [uploadFile EXCEPT !.content = IF uploadFile.content = "cut"
                                                        THEN uploadFile.content ELSE c]
  BY DEF UploadWrite
<1>4. /\ uploadFile' \in Handles
      /\ uploadFile'.kind = uploadFile.kind /\ uploadFile'.path = uploadFile.path
  BY <1>2, <1>3 DEF Types, Handles
<1>5. FileOpen'
  BY <1>1, <1>2, <1>4 DEF FileOpen
<1> QED
  BY <1>1, <1>2, <1>4, <1>5
  DEF Inv, Types, OneRequest, ReplyIsDirectory, DeleteAtWork, ExactStep, WriteStep

LEMMA UploadEndStep ==
    ASSUME Inv, UploadEnd
    PROVE  Inv' /\ ExactStep /\ WriteStep
<1> DEFINE content == IF uploadFile.content = "cut" THEN "part" ELSE "whole"
<1>1. /\ uploading = TRUE /\ uploading' = FALSE /\ uploadFile' = None
      /\ fs' = Closed(fs, content) /\ reply' = reply /\ aborted' = aborted
      /\ target' = target /\ at' = at /\ before' = before
  BY DEF UploadEnd, delvars, Inv, Types
<1>2. Tree(fs) /\ Types /\ FileOpen /\ OneRequest
  BY DEF Inv
<1>3. content \in Contents
  BY DEF Contents
<1> HIDE DEF content
<1>4. /\ Tree(fs')
      /\ \A q \in Paths : fs'[q] = IF uploadFile.kind = "file" /\ q = uploadFile.path
                                     THEN content ELSE fs[q]
  BY <1>1, <1>2, <1>3, ClosedKeepsTree DEF FileOpen
<1>5. uploadFile' \in Handles /\ FileOpen'
  BY <1>1 DEF None, Handles, FileOpen
<1>6. WriteStep
  BY <1>1, <1>2, <1>4 DEF WriteStep, FileOpen
<1>7. target = Root /\ reply = Bad
  BY <1>1, <1>2 DEF OneRequest
<1> QED
  BY <1>1, <1>2, <1>4, <1>5, <1>6, <1>7
  DEF Inv, Types, OneRequest, ReplyIsDirectory, DeleteAtWork, ExactStep

LEMMA UploadAbortedStep ==
    ASSUME Inv, UploadAborted
    PROVE  Inv' /\ ExactStep /\ WriteStep
<1>1. /\ uploading = TRUE /\ uploading' = FALSE /\ aborted' = TRUE
      /\ fs' = fs /\ uploadFile' = uploadFile /\ reply' = reply
      /\ target' = target /\ at' = at /\ before' = before
  BY DEF UploadAborted, delvars, Inv, Types
<1> QED
  BY <1>1
  DEF Inv, Types, FileOpen, OneRequest, ReplyIsDirectory, DeleteAtWork, ExactStep, WriteStep

LEMMA RebootStep ==
    ASSUME Inv, Reboot
    PROVE  Inv' /\ ExactStep /\ WriteStep
<1>1. /\ fs' = fs /\ uploadFile' = None /\ uploading' = FALSE /\ reply' = Bad /\ aborted' = FALSE
      /\ target' = Root /\ at' = Root /\ before' = Nothing
  BY DEF Reboot
<1>2. Tree(fs) /\ Types /\ DeleteAtWork
  BY DEF Inv
<1>3. uploadFile' \in Handles /\ FileOpen' /\ before' \in [Paths -> Kinds] /\ Root \in Nodes
  BY <1>1, NodesAre DEF None, Handles, FileOpen, Nothing, Kinds
<1>4. ExactStep
  BY <1>1, <1>2, ProgressIsExact DEF DeleteAtWork, ExactStep
<1> QED
  BY <1>1, <1>2, <1>3, <1>4
  DEF Inv, Types, OneRequest, ReplyIsDirectory, DeleteAtWork, WriteStep

LEMMA StutterStep ==
    ASSUME Inv, UNCHANGED mvars
    PROVE  Inv'
BY DEF mvars, delvars, Inv, Types, FileOpen, OneRequest, ReplyIsDirectory, DeleteAtWork

LEMMA InvIsInductive ==
    /\ MInit => Inv
    /\ Inv /\ [MNext]_mvars => Inv' /\ [ExactStep]_mvars /\ [WriteStep]_mvars
<1>1. ASSUME MInit
      PROVE  Inv
  <2>1. fs \in [Paths -> Kinds] /\ Nothing \in [Paths -> Kinds]
    BY <1>1 DEF MInit, Kinds, Contents, Nothing
  <2>2. Tree(fs)
    BY <1>1, <2>1, TreeOfParents DEF MInit
  <2>3. Types /\ FileOpen
    BY <1>1, <2>1, NodesAre DEF MInit, Types, FileOpen, None, Handles
  <2> QED
    BY <1>1, <2>2, <2>3 DEF MInit, Inv, OneRequest, ReplyIsDirectory, DeleteAtWork
<1>2. ASSUME Inv, MNext
      PROVE  Inv' /\ ExactStep /\ WriteStep
  <2>1. CASE \E p \in Paths : CreateFolder(p) \/ CreateFile(p) \/ Delete(p) \/ UploadStart(p)
    BY <1>2, <2>1, CreateFolderStep, CreateFileStep, DeleteStep, UploadStartStep
  <2>2. CASE \E p, q \in Paths : Rename(p, q)
    BY <1>2, <2>2, RenameStep
  <2>3. CASE DeleteContents \/ DeleteEntry
    BY <1>2, <2>3, DeleteContentsStep, DeleteEntryStep
  <2>4. CASE UploadWrite \/ UploadEnd \/ UploadAborted \/ Reboot
    BY <1>2, <2>4, UploadWriteStep, UploadEndStep, UploadAbortedStep, RebootStep
  <2> QED
    BY <1>2, <2>1, <2>2, <2>3, <2>4 DEF MNext
<1> QED
  BY <1>1, <1>2, StutterStep

-----------------------------------------------------------------------------
\* Whatever the requests, and whatever a restart cuts short, the file system is a
\* tree: what LittleFS takes away or brings along leaves no entry without parents.
THEOREM TheTreeStaysOne == MSpec => []ManagerTypeOK
<1>1. Inv => ManagerTypeOK
  <2> SUFFICES ASSUME Inv
               PROVE  ManagerTypeOK
    OBVIOUS
  <2>1. Tree(fs) /\ Types
    BY DEF Inv
  <2>2. \A p \in Paths : Exists(fs, p) => Kind(fs, Front(p)) = "dir"
    <3>1. \A p \in Paths : Exists(fs, p) <=> fs[p] # "absent"
      BY NodesAre DEF Exists, Kind
    <3> QED
      BY <2>1, <3>1, ParentsOfTree
  <2> QED
    BY <2>1, <2>2 DEF ManagerTypeOK, Tree, Types, Kinds, Nodes
<1> QED
  BY <1>1, InvIsInductive, PTL DEF MSpec

\* A reply that names a path names a directory that is there, also after a delete
\* or a renaming that took its parents along.
THEOREM RepliesNameDirectories == MSpec => []ReplyIsDirectory
<1>1. Inv => ReplyIsDirectory
  BY DEF Inv
<1> QED
  BY <1>1, InvIsInductive, PTL DEF MSpec

\* However deep the tree: a delete that comes to its end leaves what Left says, and
\* at every step before nothing is gone but entries below its path.
THEOREM DeletesAreExact == MSpec => DeleteIsExact
BY InvIsInductive, PTL DEF MSpec, DeleteIsExact, ExactStep

\* The content of a file changes through the handle of its own upload only.
THEOREM WritesAreUploads == MSpec => OnlyUploadsWrite
BY InvIsInductive, PTL DEF MSpec, OnlyUploadsWrite, WriteStep

=============================================================================
