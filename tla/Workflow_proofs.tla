--------------------------- MODULE Workflow_proofs ---------------------------
(***************************************************************************)
(* Proofs about Workflow for every value of its constants.                 *)
(***************************************************************************)
EXTENDS WorkflowProps, FiniteSetTheorems, WellFoundedInduction, TLAPS

-----------------------------------------------------------------------------
(* Induction, over sets instead of predicates: a set of numbers, or of     *)
(* subsets, that is closed under the step is all of them.                  *)

LEMMA LeastNumber ==
    ASSUME NEW T \in SUBSET Nat, T # {}
    PROVE  \E x \in T : \A y \in T : x <= y
  <1> DEFINE I == {0..x : x \in T}
  <1>1. I \subseteq FiniteSubsetsOf(Nat) /\ I # {}
    <2>1. \A x \in Nat : IsFiniteSet(0..x)
      BY FS_Interval
    <2>2. \A x \in Nat : 0..x \in SUBSET Nat
      OBVIOUS
    <2>3. \A x \in Nat : 0..x \in FiniteSubsetsOf(Nat)
      BY <2>1, <2>2 DEF FiniteSubsetsOf
    <2>4. I \subseteq FiniteSubsetsOf(Nat)
      BY <2>3
    <2>5. I # {}
      OBVIOUS
    <2> QED
      BY <2>4, <2>5
  <1>2. IsWellFoundedOn(StrictSubsetOrdering(Nat), FiniteSubsetsOf(Nat))
    BY FS_StrictSubsetOrderingWellFounded
  <1>3. \E s \in I : \A t \in I : ~(<<t, s>> \in StrictSubsetOrdering(Nat))
    <2> HIDE DEF I
    <2> QED
      BY <1>1, <1>2, WFMin
  <1>4. PICK x \in T : \A t \in I : <<t, 0..x>> \notin StrictSubsetOrdering(Nat)
    BY <1>3
  <1>5. \A y \in T : x <= y
    <2> SUFFICES ASSUME NEW y \in T, y < x PROVE FALSE
      OBVIOUS
    <2>1. 0..y \in I /\ 0..y \subseteq 0..x /\ 0..y # 0..x
      <3>1. x \in 0..x /\ x \notin 0..y
        OBVIOUS
      <3> QED
        BY <3>1
    <2>2. <<0..y, 0..x>> \in StrictSubsetOrdering(Nat)
      BY <2>1 DEF StrictSubsetOrdering
    <2> QED
      BY <1>4, <2>1, <2>2
  <1> QED
    BY <1>5

LEMMA NatSetInduction ==
    ASSUME NEW T \in SUBSET Nat, 0 \in T, \A n \in T : n + 1 \in T
    PROVE  T = Nat
  <1> SUFFICES ASSUME Nat \ T # {} PROVE FALSE
    OBVIOUS
  <1>1. PICK x \in Nat \ T : \A y \in Nat \ T : x <= y
    BY LeastNumber
  <1>2. x # 0 /\ x - 1 \in Nat
    OBVIOUS
  <1>3. x - 1 \in T
    BY <1>1, <1>2
  <1> QED
    BY <1>1, <1>3

LEMMA SubsetInduction ==
    ASSUME NEW S, IsFiniteSet(S), NEW T \in SUBSET SUBSET S, {} \in T,
           \A A \in T : \A x \in S \ A : A \cup {x} \in T
    PROVE  T = SUBSET S
  <1> SUFFICES ASSUME (SUBSET S) \ T # {} PROVE FALSE
    OBVIOUS
  <1>1. PICK M \in (SUBSET S) \ T : \A A \in (SUBSET S) \ T : <<A, M>> \notin StrictSubsetOrdering(S)
    BY FS_StrictSubsetOrderingWellFounded, FS_FiniteSubsetsOfFinite, WFMin
  <1>2. PICK x \in M : TRUE
    BY <1>1
  <1>3. M \ {x} \in SUBSET S /\ M \ {x} # M /\ M \ {x} \subseteq M
    BY <1>1, <1>2
  <1>4. <<M \ {x}, M>> \in StrictSubsetOrdering(S)
    BY <1>1, <1>3 DEF StrictSubsetOrdering
  <1>5. M \ {x} \in T /\ x \in S \ (M \ {x}) /\ (M \ {x}) \cup {x} = M
    BY <1>1, <1>2, <1>3, <1>4
  <1> QED
    BY <1>1, <1>5

LEMMA MinimalSubset ==
    ASSUME NEW S, IsFiniteSet(S), NEW T \in SUBSET SUBSET S, T # {}
    PROVE  \E A \in T : \A x \in A : A \ {x} \notin T
  <1>1. PICK A \in T : \A B \in T : <<B, A>> \notin StrictSubsetOrdering(S)
    BY FS_StrictSubsetOrderingWellFounded, FS_FiniteSubsetsOfFinite, WFMin
  <1>2. \A x \in A : A \ {x} \in SUBSET S /\ A \ {x} # A /\ A \ {x} \subseteq A
    BY <1>1
  <1>3. \A x \in A : <<A \ {x}, A>> \in StrictSubsetOrdering(S)
    BY <1>1, <1>2 DEF StrictSubsetOrdering
  <1> QED
    BY <1>1, <1>3

\* A function is defined by recursion when its value at x depends only on its values
\* at what is smaller than x.
IsRecursion(D, V, N, size, F) ==
    /\ V # {}
    /\ N \in Nat
    /\ size \in [D -> 0..N]
    /\ F \in [D -> [[D -> V] -> V]]
    /\ \A x \in D : \A g, h \in [D -> V] :
         (\A y \in D : size[y] < size[x] => g[y] = h[y]) => F[x][g] = F[x][h]
Solves(f, D, V, F) == f \in [D -> V] /\ \A x \in D : f[x] = F[x][f]

LEMMA RecursiveFunction ==
    ASSUME NEW D, NEW V, NEW N, NEW size, NEW F, IsRecursion(D, V, N, size, F)
    PROVE  \E f : Solves(f, D, V, F)
  <1> USE DEF IsRecursion
  <1> DEFINE Upto(n, f) == \A x \in D : size[x] < n => f[x] = F[x][f]
             T == {n \in Nat : \E f \in [D -> V] : Upto(n, f)}
  <1>1. 0 \in T
    <2>1. PICK v \in V : TRUE
      OBVIOUS
    <2>2. [x \in D |-> v] \in [D -> V]
      OBVIOUS
    <2>3. Upto(0, [x \in D |-> v])
      OBVIOUS
    <2> QED
      BY <2>2, <2>3
  <1>2. \A n \in T : n + 1 \in T
    <2> SUFFICES ASSUME NEW n \in T PROVE n + 1 \in T
      OBVIOUS
    <2>1. PICK f \in [D -> V] : Upto(n, f)
      <3> HIDE DEF Upto
      <3> QED
        OBVIOUS
    <2> DEFINE g == [x \in D |-> F[x][f]]
    <2>2. \A x \in D : F[x] \in [[D -> V] -> V]
      OBVIOUS
    <2>3. g \in [D -> V]
      BY <2>2
    <2>4. \A y \in D : size[y] < n => g[y] = f[y]
      BY <2>1
    <2>5. ASSUME NEW x \in D, size[x] < n + 1 PROVE g[x] = F[x][g]
      <3>1. \A y \in D : size[y] < size[x] => g[y] = f[y]
        BY <2>4, <2>5
      <3>2. F[x][f] = F[x][g]
        <4> HIDE DEF g
        <4> QED
          BY <2>3, <3>1
      <3>3. g[x] = F[x][f]
        OBVIOUS
      <3> QED
        BY <3>2, <3>3
    <2>6. Upto(n + 1, g)
      BY <2>5
    <2> HIDE DEF g, Upto
    <2> QED
      BY <2>3, <2>6
  <1>3. T = Nat
    <2> HIDE DEF T
    <2>1. \A n \in T : n \in Nat
      BY DEF T
    <2>2. T \in SUBSET Nat
      BY <2>1
    <2> QED
      BY <1>1, <1>2, <2>2, NatSetInduction
  <1>4. PICK f \in [D -> V] : Upto(N + 1, f)
    <2>1. N + 1 \in T
      <3> HIDE DEF T
      <3> QED
        BY <1>3
    <2> HIDE DEF Upto
    <2> QED
      BY <2>1
  <1>5. \A x \in D : f[x] = F[x][f]
    BY <1>4
  <1> QED
    BY <1>5 DEF Solves

-----------------------------------------------------------------------------
(* Sums over sets of nodes, and maxima.                                    *)

\* The sum of the values of a function over each of the subsets of its domain.
LEMMA Sums ==
    ASSUME NEW S, IsFiniteSet(S), NEW w \in [S -> Nat]
    PROVE  \E g \in [SUBSET S -> Nat] :
               /\ g[{}] = 0
               /\ \A A \in SUBSET S : \A x \in S \ A : g[A \cup {x}] = g[A] + w[x]
  <1> DEFINE Sum(B, g) == /\ g[{}] = 0
                          /\ \A A \in SUBSET B : \A x \in B \ A : g[A \cup {x}] = g[A] + w[x]
             T == {B \in SUBSET S : \E g \in [SUBSET B -> Nat] : Sum(B, g)}
  <1>1. {} \in T
    <2> DEFINE g == [A \in SUBSET {} |-> 0]
    <2>1. g \in [SUBSET {} -> Nat] /\ Sum({}, g)
      OBVIOUS
    <2> HIDE DEF g, Sum
    <2> QED
      BY <2>1
  <1>2. \A B \in T : \A y \in S \ B : B \cup {y} \in T
    <2> SUFFICES ASSUME NEW B \in T, NEW y \in S \ B PROVE B \cup {y} \in T
      OBVIOUS
    <2>1. PICK g \in [SUBSET B -> Nat] : Sum(B, g)
      <3> HIDE DEF Sum
      <3> QED
        OBVIOUS
    <2> DEFINE C == B \cup {y}
               h == [A \in SUBSET C |-> IF y \in A THEN g[A \ {y}] + w[y] ELSE g[A]]
    <2>2. h \in [SUBSET C -> Nat]
      <3>1. \A A \in SUBSET C : y \in A => A \ {y} \in SUBSET B
        OBVIOUS
      <3>2. \A A \in SUBSET C : y \notin A => A \in SUBSET B
        OBVIOUS
      <3>3. w[y] \in Nat
        OBVIOUS
      <3>4. \A A \in SUBSET C : (IF y \in A THEN g[A \ {y}] + w[y] ELSE g[A]) \in Nat
        BY <3>1, <3>2, <3>3
      <3> QED
        BY <3>4
    <2>3. h[{}] = 0
      BY <2>1
    <2>4. ASSUME NEW A \in SUBSET C, NEW x \in C \ A PROVE h[A \cup {x}] = h[A] + w[x]
      <3>1. CASE x = y
        <4>1. (A \cup {x}) \ {y} = A /\ y \notin A /\ A \cup {x} \in SUBSET C
          BY <3>1
        <4>2. h[A] = g[A] /\ h[A \cup {x}] = g[A] + w[y]
          BY <3>1, <4>1
        <4> QED
          BY <3>1, <4>2
      <3>2. CASE x # y /\ y \in A
        <4> DEFINE D == A \ {y}
        <4>1. D \in SUBSET B /\ x \in B \ D /\ (A \cup {x}) \ {y} = D \cup {x} /\ A \cup {x} \in SUBSET C
          BY <3>2
        <4>2. h[A] = g[D] + w[y] /\ h[A \cup {x}] = g[D \cup {x}] + w[y]
          BY <3>2, <4>1
        <4>3. g[D \cup {x}] = g[D] + w[x]
          BY <2>1, <4>1
        <4>4. g[D] \in Nat /\ w[x] \in Nat /\ w[y] \in Nat
          BY <4>1
        <4> HIDE DEF D, h
        <4> QED
          BY <4>2, <4>3, <4>4
      <3>3. CASE x # y /\ y \notin A
        <4>1. A \in SUBSET B /\ x \in B \ A /\ y \notin A \cup {x} /\ A \cup {x} \in SUBSET C
          BY <3>3
        <4>2. h[A] = g[A] /\ h[A \cup {x}] = g[A \cup {x}]
          BY <3>3, <4>1
        <4> HIDE DEF h
        <4> QED
          BY <2>1, <4>1, <4>2
      <3> QED
        BY <3>1, <3>2, <3>3
    <2>5. Sum(C, h)
      <3> HIDE DEF h, C
      <3> QED
        BY <2>3, <2>4
    <2>6. C \in SUBSET S
      OBVIOUS
    <2>7. \E f \in [SUBSET C -> Nat] : Sum(C, f)
      <3> HIDE DEF h, Sum, C
      <3> QED
        BY <2>2, <2>5
    <2> HIDE DEF h, Sum, C
    <2>8. C \in T
      BY <2>6, <2>7
    <2> QED
      BY <2>8 DEF C
  <1>3. T = SUBSET S
    <2>1. T \in SUBSET SUBSET S
      OBVIOUS
    <2> HIDE DEF T
    <2> QED
      BY <1>1, <1>2, <2>1, SubsetInduction
  <1>4. S \in T
    <2> HIDE DEF T
    <2> QED
      BY <1>3
  <1>5. \E g \in [SUBSET S -> Nat] : Sum(S, g)
    <2> HIDE DEF Sum
    <2> QED
      BY <1>4
  <1> QED
    BY <1>5

EdgesType == edges \in [Nodes -> [Nodes -> 0..MaxEdges]]

LEMMA EdgesAreNumbers ==
    ASSUME EdgesType
    PROVE  /\ IsFiniteSet(Nodes)
           /\ \A m, n \in Nodes : edges[m][n] \in Nat
  <1>1. \A m, n \in Nodes : edges[m][n] \in 0..MaxEdges
    BY DEF EdgesType
  <1> QED
    BY <1>1, WorkflowAssumption DEF WorkflowAssumption

\* EdgesInto(n, M) is a sum, in whatever order the fold takes the nodes.
LEMMA EdgesIntoIsASum ==
    ASSUME EdgesType, NEW n \in Nodes
    PROVE  \E g \in [SUBSET Nodes -> Nat] :
               /\ g[{}] = 0
               /\ \A A \in SUBSET Nodes : \A x \in Nodes \ A : g[A \cup {x}] = g[A] + edges[x][n]
               /\ \A A \in SUBSET Nodes : g[A] = EdgesInto(n, A)
  <1> DEFINE w == [m \in Nodes |-> edges[m][n]]
  <1>1. w \in [Nodes -> Nat] /\ IsFiniteSet(Nodes)
    BY EdgesAreNumbers
  <1>2. PICK g \in [SUBSET Nodes -> Nat] :
               /\ g[{}] = 0
               /\ \A A \in SUBSET Nodes : \A x \in Nodes \ A : g[A \cup {x}] = g[A] + w[x]
    <2> HIDE DEF w
    <2> QED
      BY <1>1, Sums, Zenon
  <1>3. \A A \in SUBSET Nodes : \A x \in Nodes \ A : g[A \cup {x}] = g[A] + edges[x][n]
    BY <1>2
  <1>4. ASSUME NEW M \in SUBSET Nodes PROVE g[M] = EdgesInto(n, M)
    <2> DEFINE Eq(f) == f = [s \in SUBSET M |->
                               IF s = {} THEN 0
                               ELSE LET x == CHOOSE x \in s : TRUE
                                    IN  f[s \ {x}] + edges[x][n]]
               f == CHOOSE f : Eq(f)
               h == [s \in SUBSET M |-> g[s]]
    <2>1. \A s \in SUBSET M : s # {} =>
             LET x == CHOOSE x \in s : TRUE
             IN  x \in s /\ s \ {x} \in SUBSET M /\ g[s] = g[s \ {x}] + edges[x][n]
      <3> SUFFICES ASSUME NEW s \in SUBSET M, s # {}, NEW x, x = CHOOSE y \in s : TRUE
                   PROVE  x \in s /\ s \ {x} \in SUBSET M /\ g[s] = g[s \ {x}] + edges[x][n]
        OBVIOUS
      <3>1. x \in s
        OBVIOUS
      <3>2. s \ {x} \in SUBSET Nodes /\ x \in Nodes \ (s \ {x}) /\ (s \ {x}) \cup {x} = s
        BY <3>1
      <3>3. g[(s \ {x}) \cup {x}] = g[s \ {x}] + edges[x][n]
        BY <1>3, <3>2
      <3> QED
        BY <3>1, <3>2, <3>3
    <2>2. Eq(h)
      <3>1. \A s \in SUBSET M : h[s] = IF s = {} THEN 0
                                       ELSE LET x == CHOOSE x \in s : TRUE
                                            IN  h[s \ {x}] + edges[x][n]
        BY <1>2, <2>1
      <3> QED
        BY <3>1
    <2>3. Eq(f)
      <3> HIDE DEF Eq, h
      <3> QED
        BY <2>2
    <2>4. EdgesInto(n, M) = f[M]
      BY DEF EdgesInto, FoldSet, MapThenFoldSet
    <2>5. \A s \in SUBSET M : s # {} =>
             LET x == CHOOSE x \in s : TRUE IN f[s] = f[s \ {x}] + edges[x][n]
      <3> HIDE DEF f
      <3> QED
        BY <2>3
    <2>6. f[{}] = 0
      <3> HIDE DEF f
      <3> QED
        BY <2>3
    <2> DEFINE T == {s \in SUBSET M : f[s] # g[s]}
    <2>7. T = {}
      <3> SUFFICES ASSUME T # {} PROVE FALSE
        OBVIOUS
      <3>1. PICK s \in T : \A x \in s : s \ {x} \notin T
        <4>1. T \in SUBSET SUBSET Nodes
          OBVIOUS
        <4> HIDE DEF T
        <4> QED
          BY <1>1, <4>1, MinimalSubset
      <3> HIDE DEF f
      <3>2. s # {}
        BY <1>2, <2>6, <3>1
      <3> DEFINE x == CHOOSE x \in s : TRUE
      <3>3. x \in s /\ s \ {x} \in SUBSET M /\ g[s] = g[s \ {x}] + edges[x][n]
        BY <2>1, <3>1, <3>2
      <3>4. f[s] = f[s \ {x}] + edges[x][n]
        BY <2>5, <3>1, <3>2
      <3> HIDE DEF x
      <3>5. f[s \ {x}] = g[s \ {x}]
        BY <3>1, <3>3
      <3> QED
        BY <3>1, <3>3, <3>4, <3>5
    <2> HIDE DEF f
    <2>8. \A s \in SUBSET M : f[s] = g[s]
      BY <2>7
    <2> QED
      BY <2>4, <2>8
  <1> QED
    BY <1>2, <1>3, <1>4

\* No edges lead into n from M exactly if none of M is a predecessor; and what
\* leads into n from A is what leads from a part of A and from the rest.
LEMMA EdgesIntoFacts ==
    ASSUME EdgesType, NEW n \in Nodes
    PROVE  /\ \A A \in SUBSET Nodes : EdgesInto(n, A) \in Nat
           /\ \A A \in SUBSET Nodes : EdgesInto(n, A) = 0 <=> Predecessors(n) \cap A = {}
           /\ \A A \in SUBSET Nodes : \A B \in SUBSET A :
                  EdgesInto(n, A) - EdgesInto(n, B) = EdgesInto(n, A \ B)
  <1>1. PICK g \in [SUBSET Nodes -> Nat] :
               /\ g[{}] = 0
               /\ \A A \in SUBSET Nodes : \A x \in Nodes \ A : g[A \cup {x}] = g[A] + edges[x][n]
               /\ \A A \in SUBSET Nodes : g[A] = EdgesInto(n, A)
    BY EdgesIntoIsASum
  <1>2. IsFiniteSet(Nodes) /\ \A m \in Nodes : edges[m][n] \in Nat
    BY EdgesAreNumbers
  <1>3. \A A \in SUBSET Nodes : g[A] \in Nat
    OBVIOUS
  <1>4. \A A \in SUBSET Nodes : g[A] = 0 <=> Predecessors(n) \cap A = {}
    <2> DEFINE T == {A \in SUBSET Nodes : g[A] = 0 <=> Predecessors(n) \cap A = {}}
    <2>1. {} \in T
      BY <1>1
    <2>2. ASSUME NEW A \in T, NEW x \in Nodes \ A PROVE A \cup {x} \in T
      <3>1. g[A \cup {x}] = g[A] + edges[x][n] /\ g[A] \in Nat /\ edges[x][n] \in Nat
        BY <1>1, <1>2
      <3>2. x \in Predecessors(n) <=> edges[x][n] > 0
        BY DEF Predecessors
      <3>3. Predecessors(n) \cap (A \cup {x}) = {} <=> Predecessors(n) \cap A = {} /\ x \notin Predecessors(n)
        OBVIOUS
      <3>4. g[A] = 0 <=> Predecessors(n) \cap A = {}
        OBVIOUS
      <3>5. g[A \cup {x}] = 0 <=> Predecessors(n) \cap (A \cup {x}) = {}
        BY <3>1, <3>2, <3>3, <3>4
      <3> QED
        BY <3>5
    <2>3. T \in SUBSET SUBSET Nodes
      OBVIOUS
    <2>4. T = SUBSET Nodes
      <3> HIDE DEF T
      <3> QED
        BY <1>2, <2>1, <2>2, <2>3, SubsetInduction
    <2> QED
      BY <2>4
  <1>5. \A B \in SUBSET Nodes : \A A \in SUBSET Nodes : B \subseteq A => g[A] = g[B] + g[A \ B]
    <2> DEFINE T == {B \in SUBSET Nodes : \A A \in SUBSET Nodes : B \subseteq A => g[A] = g[B] + g[A \ B]}
    <2>1. {} \in T
      <3>1. \A A \in SUBSET Nodes : A \ {} = A /\ g[A] \in Nat
        BY <1>3
      <3> QED
        BY <1>1, <3>1
    <2>2. ASSUME NEW B \in T, NEW x \in Nodes \ B PROVE B \cup {x} \in T
      <3>1. ASSUME NEW A \in SUBSET Nodes, B \cup {x} \subseteq A
            PROVE  g[A] = g[B \cup {x}] + g[A \ (B \cup {x})]
        <4> DEFINE C == A \ (B \cup {x})
        <4>1. C \in SUBSET Nodes /\ x \in Nodes \ C /\ C \cup {x} = A \ B
          BY <3>1
        <4>2. g[A \ B] = g[C] + edges[x][n]
          <5>1. g[C \cup {x}] = g[C] + edges[x][n]
            BY <1>1, <4>1
          <5> QED
            BY <4>1, <5>1
        <4>3. g[B \cup {x}] = g[B] + edges[x][n]
          BY <1>1
        <4>4. g[A] = g[B] + g[A \ B]
          BY <3>1
        <4>5. g[B] \in Nat /\ g[C] \in Nat /\ edges[x][n] \in Nat
          BY <1>2, <4>1
        <4> HIDE DEF C, T
        <4>6. g[A] = g[B \cup {x}] + g[C]
          BY <4>2, <4>3, <4>4, <4>5
        <4> QED
          BY <4>6 DEF C
      <3> QED
        BY <3>1
    <2>3. T \in SUBSET SUBSET Nodes
      OBVIOUS
    <2>4. T = SUBSET Nodes
      <3> HIDE DEF T
      <3> QED
        BY <1>2, <2>1, <2>2, <2>3, SubsetInduction
    <2> QED
      BY <2>4
  <1>6. ASSUME NEW A \in SUBSET Nodes, NEW B \in SUBSET A
        PROVE  g[A] - g[B] = g[A \ B]
    <2>1. g[A] = g[B] + g[A \ B] /\ g[B] \in Nat /\ g[A \ B] \in Nat
      BY <1>3, <1>5
    <2> QED
      BY <2>1
  <1>7. \A A \in SUBSET Nodes : \A B \in SUBSET A :
          /\ g[A] = EdgesInto(n, A) /\ g[B] = EdgesInto(n, B) /\ g[A \ B] = EdgesInto(n, A \ B)
    <2>1. \A A \in SUBSET Nodes : \A B \in SUBSET A : B \in SUBSET Nodes /\ A \ B \in SUBSET Nodes
      OBVIOUS
    <2> QED
      BY <1>1, <2>1
  <1>8. \A A \in SUBSET Nodes : EdgesInto(n, A) \in Nat
    BY <1>1, <1>3
  <1>9. \A A \in SUBSET Nodes : EdgesInto(n, A) = 0 <=> Predecessors(n) \cap A = {}
    BY <1>1, <1>4
  <1>10. \A A \in SUBSET Nodes : \A B \in SUBSET A :
                  EdgesInto(n, A) - EdgesInto(n, B) = EdgesInto(n, A \ B)
    <2> SUFFICES ASSUME NEW A \in SUBSET Nodes, NEW B \in SUBSET A
                 PROVE  EdgesInto(n, A) - EdgesInto(n, B) = EdgesInto(n, A \ B)
      OBVIOUS
    <2>1. g[A] - g[B] = g[A \ B]
      BY <1>6
    <2> QED
      BY <1>7, <2>1
  <1> QED
    BY <1>8, <1>9, <1>10

-----------------------------------------------------------------------------
(* The stages.                                                             *)

TurnType == [degree : [Nodes -> Int], ready : SUBSET Nodes]
FirstTurn == [degree |-> [n \in Nodes |-> InDegree(n)],
              ready |-> {n \in Nodes : InDegree(n) = 0}]
IsTurns(k, f) == f = [i \in 0..k |-> IF i = 0 THEN FirstTurn ELSE Turned(f[i - 1])]
Turns(k) == CHOOSE f : IsTurns(k, f)

LEMMA TurnsAreTyped ==
    ASSUME EdgesType
    PROVE  FirstTurn \in TurnType /\ \A p \in TurnType : Turned(p) \in TurnType
  <1>1. \A n \in Nodes : \A A \in SUBSET Nodes : EdgesInto(n, A) \in Nat
    BY EdgesIntoFacts
  <1>2. FirstTurn \in TurnType
    <2>1. \A n \in Nodes : InDegree(n) \in Int
      BY <1>1 DEF InDegree
    <2> QED
      BY <2>1 DEF FirstTurn, TurnType
  <1>3. ASSUME NEW p \in TurnType PROVE Turned(p) \in TurnType
    <2>1. \A n \in Nodes : p.degree[n] \in Int /\ EdgesInto(n, p.ready) \in Nat
      BY <1>1 DEF TurnType
    <2>2. \A n \in Nodes : p.degree[n] - EdgesInto(n, p.ready) \in Int
      BY <2>1
    <2>3. [n \in Nodes |-> p.degree[n] - EdgesInto(n, p.ready)] \in [Nodes -> Int]
      BY <2>2
    <2> QED
      BY <2>3 DEF Turned, TurnType
  <1> QED
    BY <1>2, <1>3

LEMMA TurnsAreThere ==
    ASSUME EdgesType, NEW k \in Nat
    PROVE  IsTurns(k, Turns(k))
  <1> DEFINE D == 0..k
             V == TurnType
             size == [i \in D |-> i]
             F == [i \in D |-> [f \in [D -> V] |-> IF i = 0 THEN FirstTurn ELSE Turned(f[i - 1])]]
  <1>1. V # {} /\ size \in [D -> 0..k]
    BY TurnsAreTyped
  <1>2. F \in [D -> [[D -> V] -> V]]
    <2>1. ASSUME NEW i \in D, NEW f \in [D -> V]
          PROVE  (IF i = 0 THEN FirstTurn ELSE Turned(f[i - 1])) \in V
      <3> HIDE DEF V
      <3>1. CASE i = 0
        BY <3>1, TurnsAreTyped DEF V
      <3>2. CASE i # 0
        <4>1. i - 1 \in D
          BY <3>2
        <4>2. f[i - 1] \in TurnType
          BY <4>1 DEF V
        <4> QED
          BY <3>2, <4>2, TurnsAreTyped DEF V
      <3> QED
        BY <3>1, <3>2
    <2> HIDE DEF V, D
    <2> QED
      BY <2>1
  <1>3. ASSUME NEW i \in D, NEW g \in [D -> V], NEW h \in [D -> V],
               \A j \in D : size[j] < size[i] => g[j] = h[j]
        PROVE  F[i][g] = F[i][h]
    <2>1. i # 0 => g[i - 1] = h[i - 1]
      BY <1>3
    <2>2. F[i][g] = (IF i = 0 THEN FirstTurn ELSE Turned(g[i - 1]))
      OBVIOUS
    <2>3. F[i][h] = (IF i = 0 THEN FirstTurn ELSE Turned(h[i - 1]))
      OBVIOUS
    <2> QED
      BY <2>1, <2>2, <2>3
  <1>4. PICK f : Solves(f, D, V, F)
    <2> HIDE DEF D, V, F, size
    <2>1. \A i \in D : \A g, h \in [D -> V] :
             (\A j \in D : size[j] < size[i] => g[j] = h[j]) => F[i][g] = F[i][h]
      BY <1>3
    <2>2. IsRecursion(D, V, k, size, F)
      BY <1>1, <1>2, <2>1 DEF IsRecursion
    <2> QED
      BY <2>2, RecursiveFunction
  <1>5. \A i \in D : F[i][f] = (IF i = 0 THEN FirstTurn ELSE Turned(f[i - 1]))
    BY <1>4 DEF Solves
  <1>6. IsTurns(k, f)
    <2> HIDE DEF F
    <2>1. \A i \in D : f[i] = (IF i = 0 THEN FirstTurn ELSE Turned(f[i - 1]))
      BY <1>4, <1>5 DEF Solves
    <2>2. f = [i \in D |-> f[i]]
      BY <1>4 DEF Solves
    <2> QED
      BY <2>1, <2>2 DEF IsTurns
  <1> QED
    BY <1>6 DEF Turns

LEMMA PeelBegins ==
    ASSUME EdgesType
    PROVE  /\ Peel(0) = FirstTurn
           /\ \A k \in Nat : Peel(k + 1) = Turned(Peel(k))
  <1>1. \A k \in Nat : Peel(k) = Turns(k)[k]
    BY DEF Peel, Turns, IsTurns, FirstTurn
  <1>2. \A k \in Nat : \A i \in 0..k :
          Turns(k)[i] = IF i = 0 THEN FirstTurn ELSE Turned(Turns(k)[i - 1])
    <2> SUFFICES ASSUME NEW k \in Nat
                 PROVE  \A i \in 0..k : Turns(k)[i] = IF i = 0 THEN FirstTurn ELSE Turned(Turns(k)[i - 1])
      OBVIOUS
    <2>1. Turns(k) = [i \in 0..k |-> IF i = 0 THEN FirstTurn ELSE Turned(Turns(k)[i - 1])]
      BY TurnsAreThere DEF IsTurns
    <2> QED
      BY <2>1
  <1>3. ASSUME NEW k \in Nat PROVE Peel(k + 1) = Turned(Peel(k))
    <2> DEFINE T == {i \in Nat : i <= k => Turns(k)[i] = Turns(k + 1)[i]}
    <2>1. 0 \in T
      BY <1>2
    <2>2. ASSUME NEW i \in T PROVE i + 1 \in T
      <3>1. CASE i + 1 <= k
        <4>1. Turns(k)[i] = Turns(k + 1)[i] /\ i + 1 \in 0..k /\ i + 1 \in 0..(k + 1) /\ i + 1 # 0 /\ (i + 1) - 1 = i
          BY <3>1
        <4>2. Turns(k)[i + 1] = Turned(Turns(k)[i]) /\ Turns(k + 1)[i + 1] = Turned(Turns(k + 1)[i])
          BY <1>2, <4>1
        <4> QED
          BY <4>1, <4>2
      <3> QED
        BY <3>1
    <2>3. T = Nat
      <3>1. T \in SUBSET Nat
        OBVIOUS
      <3> HIDE DEF T
      <3> QED
        BY <2>1, <2>2, <3>1, NatSetInduction
    <2>4. Turns(k)[k] = Turns(k + 1)[k]
      BY <2>3
    <2>5. k + 1 \in 0..(k + 1) /\ k + 1 # 0 /\ (k + 1) - 1 = k
      OBVIOUS
    <2>6. Turns(k + 1)[k + 1] = Turned(Turns(k + 1)[k])
      BY <1>2, <2>5
    <2> QED
      BY <1>1, <2>4, <2>6
  <1>4. Peel(0) = FirstTurn
    BY <1>1, <1>2
  <1> QED
    BY <1>3, <1>4

\* The nodes of the stages before the k-th.
Ranked(k) == UNION {Peel(i).ready : i \in 0..(k - 1)}

\* After k turns the degree of a node is the number of edges from the nodes that are
\* not yet in a stage, and ready are those of them whose predecessors all are.
PeelIs(k) ==
    /\ Peel(k).degree = [n \in Nodes |-> EdgesInto(n, Nodes \ Ranked(k))]
    /\ Peel(k).ready = {n \in Nodes \ Ranked(k) : Predecessors(n) \subseteq Ranked(k)}
    /\ Ranked(k) \subseteq {n \in Nodes : Predecessors(n) \subseteq Ranked(k)}

LEMMA RankedSteps ==
    /\ Ranked(0) = {}
    /\ \A k \in Nat : Ranked(k + 1) = Ranked(k) \cup Peel(k).ready
  <1>1. Ranked(0) = {}
    <2>1. 0..(0 - 1) = {}
      OBVIOUS
    <2> QED
      BY <2>1 DEF Ranked
  <1>2. ASSUME NEW k \in Nat PROVE Ranked(k + 1) = Ranked(k) \cup Peel(k).ready
    <2>1. 0..((k + 1) - 1) = 0..(k - 1) \cup {k}
      OBVIOUS
    <2> QED
      BY <2>1 DEF Ranked
  <1> QED
    BY <1>1, <1>2

LEMMA PeelIsWhatItIs ==
    ASSUME EdgesType
    PROVE  \A k \in Nat : PeelIs(k)
  <1> DEFINE T == {k \in Nat : PeelIs(k)}
  <1>0. \A n \in Nodes : Predecessors(n) \subseteq Nodes
    BY DEF Predecessors
  <1>1. 0 \in T
    <2>1. Nodes \ Ranked(0) = Nodes
      BY RankedSteps
    <2>2. \A n \in Nodes : InDegree(n) = EdgesInto(n, Nodes \ Ranked(0))
      BY <2>1 DEF InDegree
    <2>3. \A n \in Nodes : InDegree(n) = 0 <=> Predecessors(n) \subseteq Ranked(0)
      <3>1. \A n \in Nodes : InDegree(n) = 0 <=> Predecessors(n) \cap Nodes = {}
        BY EdgesIntoFacts DEF InDegree
      <3> QED
        BY <1>0, <3>1, RankedSteps
    <2>4. Peel(0).degree = [n \in Nodes |-> EdgesInto(n, Nodes \ Ranked(0))]
      BY <2>2, PeelBegins DEF FirstTurn
    <2>5. Peel(0).ready = {n \in Nodes \ Ranked(0) : Predecessors(n) \subseteq Ranked(0)}
      BY <2>1, <2>3, PeelBegins DEF FirstTurn
    <2> QED
      BY <2>4, <2>5, RankedSteps DEF PeelIs
  <1>2. ASSUME NEW k \in T PROVE k + 1 \in T
    <2> DEFINE R == Ranked(k)
               Q == Ranked(k + 1)
               p == Peel(k)
               U == Nodes \ R
    <2>1. Q = R \cup p.ready /\ Peel(k + 1) = Turned(p)
      BY RankedSteps, PeelBegins
    <2>2. /\ p.degree = [n \in Nodes |-> EdgesInto(n, U)]
          /\ p.ready = {n \in U : Predecessors(n) \subseteq R}
          /\ R \subseteq {n \in Nodes : Predecessors(n) \subseteq R}
      BY DEF PeelIs
    <2> HIDE DEF R, Q, p
    <2>3. p.ready \subseteq U /\ U \ p.ready = Nodes \ Q /\ U \in SUBSET Nodes
      BY <2>1, <2>2
    <2>4. \A n \in Nodes : p.degree[n] - EdgesInto(n, p.ready) = EdgesInto(n, Nodes \ Q)
      <3> TAKE n \in Nodes
      <3>1. p.ready \in SUBSET U
        BY <2>3
      <3>2. EdgesInto(n, U) - EdgesInto(n, p.ready) = EdgesInto(n, U \ p.ready)
        BY <2>3, <3>1, EdgesIntoFacts
      <3> QED
        BY <2>2, <2>3, <3>2
    <2>5. Peel(k + 1).degree = [n \in Nodes |-> EdgesInto(n, Nodes \ Q)]
      BY <2>1, <2>4 DEF Turned
    <2>6. \A n \in Nodes : /\ p.degree[n] > 0 <=> ~(Predecessors(n) \subseteq R)
                           /\ EdgesInto(n, Nodes \ Q) = 0 <=> Predecessors(n) \subseteq Q
      <3> TAKE n \in Nodes
      <3>1. Nodes \ Q \in SUBSET Nodes
        OBVIOUS
      <3>2. /\ EdgesInto(n, U) = 0 <=> Predecessors(n) \cap U = {}
            /\ EdgesInto(n, Nodes \ Q) = 0 <=> Predecessors(n) \cap (Nodes \ Q) = {}
            /\ EdgesInto(n, U) \in Nat
        BY <2>3, <3>1, EdgesIntoFacts
      <3>3. p.degree[n] = EdgesInto(n, U)
        BY <2>2
      <3>4. p.degree[n] > 0 <=> ~(Predecessors(n) \cap U = {})
        BY <3>2, <3>3
      <3> QED
        BY <1>0, <3>2, <3>4
    <2>7. Peel(k + 1).ready = {n \in Nodes : p.degree[n] > 0 /\ EdgesInto(n, Nodes \ Q) = 0}
      BY <2>1, <2>4 DEF Turned
    <2>8. Peel(k + 1).ready = {n \in Nodes \ Q : Predecessors(n) \subseteq Q}
      <3>1. \A n \in Nodes : n \in Q <=> Predecessors(n) \subseteq R
        BY <2>1, <2>2
      <3> QED
        BY <2>6, <2>7, <3>1
    <2>9. Q \subseteq {n \in Nodes : Predecessors(n) \subseteq Q}
      BY <2>1, <2>2
    <2>10. PeelIs(k + 1)
      BY <2>5, <2>8, <2>9 DEF PeelIs, Q
    <2> QED
      BY <2>10
  <1>3. T = Nat
    <2>1. T \in SUBSET Nat
      OBVIOUS
    <2> HIDE DEF T
    <2> QED
      BY <1>1, <1>2, <2>1, NatSetInduction
  <1> QED
    BY <1>3

-----------------------------------------------------------------------------
(* Paths.                                                                  *)

PathType == [Nodes -> [Nodes -> BOOLEAN]]
OneEdge == [m \in Nodes |-> [n \in Nodes |-> edges[m][n] > 0]]
OneMore(P, k) == [m \in Nodes |-> [n \in Nodes |-> P[m][n] \/ (P[m][k] /\ P[k][n])]]
AnyOf(M) == CHOOSE k \in M : TRUE
IsPathVia(f) == f = [M \in SUBSET Nodes |->
                       IF M = {} THEN OneEdge ELSE OneMore(f[M \ {AnyOf(M)}], AnyOf(M))]

LEMMA SmallerSubset ==
    ASSUME NEW M \in SUBSET Nodes, NEW k \in M
    PROVE  /\ M \ {k} \in SUBSET Nodes
           /\ Cardinality(M \ {k}) \in 0..Cardinality(Nodes)
           /\ Cardinality(M) \in 0..Cardinality(Nodes)
           /\ Cardinality(M \ {k}) < Cardinality(M)
  <1>1. IsFiniteSet(Nodes) /\ IsFiniteSet(M)
    BY WorkflowAssumption, FS_Subset DEF WorkflowAssumption
  <1>2. Cardinality(M \ {k}) = Cardinality(M) - 1 /\ IsFiniteSet(M \ {k})
    BY <1>1, FS_RemoveElement
  <1>3. Cardinality(M) \in Nat /\ Cardinality(Nodes) \in Nat /\ Cardinality(M \ {k}) \in Nat
    BY <1>1, <1>2, FS_CardinalityType
  <1>4. Cardinality(M) <= Cardinality(Nodes)
    BY <1>1, FS_Subset
  <1> QED
    BY <1>2, <1>3, <1>4

LEMMA SubsetSizes ==
    /\ Cardinality(Nodes) \in Nat
    /\ \A M \in SUBSET Nodes : Cardinality(M) \in 0..Cardinality(Nodes)
  <1>1. IsFiniteSet(Nodes)
    BY WorkflowAssumption DEF WorkflowAssumption
  <1>2. Cardinality(Nodes) \in Nat
    BY <1>1, FS_CardinalityType
  <1>3. ASSUME NEW M \in SUBSET Nodes PROVE Cardinality(M) \in 0..Cardinality(Nodes)
    <2>1. IsFiniteSet(M) /\ Cardinality(M) <= Cardinality(Nodes)
      BY <1>1, FS_Subset
    <2>2. Cardinality(M) \in Nat
      BY <2>1, FS_CardinalityType
    <2> QED
      BY <1>2, <2>1, <2>2
  <1> QED
    BY <1>2, <1>3

LEMMA PathsAreTyped ==
    OneEdge \in PathType /\ \A P \in PathType : \A k \in Nodes : OneMore(P, k) \in PathType
  <1>1. OneEdge \in PathType
    BY DEF OneEdge, PathType
  <1>2. ASSUME NEW P \in PathType, NEW k \in Nodes PROVE OneMore(P, k) \in PathType
    BY DEF OneMore, PathType
  <1> QED
    BY <1>1, <1>2

LEMMA PathViaIsThere ==
    IsPathVia(PathVia) /\ PathVia \in [SUBSET Nodes -> PathType]
  <1> DEFINE D == SUBSET Nodes
             V == PathType
             N == Cardinality(Nodes)
             size == [M \in D |-> Cardinality(M)]
             Body(f, M) == IF M = {} THEN OneEdge ELSE OneMore(f[M \ {AnyOf(M)}], AnyOf(M))
             F == [M \in D |-> [f \in [D -> V] |-> Body(f, M)]]
  <1>0. \A M \in D : M # {} => AnyOf(M) \in M
    BY DEF AnyOf
  <1>1. V # {} /\ N \in Nat /\ size \in [D -> 0..N]
    BY PathsAreTyped, SubsetSizes
  <1>2. F \in [D -> [[D -> V] -> V]]
    <2>1. ASSUME NEW M \in D, NEW f \in [D -> V] PROVE Body(f, M) \in V
      <3>1. CASE M = {}
        BY <3>1, PathsAreTyped
      <3>2. CASE M # {}
        <4>1. AnyOf(M) \in Nodes /\ M \ {AnyOf(M)} \in D
          BY <1>0, <3>2
        <4>2. f[M \ {AnyOf(M)}] \in PathType
          BY <4>1
        <4> QED
          BY <3>2, <4>1, <4>2, PathsAreTyped
      <3> QED
        BY <3>1, <3>2
    <2> HIDE DEF V, D, Body
    <2> QED
      BY <2>1
  <1>3. ASSUME NEW M \in D, NEW g \in [D -> V], NEW h \in [D -> V],
               \A A \in D : size[A] < size[M] => g[A] = h[A]
        PROVE  F[M][g] = F[M][h]
    <2>1. CASE M # {}
      <3>1. M \ {AnyOf(M)} \in D /\ Cardinality(M \ {AnyOf(M)}) < Cardinality(M)
        BY <1>0, <2>1, SmallerSubset
      <3>2. g[M \ {AnyOf(M)}] = h[M \ {AnyOf(M)}]
        BY <1>3, <3>1
      <3>3. Body(g, M) = Body(h, M)
        BY <3>2
      <3> HIDE DEF Body
      <3> QED
        BY <3>3
    <2>2. CASE M = {}
      <3>1. Body(g, M) = Body(h, M)
        BY <2>2
      <3> HIDE DEF Body
      <3> QED
        BY <3>1
    <2> QED
      BY <2>1, <2>2
  <1>4. PICK f : Solves(f, D, V, F)
    <2> HIDE DEF D, V, F, size, N
    <2>1. \A M \in D : \A g, h \in [D -> V] :
             (\A A \in D : size[A] < size[M] => g[A] = h[A]) => F[M][g] = F[M][h]
      BY <1>3
    <2>2. IsRecursion(D, V, N, size, F)
      BY <1>1, <1>2, <2>1 DEF IsRecursion
    <2> QED
      BY <2>2, RecursiveFunction
  <1>5. f \in [D -> V]
    BY <1>4 DEF Solves
  <1>6. \A M \in D : f[M] = Body(f, M)
    <2> HIDE DEF Body
    <2> QED
      BY <1>4, <1>5 DEF Solves
  <1>7. IsPathVia(f)
    <2>1. f = [M \in D |-> f[M]]
      BY <1>5
    <2> QED
      BY <1>6, <2>1 DEF IsPathVia
  <1>8. PathVia = CHOOSE g : IsPathVia(g)
    BY DEF PathVia, IsPathVia, OneEdge, OneMore, AnyOf
  <1>9. IsPathVia(PathVia)
    BY <1>7, <1>8
  <1>10. \A M \in SUBSET Nodes :
           PathVia[M] = IF M = {} THEN OneEdge ELSE OneMore(PathVia[M \ {AnyOf(M)}], AnyOf(M))
    BY <1>9 DEF IsPathVia
  <1>11. PathVia \in [SUBSET Nodes -> PathType]
    <2> DEFINE T == {M \in SUBSET Nodes : PathVia[M] \notin PathType}
    <2>1. T = {}
      <3> SUFFICES ASSUME T # {} PROVE FALSE
        OBVIOUS
      <3>1. PICK M \in T : \A x \in M : M \ {x} \notin T
        <4>1. T \in SUBSET SUBSET Nodes /\ IsFiniteSet(Nodes)
          BY WorkflowAssumption DEF WorkflowAssumption
        <4> HIDE DEF T
        <4> QED
          BY <4>1, MinimalSubset
      <3>2. M # {}
        BY <1>10, PathsAreTyped
      <3>3. AnyOf(M) \in M /\ AnyOf(M) \in Nodes /\ M \ {AnyOf(M)} \in SUBSET Nodes
        BY <1>0, <3>2
      <3>4. PathVia[M \ {AnyOf(M)}] \in PathType
        BY <3>1, <3>3
      <3> QED
        BY <1>10, <3>2, <3>3, <3>4, PathsAreTyped
    <2>2. \A M \in SUBSET Nodes : PathVia[M] \in PathType
      BY <2>1
    <2>3. PathVia = [M \in SUBSET Nodes |-> PathVia[M]]
      BY <1>9 DEF IsPathVia
    <2> QED
      BY <2>2, <2>3
  <1> QED
    BY <1>9, <1>11

\* There is a path from m to n with nodes of M in between.
Leads(M, m, n) == PathVia[M][m][n]
Edge(m, n) == edges[m][n] > 0

LEMMA LeadsSteps ==
    /\ \A m, n \in Nodes : Leads({}, m, n) <=> Edge(m, n)
    /\ \A M \in SUBSET Nodes : M # {} =>
         \E k \in M : \A m, n \in Nodes :
            Leads(M, m, n) <=> \/ Leads(M \ {k}, m, n)
                               \/ Leads(M \ {k}, m, k) /\ Leads(M \ {k}, k, n)
  <1>1. \A m, n \in Nodes : Leads({}, m, n) <=> Edge(m, n)
    <2>1. PathVia[{}] = OneEdge
      BY PathViaIsThere DEF IsPathVia
    <2>2. \A m, n \in Nodes : PathVia[{}][m][n] = (edges[m][n] > 0)
      BY <2>1 DEF OneEdge
    <2> QED
      BY <2>2 DEF Leads, Edge
  <1>2. ASSUME NEW M \in SUBSET Nodes, M # {}
        PROVE  \E k \in M : \A m, n \in Nodes :
                  Leads(M, m, n) <=> \/ Leads(M \ {k}, m, n)
                                     \/ Leads(M \ {k}, m, k) /\ Leads(M \ {k}, k, n)
    <2> DEFINE k == AnyOf(M)
    <2>1. k \in M
      BY <1>2 DEF AnyOf
    <2> HIDE DEF k
    <2>2. PathVia[M] = OneMore(PathVia[M \ {k}], k)
      BY <1>2, PathViaIsThere DEF IsPathVia, k
    <2>3. \A m, n \in Nodes :
             Leads(M, m, n) <=> \/ Leads(M \ {k}, m, n)
                                \/ Leads(M \ {k}, m, k) /\ Leads(M \ {k}, k, n)
      <3> TAKE m, n \in Nodes
      <3> DEFINE P == PathVia[M \ {k}]
      <3>1. P[m][n] \in BOOLEAN /\ P[m][k] \in BOOLEAN /\ P[k][n] \in BOOLEAN
        <4>1. P \in PathType /\ k \in Nodes
          BY <2>1, PathViaIsThere
        <4> QED
          BY <4>1 DEF PathType
      <3> HIDE DEF P
      <3>2. PathVia[M][m][n] = (P[m][n] \/ (P[m][k] /\ P[k][n]))
        BY <2>2 DEF OneMore, P
      <3> QED
        BY <3>1, <3>2 DEF Leads, P
    <2> QED
      BY <2>1, <2>3
  <1> QED
    BY <1>1, <1>2

\* An edge is a path; a path begins with an edge; what leads to k and on from k
\* leads on; and a path does not leave a set that no edge leaves.
PathFacts(M) ==
    /\ \A m, n \in Nodes : Edge(m, n) => Leads(M, m, n)
    /\ \A m, n \in Nodes : Leads(M, m, n) =>
         Edge(m, n) \/ \E j \in Nodes : Edge(m, j) /\ Leads(M, j, n)
    /\ \A k \in M : \A m, n \in Nodes : Leads(M, m, k) /\ Leads(M, k, n) => Leads(M, m, n)
    /\ \A C \in SUBSET Nodes : (\A m \in C, n \in Nodes : Edge(m, n) => n \in C) =>
         \A m \in C, n \in Nodes : Leads(M, m, n) => n \in C

LEMMA PathFactsStep ==
    ASSUME NEW M \in SUBSET Nodes, NEW k \in M, PathFacts(M \ {k}),
           \A m, n \in Nodes :
              Leads(M, m, n) <=> \/ Leads(M \ {k}, m, n)
                                 \/ Leads(M \ {k}, m, k) /\ Leads(M \ {k}, k, n)
    PROVE  PathFacts(M)
  <1> DEFINE B == M \ {k}
             P(m, n) == Leads(B, m, n)
             Q(m, n) == Leads(M, m, n)
  <1>1. \A m, n \in Nodes : Q(m, n) <=> P(m, n) \/ (P(m, k) /\ P(k, n))
    OBVIOUS
  <1>2. /\ \A m, n \in Nodes : Edge(m, n) => P(m, n)
        /\ \A m, n \in Nodes : P(m, n) => Edge(m, n) \/ \E j \in Nodes : Edge(m, j) /\ P(j, n)
        /\ \A j \in B : \A m, n \in Nodes : P(m, j) /\ P(j, n) => P(m, n)
        /\ \A C \in SUBSET Nodes : (\A m \in C, n \in Nodes : Edge(m, n) => n \in C) =>
             \A m \in C, n \in Nodes : P(m, n) => n \in C
    BY DEF PathFacts
  <1>0. k \in Nodes
    OBVIOUS
  <1> HIDE DEF P, Q
  <1>3. \A m, n \in Nodes : Edge(m, n) => Q(m, n)
    BY <1>1, <1>2
  <1>4. ASSUME NEW m \in Nodes, NEW n \in Nodes, Q(m, n)
        PROVE  Edge(m, n) \/ \E j \in Nodes : Edge(m, j) /\ Q(j, n)
    <2>1. CASE P(m, n)
      BY <1>1, <1>2, <2>1
    <2>2. CASE P(m, k) /\ P(k, n)
      <3>1. CASE Edge(m, k)
        BY <1>0, <1>1, <2>2, <3>1
      <3>2. CASE \E j \in Nodes : Edge(m, j) /\ P(j, k)
        BY <1>0, <1>1, <2>2, <3>2
      <3> QED
        BY <1>0, <1>2, <2>2, <3>1, <3>2
    <2> QED
      BY <1>1, <1>4, <2>1, <2>2
  <1>5. ASSUME NEW j \in M, NEW m \in Nodes, NEW n \in Nodes, Q(m, j), Q(j, n)
        PROVE  Q(m, n)
    <2>1. CASE j = k
      <3>1. P(m, k) /\ P(k, n)
        BY <1>0, <1>1, <1>5, <2>1
      <3> QED
        BY <1>1, <3>1
    <2>2. CASE j # k
      <3>1. j \in B /\ j \in Nodes
        BY <2>2
      <3>2. P(m, j) \/ (P(m, k) /\ P(k, j))
        BY <1>1, <1>5, <3>1
      <3>3. P(j, n) \/ (P(j, k) /\ P(k, n))
        BY <1>1, <1>5, <3>1
      <3>4. P(m, j) /\ P(j, n) => P(m, n)
        BY <1>2, <3>1
      <3>5. P(m, j) /\ P(j, k) => P(m, k)
        BY <1>0, <1>2, <3>1
      <3>6. P(k, j) /\ P(j, n) => P(k, n)
        BY <1>0, <1>2, <3>1
      <3>7. P(m, n) \/ (P(m, k) /\ P(k, n))
        BY <3>2, <3>3, <3>4, <3>5, <3>6
      <3> QED
        BY <1>1, <3>7
    <2> QED
      BY <2>1, <2>2
  <1>6. ASSUME NEW C \in SUBSET Nodes, \A m \in C, n \in Nodes : Edge(m, n) => n \in C,
               NEW m \in C, NEW n \in Nodes, Q(m, n)
        PROVE  n \in C
    <2>1. \A a \in C, b \in Nodes : P(a, b) => b \in C
      BY <1>2, <1>6
    <2> QED
      BY <1>0, <1>1, <1>6, <2>1
  <1>7. \A j \in M : \A m, n \in Nodes : Q(m, j) /\ Q(j, n) => Q(m, n)
    BY <1>5
  <1>8. \A m, n \in Nodes : Q(m, n) => Edge(m, n) \/ \E j \in Nodes : Edge(m, j) /\ Q(j, n)
    BY <1>4
  <1>9. \A C \in SUBSET Nodes : (\A m \in C, n \in Nodes : Edge(m, n) => n \in C) =>
             \A m \in C, n \in Nodes : Q(m, n) => n \in C
    BY <1>6
  <1> QED
    BY <1>3, <1>7, <1>8, <1>9 DEF PathFacts, Q

LEMMA PathFactsHold ==
    \A M \in SUBSET Nodes : PathFacts(M)
  <1> DEFINE T == {M \in SUBSET Nodes : ~PathFacts(M)}
  <1>1. T = {}
    <2> SUFFICES ASSUME T # {} PROVE FALSE
      OBVIOUS
    <2>1. PICK M \in T : \A x \in M : M \ {x} \notin T
      <3>1. T \in SUBSET SUBSET Nodes /\ IsFiniteSet(Nodes)
        BY WorkflowAssumption DEF WorkflowAssumption
      <3> HIDE DEF T
      <3> QED
        BY <3>1, MinimalSubset
    <2>2. PathFacts({})
      BY LeadsSteps DEF PathFacts
    <2>3. M # {}
      BY <2>2
    <2>4. PICK k \in M : \A m, n \in Nodes :
              Leads(M, m, n) <=> \/ Leads(M \ {k}, m, n)
                                 \/ Leads(M \ {k}, m, k) /\ Leads(M \ {k}, k, n)
      BY <2>3, LeadsSteps
    <2>5. PathFacts(M \ {k})
      BY <2>1
    <2>6. PathFacts(M)
      BY <2>4, <2>5, PathFactsStep
    <2> QED
      BY <2>6
  <1> QED
    BY <1>1

LEMMA ReachesFacts ==
    /\ \A m, n \in Nodes : Edge(m, n) => Reaches(m, n)
    /\ \A m, n \in Nodes : Reaches(m, n) =>
         Edge(m, n) \/ \E j \in Nodes : Edge(m, j) /\ Reaches(j, n)
    /\ \A k, m, n \in Nodes : Reaches(m, k) /\ Reaches(k, n) => Reaches(m, n)
    /\ \A C \in SUBSET Nodes : (\A m \in C, n \in Nodes : Edge(m, n) => n \in C) =>
         \A m \in C, n \in Nodes : Reaches(m, n) => n \in C
  <1>1. PathFacts(Nodes)
    BY PathFactsHold
  <1>2. \A m, n : Reaches(m, n) <=> Leads(Nodes, m, n)
    BY DEF Reaches, Leads
  <1> HIDE DEF Leads, Reaches
  <1> QED
    BY <1>1, <1>2 DEF PathFacts

\* Without a cycle every set of nodes has one without predecessors in the set.
LEMMA SourceExists ==
    ASSUME ~Cyclic, NEW C \in SUBSET Nodes, C # {}
    PROVE  \E n \in C : Predecessors(n) \cap C = {}
  <1> DEFINE A(n) == {m \in C : Reaches(m, n)}
             I == {A(n) : n \in C}
  <1>1. IsFiniteSet(Nodes)
    BY WorkflowAssumption DEF WorkflowAssumption
  <1>2. I \subseteq SUBSET Nodes /\ I # {}
    OBVIOUS
  <1>3. \E X \in I : \A Y \in I : <<Y, X>> \notin StrictSubsetOrdering(Nodes)
    <2> HIDE DEF I
    <2> QED
      BY <1>1, <1>2, FS_StrictSubsetOrderingWellFounded, FS_FiniteSubsetsOfFinite, WFMin
  <1>4. PICK n \in C : \A Y \in I : <<Y, A(n)>> \notin StrictSubsetOrdering(Nodes)
    BY <1>3
  <1>5. ASSUME NEW p \in Predecessors(n) \cap C PROVE FALSE
    <2>1. p \in Nodes /\ Edge(p, n) /\ n \in Nodes
      BY DEF Predecessors, Edge
    <2>2. Reaches(p, n)
      BY <2>1, ReachesFacts
    <2>3. A(p) \subseteq A(n)
      BY <2>1, <2>2, ReachesFacts
    <2>4. p \in A(n) /\ p \notin A(p)
      BY <2>1, <2>2 DEF Cyclic
    <2>5. <<A(p), A(n)>> \in StrictSubsetOrdering(Nodes)
      <3> HIDE DEF A
      <3>1. A(p) \in SUBSET Nodes /\ A(n) \in SUBSET Nodes
        BY DEF A
      <3> QED
        BY <2>3, <2>4, <3>1 DEF StrictSubsetOrdering
    <2>6. A(p) \in I
      OBVIOUS
    <2> QED
      BY <1>4, <2>5, <2>6
  <1> QED
    BY <1>5

-----------------------------------------------------------------------------
(* Stages without cycles.                                                  *)

\* The stages are apart; what is in the stages before the k-th is what has all its
\* predecessors in those before the last of them.
LEMMA RankedFacts ==
    ASSUME EdgesType
    PROVE  /\ \A k \in Nat : Ranked(k) \subseteq Nodes
           /\ \A k \in Nat : Ranked(k) \subseteq Ranked(k + 1)
           /\ \A k \in Nat : Peel(k).ready = Ranked(k + 1) \ Ranked(k)
           /\ \A k \in Nat : Ranked(k + 1) = {n \in Nodes : Predecessors(n) \subseteq Ranked(k)}
           /\ \A i, k \in Nat : i <= k => Ranked(i) \subseteq Ranked(k)
           /\ \A k \in Nat : \A n \in Ranked(k) : \E i \in 0..(k - 1) : n \in Peel(i).ready
  <1>1. \A k \in Nat : /\ Peel(k).ready = {n \in Nodes \ Ranked(k) : Predecessors(n) \subseteq Ranked(k)}
                       /\ Ranked(k) \subseteq {n \in Nodes : Predecessors(n) \subseteq Ranked(k)}
    BY PeelIsWhatItIs DEF PeelIs
  <1>2. \A k \in Nat : Ranked(k + 1) = Ranked(k) \cup Peel(k).ready
    BY RankedSteps
  <1>3. \A k \in Nat : Ranked(k) \subseteq Nodes /\ Ranked(k) \subseteq Ranked(k + 1)
    BY <1>1, <1>2
  <1>4. \A k \in Nat : Peel(k).ready = Ranked(k + 1) \ Ranked(k)
    BY <1>1, <1>2
  <1>5. \A k \in Nat : Ranked(k + 1) = {n \in Nodes : Predecessors(n) \subseteq Ranked(k)}
    BY <1>1, <1>2
  <1>6. \A i, k \in Nat : i <= k => Ranked(i) \subseteq Ranked(k)
    <2> SUFFICES ASSUME NEW i \in Nat, NEW k \in Nat, i <= k PROVE Ranked(i) \subseteq Ranked(k)
      OBVIOUS
    <2> DEFINE T == {j \in Nat : Ranked(i) \subseteq Ranked(i + j)}
    <2>1. 0 \in T
      <3>1. i + 0 = i
        OBVIOUS
      <3> QED
        BY <3>1
    <2>2. ASSUME NEW j \in T PROVE j + 1 \in T
      <3>1. i + j \in Nat /\ i + (j + 1) = (i + j) + 1
        OBVIOUS
      <3>2. Ranked(i + j) \subseteq Ranked(i + (j + 1))
        BY <1>3, <3>1
      <3> QED
        BY <3>2
    <2>3. T = Nat
      <3>1. T \in SUBSET Nat
        OBVIOUS
      <3> HIDE DEF T
      <3> QED
        BY <2>1, <2>2, <3>1, NatSetInduction
    <2>4. k - i \in Nat /\ i + (k - i) = k
      OBVIOUS
    <2>5. k - i \in T
      BY <2>3, <2>4
    <2> QED
      BY <2>4, <2>5
  <1>7. \A k \in Nat : \A n \in Ranked(k) : \E i \in 0..(k - 1) : n \in Peel(i).ready
    BY DEF Ranked
  <1> QED
    BY <1>3, <1>4, <1>5, <1>6, <1>7

\* Without a cycle a stage is empty only after all nodes were in one.
LEMMA StagesGoOn ==
    ASSUME EdgesType, ~Cyclic
    PROVE  /\ \A k \in Nat : Peel(k).ready = {} => Ranked(k) = Nodes
           /\ \A k \in Nat : Ranked(k) = Nodes \/ Cardinality(Ranked(k)) >= k
           /\ Ranked(Cardinality(Nodes)) = Nodes
  <1>1. ASSUME NEW k \in Nat, Ranked(k) # Nodes PROVE Peel(k).ready # {}
    <2>1. Ranked(k) \subseteq Nodes
      BY RankedFacts
    <2>2. Nodes \ Ranked(k) # {} /\ Nodes \ Ranked(k) \in SUBSET Nodes
      BY <1>1, <2>1
    <2>3. PICK n \in Nodes \ Ranked(k) : Predecessors(n) \cap (Nodes \ Ranked(k)) = {}
      BY <2>2, SourceExists
    <2>4. Predecessors(n) \subseteq Ranked(k)
      BY <2>3 DEF Predecessors
    <2>5. n \in Peel(k).ready
      BY <2>3, <2>4, PeelIsWhatItIs DEF PeelIs
    <2> QED
      BY <2>5
  <1> DEFINE T == {k \in Nat : Ranked(k) = Nodes \/ Cardinality(Ranked(k)) >= k}
  <1>2. 0 \in T
    <2>1. Cardinality(Ranked(0)) \in Nat
      BY RankedFacts, SubsetSizes
    <2> QED
      BY <2>1
  <1>3. ASSUME NEW k \in T PROVE k + 1 \in T
    <2>1. Ranked(k) \subseteq Ranked(k + 1) /\ Ranked(k + 1) \subseteq Nodes
      BY RankedFacts
    <2>2. CASE Ranked(k) = Nodes
      BY <2>1, <2>2
    <2>3. CASE Ranked(k) # Nodes
      <3>1. Peel(k).ready # {} /\ Peel(k).ready = Ranked(k + 1) \ Ranked(k)
        BY <1>1, <2>3, RankedFacts
      <3>2. Ranked(k) # Ranked(k + 1)
        BY <3>1
      <3>3. IsFiniteSet(Ranked(k + 1))
        BY <2>1, WorkflowAssumption, FS_Subset DEF WorkflowAssumption
      <3>4. /\ Cardinality(Ranked(k)) <= Cardinality(Ranked(k + 1))
            /\ Cardinality(Ranked(k)) # Cardinality(Ranked(k + 1))
        BY <2>1, <3>2, <3>3, FS_Subset
      <3>5. Cardinality(Ranked(k)) \in Nat /\ Cardinality(Ranked(k + 1)) \in Nat
        BY <2>1, SubsetSizes, RankedFacts
      <3>6. Cardinality(Ranked(k)) >= k
        BY <2>3
      <3>7. Cardinality(Ranked(k + 1)) >= k + 1
        BY <3>4, <3>5, <3>6
      <3> QED
        BY <3>7
    <2> QED
      BY <2>2, <2>3
  <1>4. T = Nat
    <2>1. T \in SUBSET Nat
      OBVIOUS
    <2> HIDE DEF T
    <2> QED
      BY <1>2, <1>3, <2>1, NatSetInduction
  <1>5. \A k \in Nat : Ranked(k) = Nodes \/ Cardinality(Ranked(k)) >= k
    BY <1>4
  <1>6. Ranked(Cardinality(Nodes)) = Nodes
    <2> DEFINE R == Ranked(Cardinality(Nodes))
    <2>1. R \subseteq Nodes /\ (R = Nodes \/ Cardinality(R) >= Cardinality(Nodes))
      BY <1>5, SubsetSizes, RankedFacts
    <2> HIDE DEF R
    <2>2. Cardinality(R) \in 0..Cardinality(Nodes) /\ Cardinality(Nodes) \in Nat
      BY <2>1, SubsetSizes
    <2>3. IsFiniteSet(Nodes)
      BY WorkflowAssumption DEF WorkflowAssumption
    <2>4. Cardinality(Nodes) = Cardinality(R) => R = Nodes
      BY <2>1, <2>3, FS_Subset
    <2>5. R = Nodes
      BY <2>1, <2>2, <2>4
    <2> QED
      BY <2>5 DEF R
  <1> QED
    BY <1>1, <1>5, <1>6

-----------------------------------------------------------------------------
(* The longest paths.                                                      *)

LEMMA MaxOver ==
    ASSUME NEW w \in [Nodes -> Nat], NEW A \in SUBSET Nodes, A # {}
    PROVE  \E x \in A : /\ \A y \in A : w[x] >= w[y]
                        /\ Max({w[y] : y \in A}) = w[x]
  <1> DEFINE Top(B) == \E x \in B : \A y \in B : w[x] >= w[y]
             T == {B \in SUBSET Nodes : B = {} \/ Top(B)}
  <1>1. {} \in T
    OBVIOUS
  <1>2. ASSUME NEW B \in T, NEW z \in Nodes \ B PROVE B \cup {z} \in T
    <2>1. CASE B = {}
      <3>1. w[z] >= w[z]
        OBVIOUS
      <3> QED
        BY <2>1, <3>1
    <2>2. CASE B # {}
      <3>1. PICK x \in B : \A y \in B : w[x] >= w[y]
        BY <2>2
      <3>2. w[x] \in Nat /\ w[z] \in Nat /\ \A y \in B : w[y] \in Nat
        OBVIOUS
      <3>3. CASE w[x] >= w[z]
        <4>1. x \in B \cup {z} /\ \A y \in B \cup {z} : w[x] >= w[y]
          BY <3>1, <3>3
        <4> QED
          BY <4>1
      <3>4. CASE ~(w[x] >= w[z])
        <4>1. \A y \in B : w[z] >= w[y]
          BY <3>1, <3>2, <3>4
        <4>2. z \in B \cup {z} /\ \A y \in B \cup {z} : w[z] >= w[y]
          BY <3>2, <4>1
        <4> QED
          BY <4>2
      <3> QED
        BY <3>3, <3>4
    <2> QED
      BY <2>1, <2>2
  <1>3. T = SUBSET Nodes
    <2>1. T \in SUBSET SUBSET Nodes /\ IsFiniteSet(Nodes)
      BY WorkflowAssumption DEF WorkflowAssumption
    <2> HIDE DEF T
    <2> QED
      BY <1>1, <1>2, <2>1, SubsetInduction
  <1>4. PICK x \in A : \A y \in A : w[x] >= w[y]
    BY <1>3
  <1> DEFINE S == {w[y] : y \in A}
             m == Max(S)
  <1>5. w[x] \in S /\ \A s \in S : w[x] >= s
    BY <1>4
  <1>6. m \in S /\ \A s \in S : m >= s
    <2> HIDE DEF S
    <2> QED
      BY <1>5 DEF Max
  <1>7. m = w[x]
    <2>1. m \in Nat /\ w[x] \in Nat
      BY <1>6
    <2>2. m >= w[x] /\ w[x] >= m
      BY <1>5, <1>6
    <2> HIDE DEF m, S
    <2> QED
      BY <2>1, <2>2
  <1> QED
    BY <1>4, <1>7

Preds(M, n) == {p \in Predecessors(n) \cap M : n \in M /\ p # n}
Longer(f, M) == [n \in Nodes |-> IF Preds(M, n) = {} THEN 0
                                 ELSE 1 + Max({f[M \ {n}][p] : p \in Preds(M, n)})]
IsLongestPath(f) == f = [M \in SUBSET Nodes |-> Longer(f, M)]

LEMMA LongestPathIsThere ==
    IsLongestPath(LongestPath)
  <1> DEFINE D == SUBSET Nodes
             V == [Nodes -> Nat]
             N == Cardinality(Nodes)
             size == [M \in D |-> Cardinality(M)]
             F == [M \in D |-> [f \in [D -> V] |-> Longer(f, M)]]
  <1>0. \A M \in D : \A n \in Nodes : Preds(M, n) # {} => n \in M /\ Preds(M, n) \in SUBSET Nodes
    BY DEF Preds
  <1>1. V # {} /\ N \in Nat /\ size \in [D -> 0..N]
    <2>1. [n \in Nodes |-> 0] \in V
      OBVIOUS
    <2> QED
      BY <2>1, SubsetSizes
  <1>2. F \in [D -> [[D -> V] -> V]]
    <2>1. ASSUME NEW M \in D, NEW f \in [D -> V] PROVE Longer(f, M) \in V
      <3>1. ASSUME NEW n \in Nodes, Preds(M, n) # {}
            PROVE  1 + Max({f[M \ {n}][p] : p \in Preds(M, n)}) \in Nat
        <4> DEFINE w == f[M \ {n}]
                   A == Preds(M, n)
        <4>1. w \in [Nodes -> Nat] /\ A \in SUBSET Nodes /\ A # {}
          BY <1>0, <3>1
        <4> HIDE DEF w, A
        <4>2. PICK x \in A : Max({w[y] : y \in A}) = w[x]
          BY <4>1, MaxOver
        <4>3. Max({w[y] : y \in A}) \in Nat
          BY <4>1, <4>2
        <4>4. 1 + Max({w[y] : y \in A}) \in Nat
          BY <4>3
        <4> QED
          BY <4>4 DEF w, A
      <3> QED
        BY <3>1 DEF Longer
    <2> HIDE DEF V, D
    <2> QED
      BY <2>1
  <1>3. ASSUME NEW M \in D, NEW g \in [D -> V], NEW h \in [D -> V],
               \A A \in D : size[A] < size[M] => g[A] = h[A]
        PROVE  F[M][g] = F[M][h]
    <2>1. ASSUME NEW n \in Nodes, Preds(M, n) # {} PROVE g[M \ {n}] = h[M \ {n}]
      <3>1. n \in M
        BY <1>0, <2>1
      <3>2. M \ {n} \in D /\ Cardinality(M \ {n}) < Cardinality(M)
        BY <3>1, SmallerSubset
      <3> QED
        BY <1>3, <3>2
    <2>2. Longer(g, M) = Longer(h, M)
      BY <2>1 DEF Longer
    <2> QED
      BY <2>2
  <1>4. PICK f : Solves(f, D, V, F)
    <2> HIDE DEF D, V, F, size, N
    <2>1. \A M \in D : \A g, h \in [D -> V] :
             (\A A \in D : size[A] < size[M] => g[A] = h[A]) => F[M][g] = F[M][h]
      BY <1>3
    <2>2. IsRecursion(D, V, N, size, F)
      BY <1>1, <1>2, <2>1 DEF IsRecursion
    <2> QED
      BY <2>2, RecursiveFunction
  <1>5. f \in [D -> V]
    BY <1>4 DEF Solves
  <1>6. \A M \in D : f[M] = Longer(f, M)
    BY <1>4, <1>5 DEF Solves
  <1>7. IsLongestPath(f)
    <2>1. f = [M \in D |-> f[M]]
      BY <1>5
    <2> QED
      BY <1>6, <2>1 DEF IsLongestPath
  <1>8. LongestPath = CHOOSE g : IsLongestPath(g)
    BY DEF LongestPath, IsLongestPath, Longer, Preds
  <1> QED
    BY <1>7, <1>8

LEMMA LongestPathIs ==
    \A M \in SUBSET Nodes : \A n \in Nodes :
       LongestPath[M][n] = IF Preds(M, n) = {} THEN 0
                           ELSE 1 + Max({LongestPath[M \ {n}][p] : p \in Preds(M, n)})
  <1>1. \A M \in SUBSET Nodes : LongestPath[M] = Longer(LongestPath, M)
    BY LongestPathIsThere DEF IsLongestPath
  <1> QED
    BY <1>1 DEF Longer

LEMMA LongestPathIsTyped ==
    \A M \in SUBSET Nodes : LongestPath[M] \in [Nodes -> Nat]
  <1> DEFINE T == {M \in SUBSET Nodes : LongestPath[M] \notin [Nodes -> Nat]}
  <1>1. T = {}
    <2> SUFFICES ASSUME T # {} PROVE FALSE
      OBVIOUS
    <2>1. PICK M \in T : \A x \in M : M \ {x} \notin T
      <3>1. T \in SUBSET SUBSET Nodes /\ IsFiniteSet(Nodes)
        BY WorkflowAssumption DEF WorkflowAssumption
      <3> HIDE DEF T
      <3> QED
        BY <3>1, MinimalSubset
    <2>2. \A n \in M : LongestPath[M \ {n}] \in [Nodes -> Nat]
      BY <2>1
    <2>0. M \in SUBSET Nodes
      OBVIOUS
    <2>3. ASSUME NEW n \in Nodes PROVE LongestPath[M][n] \in Nat
      <3>1. CASE Preds(M, n) = {}
        <4>1. LongestPath[M][n] = 0
          BY <2>0, <3>1, LongestPathIs
        <4> QED
          BY <4>1
      <3>2. CASE Preds(M, n) # {}
        <4> DEFINE w == LongestPath[M \ {n}]
                   A == Preds(M, n)
        <4>1. n \in M /\ A \in SUBSET Nodes /\ A # {}
          BY <3>2 DEF Preds
        <4>2. w \in [Nodes -> Nat]
          BY <2>2, <4>1
        <4>3. LongestPath[M][n] = 1 + Max({w[p] : p \in A})
          BY <3>2, LongestPathIs
        <4> HIDE DEF w, A
        <4>4. PICK x \in A : Max({w[y] : y \in A}) = w[x]
          BY <4>1, <4>2, MaxOver
        <4>5. Max({w[y] : y \in A}) \in Nat
          BY <4>1, <4>2, <4>4
        <4> QED
          BY <4>3, <4>5
      <3> QED
        BY <3>1, <3>2
    <2>4. LongestPath[M] = [n \in Nodes |-> LongestPath[M][n]]
      <3>1. LongestPath[M] = Longer(LongestPath, M)
        BY LongestPathIsThere DEF IsLongestPath
      <3> QED
        BY <3>1 DEF Longer
    <2>5. LongestPath[M] \in [Nodes -> Nat]
      BY <2>3, <2>4
    <2> QED
      BY <2>5
  <1> QED
    BY <1>1

\* A node of the k-th stage is at the end of a longest path of k edges, as soon as the
\* stages before are among the nodes that count.
LEMMA StageIsLevel ==
    ASSUME EdgesType
    PROVE  \A k \in Nat : \A n \in Peel(k).ready : Level(n) = k
  <1> DEFINE Ok(k) == \A n \in Peel(k).ready : \A M \in SUBSET Nodes :
                         Ranked(k) \cup {n} \subseteq M => LongestPath[M][n] = k
             T == {k \in Nat : \A i \in 0..k : Ok(i)}
  <1>1. ASSUME NEW k \in Nat, \A i \in Nat : i < k => Ok(i) PROVE Ok(k)
    <2> SUFFICES ASSUME NEW n \in Peel(k).ready, NEW M \in SUBSET Nodes, Ranked(k) \cup {n} \subseteq M
                 PROVE  LongestPath[M][n] = k
      OBVIOUS
    <2> DEFINE A == Predecessors(n)
               w == LongestPath[M \ {n}]
    <2>1. n \in Nodes /\ n \notin Ranked(k) /\ A \subseteq Ranked(k) /\ Ranked(k) \subseteq Nodes
      BY PeelIsWhatItIs, RankedFacts DEF PeelIs
    <2>2. Preds(M, n) = A
      BY <2>1 DEF Preds
    <2>3. M \ {n} \in SUBSET Nodes /\ w \in [Nodes -> Nat]
      BY LongestPathIsTyped
    <2>4. ASSUME NEW p \in A PROVE \E i \in 0..(k - 1) : p \in Peel(i).ready /\ w[p] = i
      <3>1. PICK i \in 0..(k - 1) : p \in Peel(i).ready
        BY <2>1, RankedFacts
      <3>2. i \in Nat /\ i < k /\ i <= k
        OBVIOUS
      <3>3. Ranked(i) \subseteq Ranked(k)
        BY <3>2, RankedFacts
      <3>4. Ranked(i) \cup {p} \subseteq M \ {n}
        BY <2>1, <3>3
      <3>5. w[p] = i
        BY <1>1, <2>3, <3>1, <3>2, <3>4
      <3> QED
        BY <3>1, <3>5
    <2>5. CASE k = 0
      <3>1. A = {}
        BY <2>1, <2>5, RankedSteps
      <3> QED
        BY <2>1, <2>2, <2>5, <3>1, LongestPathIs
    <2>6. CASE k # 0
      <3> DEFINE j == k - 1
      <3>1. j \in Nat /\ j + 1 = k
        BY <2>6
      <3> HIDE DEF j
      <3>2. PICK p \in A : p \notin Ranked(j)
        <4>1. Ranked(k) = {m \in Nodes : Predecessors(m) \subseteq Ranked(j)}
          BY <3>1, RankedFacts
        <4> QED
          BY <2>1, <4>1
      <3>3. PICK i \in 0..(k - 1) : p \in Peel(i).ready /\ w[p] = i
        BY <2>4
      <3>4. i = j
        <4>1. i \in Nat /\ i <= j
          BY <3>1
        <4>2. CASE i < j
          <5>1. i + 1 \in Nat /\ i + 1 <= j
            BY <3>1, <4>1, <4>2
          <5>2. Ranked(i + 1) \subseteq Ranked(j) /\ p \in Ranked(i + 1)
            BY <3>1, <3>3, <4>1, <5>1, RankedFacts
          <5> QED
            BY <3>2, <5>2
        <4> QED
          BY <3>1, <4>1, <4>2
      <3>5. A \in SUBSET Nodes /\ A # {}
        BY <2>1, <3>2
      <3> HIDE DEF w
      <3>6. PICK x \in A : /\ \A y \in A : w[x] >= w[y]
                           /\ Max({w[y] : y \in A}) = w[x]
        BY <2>3, <3>5, MaxOver
      <3>7. w[x] >= j
        BY <3>2, <3>3, <3>4, <3>6
      <3>8. w[x] <= j /\ w[x] \in Nat
        <4>1. PICK l \in 0..(k - 1) : w[x] = l
          BY <2>4, <3>6
        <4> QED
          BY <3>1, <4>1
      <3>9. w[x] = j
        BY <3>1, <3>7, <3>8
      <3>10. LongestPath[M][n] = 1 + Max({w[y] : y \in A})
        BY <2>1, <2>2, <3>5, LongestPathIs DEF w
      <3> QED
        BY <3>1, <3>6, <3>9, <3>10
    <2> QED
      BY <2>5, <2>6
  <1>2. 0 \in T
    <2>1. \A i \in Nat : i < 0 => Ok(i)
      OBVIOUS
    <2> HIDE DEF Ok
    <2>2. Ok(0)
      BY <1>1, <2>1
    <2>3. 0..0 = {0}
      OBVIOUS
    <2> QED
      BY <2>2, <2>3
  <1>3. ASSUME NEW k \in T PROVE k + 1 \in T
    <2> HIDE DEF Ok
    <2>1. k \in Nat /\ \A i \in 0..k : Ok(i)
      OBVIOUS
    <2>2. \A i \in Nat : i < k + 1 => Ok(i)
      BY <2>1
    <2>3. Ok(k + 1)
      BY <1>1, <2>1, <2>2
    <2>4. 0..(k + 1) = 0..k \cup {k + 1}
      BY <2>1
    <2> QED
      BY <2>1, <2>3, <2>4
  <1>4. T = Nat
    <2>1. T \in SUBSET Nat
      OBVIOUS
    <2> HIDE DEF T
    <2> QED
      BY <1>2, <1>3, <2>1, NatSetInduction
  <1>5. \A k \in Nat : Ok(k)
    <2> HIDE DEF Ok
    <2>1. \A k \in Nat : k \in T
      BY <1>4
    <2> QED
      BY <2>1
  <1>6. ASSUME NEW k \in Nat, NEW n \in Peel(k).ready PROVE Level(n) = k
    <2>1. Ranked(k) \cup {n} \subseteq Nodes /\ Nodes \in SUBSET Nodes
      BY RankedFacts
    <2>2. LongestPath[Nodes][n] = k
      BY <1>5, <2>1
    <2> QED
      BY <2>2 DEF Level
  <1> QED
    BY <1>6

\* Without a cycle the stages are the levels.
LEMMA AcyclicLevels ==
    ASSUME EdgesType, ~Cyclic
    PROVE  /\ \A n \in Nodes : Level(n) \in 0..Cardinality(Nodes) /\ n \in Peel(Level(n)).ready
           /\ \A n \in Nodes : \A k \in Nat : n \in Peel(k).ready <=> Level(n) = k
           /\ \A k \in Nat : Ranked(k) = {n \in Nodes : Level(n) < k}
  <1>1. ASSUME NEW n \in Nodes
        PROVE  Level(n) \in 0..Cardinality(Nodes) /\ n \in Peel(Level(n)).ready
    <2>1. n \in Ranked(Cardinality(Nodes)) /\ Cardinality(Nodes) \in Nat
      BY StagesGoOn, SubsetSizes
    <2>2. PICK i \in 0..(Cardinality(Nodes) - 1) : n \in Peel(i).ready
      BY <2>1, RankedFacts
    <2>3. i \in Nat /\ i \in 0..Cardinality(Nodes)
      BY <2>1
    <2>4. Level(n) = i
      BY <2>2, <2>3, StageIsLevel
    <2> QED
      BY <2>2, <2>3, <2>4
  <1>2. \A n \in Nodes : \A k \in Nat : n \in Peel(k).ready <=> Level(n) = k
    BY <1>1, StageIsLevel
  <1>3. ASSUME NEW k \in Nat PROVE Ranked(k) = {n \in Nodes : Level(n) < k}
    <2>1. ASSUME NEW n \in Ranked(k) PROVE n \in Nodes /\ Level(n) < k
      <3>1. PICK i \in 0..(k - 1) : n \in Peel(i).ready
        BY RankedFacts
      <3>2. i \in Nat /\ i < k
        OBVIOUS
      <3>3. Level(n) = i
        BY <3>1, <3>2, StageIsLevel
      <3>4. n \in Nodes
        BY RankedFacts
      <3> QED
        BY <3>2, <3>3, <3>4
    <2>2. ASSUME NEW n \in Nodes, Level(n) < k PROVE n \in Ranked(k)
      <3> DEFINE i == Level(n)
      <3>1. i \in Nat /\ i + 1 \in Nat /\ i + 1 <= k /\ n \in Peel(i).ready
        <4>1. Level(n) \in Nat /\ n \in Peel(Level(n)).ready
          BY <1>1, SubsetSizes
        <4> QED
          BY <2>2, <4>1
      <3> HIDE DEF i
      <3>2. n \in Ranked(i + 1) /\ Ranked(i + 1) \subseteq Ranked(k)
        BY <3>1, RankedFacts
      <3> QED
        BY <3>2
    <2> QED
      BY <2>1, <2>2
  <1> QED
    BY <1>1, <1>2, <1>3

-----------------------------------------------------------------------------
(* The search.                                                             *)

\* The nodes whose call has returned.
Finished == visited \ ToSet(path)

\* What the calls on the stack have seen: each was called by the one before; what was
\* looked at has returned, save for the call that is under way.  What has returned
\* leads to nothing but what has, and to no cycle.
SearchInv ==
    /\ ToSet(path) \subseteq visited
    /\ \A n \in Finished : Successors(n) \subseteq Finished /\ ~Reaches(n, n)
    /\ \A i \in 1..(Len(path) - 1) : Edge(path[i], path[i + 1])
    /\ \A i \in 1..Len(path) :
         /\ left[path[i]] \subseteq Successors(path[i])
         /\ \A m \in Successors(path[i]) \ left[path[i]] :
              m \in Finished \/ (i < Len(path) /\ m = path[i + 1])
    /\ pc = "invalid" => Cyclic
    /\ pc \notin {"validate", "invalid"} => path = <<>> /\ visited = Nodes

-----------------------------------------------------------------------------
(* The run.                                                                *)

InStage == pc \in {"single", "parallel"}

\* At the begin of a stage exactly the nodes of the stages before are through, all
\* well; within it those of the stage are under way.
RunInv ==
    /\ pc \in {"validate", "invalid"} =>
         stage = 0 /\ success /\ order = <<>> /\ \A n \in Nodes : state[n] = "none"
    /\ \A n \in Nodes : state[n] # "none" =>
         \A p \in Predecessors(n) : state[p] = "done" /\ out[p] # "failed"
    /\ success <=> \A n \in Outputs : out[n] # "failed"
    /\ pc = "begin" => /\ success
                       /\ Outputs = Ranked(stage)
                       /\ \A n \in Nodes : state[n] = IF n \in Outputs THEN "done" ELSE "none"
    /\ InStage => /\ Stage # {}
                  /\ ToSet(snapshot) = Ranked(stage)
                  /\ IsPrefix(snapshot, order)
                  /\ Ranked(stage) \subseteq Outputs
                  /\ Outputs \subseteq Ranked(stage) \cup Stage
                  /\ \A n \in Ranked(stage) : state[n] = "done" /\ out[n] # "failed"
                  /\ \A n \in Nodes : state[n] # "none" <=> n \in Ranked(stage) \cup Stage
    /\ pc \in {"end", "success", "failure"} =>
         /\ \A n \in Nodes : state[n] \in {"none", "done"}
         /\ success => Outputs = Nodes

Inv == TypeOK /\ SearchInv /\ RunInv /\ InputsFollowTheGraph

-----------------------------------------------------------------------------
(* The graph stays as it is, and with it whatever is a function of it.     *)

LEMMA GraphStays ==
    ASSUME edges' = edges
    PROVE  /\ \A n \in Nodes : Predecessors(n)' = Predecessors(n)
           /\ \A n \in Nodes : Successors(n)' = Successors(n)
           /\ \A m, n \in Nodes : Edge(m, n)' <=> Edge(m, n)
           /\ \A m, n \in Nodes : Reaches(m, n)' <=> Reaches(m, n)
           /\ Cyclic' <=> Cyclic
           /\ \A n \in Nodes : Level(n)' = Level(n)
           /\ \A k \in Nat : Peel(k)' = Peel(k)
           /\ \A k \in Nat : Ranked(k)' = Ranked(k)
  <1>1. \A n \in Nodes : Predecessors(n)' = Predecessors(n) /\ Successors(n)' = Successors(n)
    BY DEF Predecessors, Successors
  <1>2. \A m, n \in Nodes : Edge(m, n)' <=> Edge(m, n)
    BY DEF Edge
  <1>3. \A m, n \in Nodes : Reaches(m, n)' <=> Reaches(m, n)
    BY DEF Reaches, PathVia
  <1>4. Cyclic' <=> Cyclic
    BY <1>3 DEF Cyclic
  <1>5. \A n \in Nodes : Level(n)' = Level(n)
    BY DEF Level, LongestPath, Predecessors
  <1>6. \A k \in Nat : Peel(k)' = Peel(k)
    BY DEF Peel, Turned, InDegree, EdgesInto, FoldSet, MapThenFoldSet
  <1>7. \A k \in Nat : Ranked(k)' = Ranked(k)
    <2>1. \A k \in Nat : \A i \in 0..(k - 1) : Peel(i)' = Peel(i)
      BY <1>6
    <2> QED
      BY <2>1 DEF Ranked
  <1> QED
    BY <1>1, <1>2, <1>3, <1>4, <1>5, <1>6, <1>7

LEMMA AppendFacts ==
    ASSUME NEW s \in Seq(Nodes), NEW n \in Nodes
    PROVE  /\ Append(s, n) \in Seq(Nodes)
           /\ Len(Append(s, n)) = Len(s) + 1
           /\ \A i \in 1..Len(s) : Append(s, n)[i] = s[i]
           /\ Append(s, n)[Len(s) + 1] = n
           /\ ToSet(Append(s, n)) = ToSet(s) \cup {n}
  <1>1. /\ Append(s, n) \in Seq(Nodes)
        /\ Len(Append(s, n)) = Len(s) + 1
        /\ \A i \in 1..Len(s) : Append(s, n)[i] = s[i]
        /\ Append(s, n)[Len(s) + 1] = n
    OBVIOUS
  <1>2. DOMAIN Append(s, n) = 1..(Len(s) + 1) /\ DOMAIN s = 1..Len(s) /\ Len(s) \in Nat
    OBVIOUS
  <1>3. 1..(Len(s) + 1) = 1..Len(s) \cup {Len(s) + 1}
    BY <1>2
  <1>4. ToSet(Append(s, n)) = ToSet(s) \cup {n}
    BY <1>1, <1>2, <1>3 DEF ToSet
  <1> QED
    BY <1>1, <1>4

LEMMA FrontFacts ==
    ASSUME NEW s \in Seq(Nodes), s # <<>>,
           \A i, j \in DOMAIN s : s[i] = s[j] => i = j
    PROVE  /\ Front(s) \in Seq(Nodes)
           /\ Len(Front(s)) = Len(s) - 1
           /\ \A i \in 1..(Len(s) - 1) : Front(s)[i] = s[i]
           /\ ToSet(Front(s)) = ToSet(s) \ {Last(s)}
           /\ Last(s) \in ToSet(s) /\ Last(s) = s[Len(s)] /\ Len(s) \in Nat \ {0}
  <1>1. Len(s) \in Nat \ {0} /\ DOMAIN s = 1..Len(s) /\ Last(s) = s[Len(s)]
    BY DEF Last
  <1>2. /\ Front(s) \in Seq(Nodes)
        /\ Len(Front(s)) = Len(s) - 1
        /\ \A i \in 1..(Len(s) - 1) : Front(s)[i] = s[i]
    BY <1>1 DEF Front
  <1>3. DOMAIN Front(s) = 1..(Len(s) - 1)
    BY <1>1, <1>2
  <1>4. 1..Len(s) = 1..(Len(s) - 1) \cup {Len(s)} /\ Len(s) \notin 1..(Len(s) - 1)
    BY <1>1
  <1>5. ToSet(Front(s)) = ToSet(s) \ {Last(s)}
    BY <1>1, <1>2, <1>3, <1>4 DEF ToSet
  <1> QED
    BY <1>1, <1>2, <1>5 DEF ToSet

LEMMA SearchStays ==
    ASSUME TypeOK, SearchInv, UNCHANGED <<edges, search>>,
           pc' = "invalid" => Cyclic,
           pc' \notin {"validate", "invalid"} => path = <<>> /\ visited = Nodes
    PROVE  SearchInv'
  <1>1. visited' = visited /\ path' = path /\ left' = left /\ edges' = edges
    BY DEF search
  <1>2. Finished' = Finished /\ ToSet(path)' = ToSet(path)
    BY <1>1 DEF Finished, ToSet
  <1>3. /\ \A n \in Nodes : Successors(n)' = Successors(n)
        /\ \A m, n \in Nodes : Edge(m, n)' <=> Edge(m, n)
        /\ \A m, n \in Nodes : Reaches(m, n)' <=> Reaches(m, n)
        /\ Cyclic' <=> Cyclic
    BY <1>1, GraphStays
  <1>4. Finished \subseteq Nodes /\ Len(path) \in Nat /\ \A i \in 1..Len(path) : path[i] \in Nodes
    BY DEF TypeOK, Finished
  <1>5. (\A n \in Finished : Successors(n) \subseteq Finished /\ ~Reaches(n, n))'
    BY <1>2, <1>3, <1>4 DEF SearchInv
  <1>6. (\A i \in 1..(Len(path) - 1) : Edge(path[i], path[i + 1]))'
    <2>1. \A i \in 1..(Len(path) - 1) : i \in 1..Len(path) /\ i + 1 \in 1..Len(path)
      BY <1>4
    <2>2. \A i \in 1..(Len(path) - 1) : Edge(path[i], path[i + 1])' <=> Edge(path[i], path[i + 1])
      BY <1>1, <1>3, <1>4, <2>1
    <2> QED
      BY <1>1, <2>2 DEF SearchInv
  <1>7. (\A i \in 1..Len(path) :
           /\ left[path[i]] \subseteq Successors(path[i])
           /\ \A m \in Successors(path[i]) \ left[path[i]] :
                m \in Finished \/ (i < Len(path) /\ m = path[i + 1]))'
    <2>1. \A i \in 1..Len(path) : Successors(path[i])' = Successors(path[i])
      BY <1>1, <1>3, <1>4
    <2> QED
      BY <1>1, <1>2, <2>1 DEF SearchInv
  <1> QED
    BY <1>1, <1>2, <1>3, <1>5, <1>6, <1>7 DEF SearchInv

\* A call is added to the stack: m is new, and is the neighbour that the last call, if
\* there is one, looks at.
CallOf(m) ==
    /\ m \in Nodes \ visited
    /\ Call(m)
    /\ \/ path = <<>> /\ left' = [left EXCEPT ![m] = Successors(m)]
       \/ /\ path # <<>>
          /\ m \in left[Last(path)]
          /\ left' = [left EXCEPT ![Last(path)] = @ \ {m}, ![m] = Successors(m)]

LEMMA CallKeepsSearch ==
    ASSUME TypeOK, SearchInv, NEW m \in Nodes, CallOf(m), UNCHANGED <<edges, pc>>, pc = "validate"
    PROVE  SearchInv'
  <1> DEFINE L == Len(path)
  <1>0. L \in Nat /\ (\A i \in 1..L : path[i] \in Nodes) /\ path \in Seq(Nodes) /\ visited \subseteq Nodes
    BY DEF TypeOK
  <1>1. /\ path' = Append(path, m) /\ visited' = visited \cup {m} /\ m \notin visited
        /\ Len(path') = L + 1
        /\ \A i \in 1..L : path'[i] = path[i]
        /\ path'[L + 1] = m
        /\ ToSet(path)' = ToSet(path) \cup {m}
    <2>1. path' = Append(path, m) /\ visited' = visited \cup {m} /\ m \notin visited
      BY DEF CallOf, Call
    <2>2. ToSet(path)' = ToSet(path')
      BY DEF ToSet
    <2> QED
      BY <1>0, <2>1, <2>2, AppendFacts
  <1>2. Finished' = Finished
    BY <1>1 DEF Finished, SearchInv
  <1>3. /\ \A n \in Nodes : Successors(n)' = Successors(n)
        /\ \A j, n \in Nodes : Edge(j, n)' <=> Edge(j, n)
        /\ \A j, n \in Nodes : Reaches(j, n)' <=> Reaches(j, n)
        /\ Cyclic' <=> Cyclic
    BY GraphStays
  <1>4. Finished \subseteq Nodes
    BY DEF TypeOK, Finished
  <1>5. \A i \in 1..L : path[i] # m /\ path[i] \in ToSet(path)
    BY <1>0, <1>1 DEF SearchInv, ToSet
  <1>6. left'[m] = Successors(m)
    BY DEF CallOf, TypeOK
  <1>7. L > 0 => /\ Last(path) = path[L] /\ m \in left[path[L]]
                 /\ left'[path[L]] = left[path[L]] \ {m}
    <2> SUFFICES ASSUME L > 0
                 PROVE  /\ Last(path) = path[L] /\ m \in left[path[L]]
                        /\ left'[path[L]] = left[path[L]] \ {m}
      OBVIOUS
    <2>1. path # <<>> /\ Last(path) = path[L]
      BY <1>0 DEF Last
    <2>2. path[L] # m /\ path[L] \in Nodes
      BY <1>0, <1>5
    <2> QED
      BY <2>1, <2>2 DEF CallOf, TypeOK
  <1>8. \A i \in 1..L : i # L => left'[path[i]] = left[path[i]]
    <2> TAKE i \in 1..L
    <2> SUFFICES ASSUME i # L PROVE left'[path[i]] = left[path[i]]
      OBVIOUS
    <2>1. path[i] # m /\ path[i] \in Nodes /\ path # <<>>
      BY <1>0, <1>5
    <2>2. Last(path) = path[L]
      BY DEF Last
    <2>3. \A j, k \in 1..L : path[j] = path[k] => j = k
      <3>1. \A j, k \in DOMAIN path : path[j] = path[k] => j = k
        BY DEF TypeOK
      <3>2. DOMAIN path = 1..L
        BY <1>0
      <3> QED
        BY <3>1, <3>2
    <2>4. path[i] # path[L]
      <3>1. L \in 1..L
        BY <1>0
      <3> QED
        BY <2>3, <3>1
    <2> QED
      BY <2>1, <2>2, <2>4 DEF CallOf, TypeOK
  <1>9. (ToSet(path) \subseteq visited)'
    BY <1>1 DEF SearchInv
  <1>10. (\A n \in Finished : Successors(n) \subseteq Finished /\ ~Reaches(n, n))'
    BY <1>2, <1>3, <1>4 DEF SearchInv
  <1>11. (\A i \in 1..(Len(path) - 1) : Edge(path[i], path[i + 1]))'
    <2> SUFFICES ASSUME NEW i \in 1..L PROVE Edge(path[i], path[i + 1])'
      BY <1>0, <1>1
    <2>1. CASE i < L
      <3>1. i \in 1..(L - 1) /\ i + 1 \in 1..L
        BY <1>0, <2>1
      <3>2. Edge(path[i], path[i + 1])
        BY <3>1 DEF SearchInv
      <3> QED
        BY <1>0, <1>1, <1>3, <3>1, <3>2
    <2>2. CASE i = L
      <3>1. path'[i] = path[L] /\ path'[i + 1] = m /\ path[L] \in Nodes
        BY <1>0, <1>1, <2>2
      <3>2. m \in Successors(path[L])
        BY <1>0, <1>7, <2>2 DEF SearchInv
      <3>3. Edge(path[L], m)
        BY <3>2 DEF Successors, Edge
      <3> QED
        BY <1>3, <3>1, <3>3
    <2> QED
      BY <1>0, <2>1, <2>2
  <1>12. (\A i \in 1..Len(path) :
           /\ left[path[i]] \subseteq Successors(path[i])
           /\ \A n \in Successors(path[i]) \ left[path[i]] :
                n \in Finished \/ (i < Len(path) /\ n = path[i + 1]))'
    <2> SUFFICES ASSUME NEW i \in 1..(L + 1)
                 PROVE  /\ left'[path'[i]] \subseteq Successors(path[i])'
                        /\ \A n \in Successors(path[i])' \ left'[path'[i]] :
                             n \in Finished \/ (i < L + 1 /\ n = path'[i + 1])
      BY <1>1, <1>2
    <2>1. CASE i = L + 1
      BY <1>1, <1>3, <1>6, <2>1
    <2>2. CASE i = L
      <3>1. path'[i] = path[L] /\ path'[i + 1] = m /\ path[L] \in Nodes /\ i < L + 1 /\ L > 0 /\ L \in 1..L
        BY <1>0, <1>1, <2>2
      <3>2. left[path[L]] \subseteq Successors(path[L])
        BY <3>1 DEF SearchInv
      <3>3. \A n \in Successors(path[L]) \ left[path[L]] : n \in Finished
        BY <1>0, <3>1 DEF SearchInv
      <3>4. left'[path[L]] = left[path[L]] \ {m} /\ Successors(path[i])' = Successors(path[L])
        BY <1>3, <1>7, <3>1
      <3> QED
        BY <3>1, <3>2, <3>3, <3>4
    <2>3. CASE i < L
      <3>1. i \in 1..L /\ i + 1 \in 1..L /\ i # L
        BY <1>0, <2>3
      <3>2. path'[i] = path[i] /\ path'[i + 1] = path[i + 1] /\ path[i] \in Nodes
        BY <1>0, <1>1, <3>1
      <3>3. left'[path[i]] = left[path[i]] /\ Successors(path[i])' = Successors(path[i])
        BY <1>3, <1>8, <3>1, <3>2
      <3>4. /\ left[path[i]] \subseteq Successors(path[i])
            /\ \A n \in Successors(path[i]) \ left[path[i]] :
                  n \in Finished \/ (i < L /\ n = path[i + 1])
        BY <3>1 DEF SearchInv
      <3> QED
        BY <1>0, <2>3, <3>2, <3>3, <3>4
    <2> QED
      BY <1>0, <2>1, <2>2, <2>3
  <1> QED
    BY <1>9, <1>10, <1>11, <1>12 DEF SearchInv

\* A neighbour that has returned is passed over.
LEMMA PassKeepsSearch ==
    ASSUME TypeOK, SearchInv, path # <<>>, NEW m \in Finished,
           left' = [left EXCEPT ![Last(path)] = @ \ {m}],
           UNCHANGED <<edges, pc, visited, path>>, pc = "validate"
    PROVE  SearchInv'
  <1> DEFINE L == Len(path)
  <1>0. L \in Nat \ {0} /\ (\A i \in 1..L : path[i] \in Nodes) /\ Last(path) = path[L]
    BY DEF TypeOK, Last
  <1>2. Finished' = Finished /\ ToSet(path)' = ToSet(path)
    BY DEF Finished, ToSet
  <1>3. /\ \A n \in Nodes : Successors(n)' = Successors(n)
        /\ \A j, n \in Nodes : Edge(j, n)' <=> Edge(j, n)
        /\ \A j, n \in Nodes : Reaches(j, n)' <=> Reaches(j, n)
    BY GraphStays
  <1>4. Finished \subseteq Nodes
    BY DEF TypeOK, Finished
  <1>5. (\A n \in Finished : Successors(n) \subseteq Finished /\ ~Reaches(n, n))'
    BY <1>2, <1>3, <1>4 DEF SearchInv
  <1>6. (\A i \in 1..(Len(path) - 1) : Edge(path[i], path[i + 1]))'
    <2>1. \A i \in 1..(L - 1) : path[i] \in Nodes /\ path[i + 1] \in Nodes
      BY <1>0
    <2>2. \A i \in 1..(L - 1) : Edge(path[i], path[i + 1])' <=> Edge(path[i], path[i + 1])
      BY <1>3, <2>1
    <2> QED
      BY <2>2 DEF SearchInv
  <1>7. (\A i \in 1..Len(path) :
           /\ left[path[i]] \subseteq Successors(path[i])
           /\ \A n \in Successors(path[i]) \ left[path[i]] :
                n \in Finished \/ (i < Len(path) /\ n = path[i + 1]))'
    <2> SUFFICES ASSUME NEW i \in 1..L
                 PROVE  /\ left'[path[i]] \subseteq Successors(path[i])'
                        /\ \A n \in Successors(path[i])' \ left'[path[i]] :
                             n \in Finished \/ (i < L /\ n = path[i + 1])
      BY <1>2
    <2>1. path[i] \in Nodes /\ Successors(path[i])' = Successors(path[i])
      BY <1>0, <1>3
    <2>2. /\ left'[path[i]] \subseteq left[path[i]]
          /\ \A n \in left[path[i]] \ left'[path[i]] : n = m
      BY <1>0, <2>1 DEF TypeOK
    <2>3. /\ left[path[i]] \subseteq Successors(path[i])
          /\ \A n \in Successors(path[i]) \ left[path[i]] :
                n \in Finished \/ (i < L /\ n = path[i + 1])
      BY DEF SearchInv
    <2> QED
      BY <2>1, <2>2, <2>3
  <1> QED
    BY <1>2, <1>5, <1>6, <1>7 DEF SearchInv

LEMMA ReturnKeepsSearch ==
    ASSUME TypeOK, SearchInv, Return
    PROVE  SearchInv'
  <1> DEFINE L == Len(path)
             r == path[L]
  <1>0. /\ L \in Nat \ {0} /\ (\A i \in 1..L : path[i] \in Nodes) /\ Last(path) = r
        /\ r \in Nodes /\ r \in ToSet(path) /\ left[r] = {} /\ L \in 1..L
    <2>1. L \in Nat \ {0} /\ (\A i \in 1..L : path[i] \in Nodes) /\ Last(path) = r
      BY DEF TypeOK, Last, Return
    <2> QED
      BY <2>1 DEF Return, ToSet
  <1>1. /\ path' = Front(path) /\ Len(path') = L - 1
        /\ \A i \in 1..(L - 1) : path'[i] = path[i]
        /\ ToSet(path)' = ToSet(path) \ {r}
        /\ visited' = visited /\ left' = left /\ edges' = edges /\ pc' = pc /\ pc = "validate"
    <2>1. ToSet(path)' = ToSet(path')
      BY DEF ToSet
    <2>2. path \in Seq(Nodes) /\ \A i, j \in DOMAIN path : path[i] = path[j] => i = j
      BY DEF TypeOK
    <2>3. path # <<>> /\ path' = Front(path)
      BY DEF Return
    <2> QED
      BY <1>0, <2>1, <2>2, <2>3, FrontFacts DEF Return
  <1>2. Finished' = Finished \cup {r} /\ r \notin Finished /\ Finished \subseteq Nodes
    <2>1. visited \subseteq Nodes /\ ToSet(path) \subseteq visited
      BY DEF SearchInv, TypeOK
    <2> QED
      BY <1>0, <1>1, <2>1 DEF Finished
  <1>3. /\ \A n \in Nodes : Successors(n)' = Successors(n)
        /\ \A j, n \in Nodes : Edge(j, n)' <=> Edge(j, n)
        /\ \A j, n \in Nodes : Reaches(j, n)' <=> Reaches(j, n)
    BY <1>1, GraphStays
  <1>4. Successors(r) \subseteq Finished
    BY <1>0 DEF SearchInv
  <1>5. ~Reaches(r, r)
    <2> SUFFICES ASSUME Reaches(r, r) PROVE FALSE
      OBVIOUS
    <2>1. \A m \in Nodes : Edge(r, m) => m \in Finished
      BY <1>4 DEF Edge, Successors
    <2>2. \A m \in Finished, n \in Nodes : Edge(m, n) => n \in Finished
      BY DEF SearchInv, Edge, Successors
    <2>3. PICK j \in Nodes : Edge(r, j) /\ Reaches(j, r)
      BY <1>0, <1>2, <2>1, ReachesFacts
    <2>4. j \in Finished
      BY <2>1, <2>3
    <2>5. r \in Finished
      BY <1>0, <1>2, <2>2, <2>3, <2>4, ReachesFacts
    <2> QED
      BY <1>2, <2>5
  <1>6. (\A n \in Finished : Successors(n) \subseteq Finished /\ ~Reaches(n, n))'
    <2>1. \A n \in Finished \cup {r} : Successors(n) \subseteq Finished \cup {r} /\ ~Reaches(n, n)
      BY <1>4, <1>5 DEF SearchInv
    <2> QED
      BY <1>0, <1>2, <1>3, <2>1
  <1>7. (\A i \in 1..(Len(path) - 1) : Edge(path[i], path[i + 1]))'
    <2> SUFFICES ASSUME NEW i \in 1..((L - 1) - 1) PROVE Edge(path[i], path[i + 1])'
      BY <1>0, <1>1
    <2>1. i \in 1..(L - 1) /\ i + 1 \in 1..(L - 1) /\ i \in 1..L /\ i + 1 \in 1..L
      BY <1>0
    <2>2. Edge(path[i], path[i + 1])
      BY <2>1 DEF SearchInv
    <2> QED
      BY <1>0, <1>1, <1>3, <2>1, <2>2
  <1>8. (\A i \in 1..Len(path) :
           /\ left[path[i]] \subseteq Successors(path[i])
           /\ \A n \in Successors(path[i]) \ left[path[i]] :
                n \in Finished \/ (i < Len(path) /\ n = path[i + 1]))'
    <2> SUFFICES ASSUME NEW i \in 1..(L - 1)
                 PROVE  /\ left[path'[i]] \subseteq Successors(path[i])'
                        /\ \A n \in Successors(path[i])' \ left[path'[i]] :
                             n \in Finished \cup {r} \/ (i < L - 1 /\ n = path'[i + 1])
      BY <1>1, <1>2
    <2>1. i \in 1..L /\ path[i] \in Nodes /\ path'[i] = path[i] /\ Successors(path[i])' = Successors(path[i])
      BY <1>0, <1>1, <1>3
    <2>2. /\ left[path[i]] \subseteq Successors(path[i])
          /\ \A n \in Successors(path[i]) \ left[path[i]] :
                n \in Finished \/ (i < L /\ n = path[i + 1])
      BY <2>1 DEF SearchInv
    <2>3. i < L - 1 => path'[i + 1] = path[i + 1]
      BY <1>0, <1>1
    <2>4. ~(i < L - 1) => i + 1 = L
      BY <1>0
    <2> QED
      BY <2>1, <2>2, <2>3, <2>4
  <1>9. (ToSet(path) \subseteq visited)'
    BY <1>1 DEF SearchInv
  <1> QED
    BY <1>1, <1>6, <1>7, <1>8, <1>9 DEF SearchInv

\* A neighbour on the stack closes a cycle.
LEMMA StackIsAPath ==
    ASSUME TypeOK, SearchInv, path # <<>>, NEW m \in left[Last(path)], m \in ToSet(path)
    PROVE  Cyclic
  <1> DEFINE L == Len(path)
  <1>0. L \in Nat \ {0} /\ (\A i \in 1..L : path[i] \in Nodes) /\ Last(path) = path[L] /\ L \in 1..L
    BY DEF TypeOK, Last
  <1>1. PICK i \in 1..L : m = path[i]
    BY <1>0 DEF ToSet, TypeOK
  <1>2. Edge(path[L], m) /\ m \in Nodes
    BY <1>0 DEF SearchInv, Successors, Edge
  <1> DEFINE T == {d \in Nat : i + d <= L => i + d = i \/ Reaches(path[i], path[i + d])}
  <1>3. 0 \in T
    OBVIOUS
  <1>4. ASSUME NEW d \in T PROVE d + 1 \in T
    <2> SUFFICES ASSUME i + (d + 1) <= L PROVE Reaches(path[i], path[i + (d + 1)])
      OBVIOUS
    <2> DEFINE j == i + d
    <2>1. j \in 1..(L - 1) /\ j \in 1..L /\ j + 1 \in 1..L /\ i + (d + 1) = j + 1 /\ j <= L
      BY <1>0
    <2>2. j = i \/ Reaches(path[i], path[j])
      BY <2>1
    <2> HIDE DEF j
    <2>3. Edge(path[j], path[j + 1]) /\ path[j] \in Nodes /\ path[j + 1] \in Nodes /\ path[i] \in Nodes
      BY <1>0, <2>1 DEF SearchInv
    <2>4. Reaches(path[j], path[j + 1])
      BY <2>3, ReachesFacts
    <2>5. Reaches(path[i], path[j + 1])
      BY <2>2, <2>3, <2>4, ReachesFacts
    <2> QED
      BY <2>1, <2>5
  <1>5. T = Nat
    <2>1. T \in SUBSET Nat
      OBVIOUS
    <2> HIDE DEF T
    <2> QED
      BY <1>3, <1>4, <2>1, NatSetInduction
  <1>6. i = L \/ Reaches(path[i], path[L])
    <2>1. PICK d \in Nat : i + d = L
      <3>1. L - i \in Nat /\ i + (L - i) = L
        BY <1>0
      <3> QED
        BY <3>1
    <2>2. d \in T
      BY <1>5, <2>1
    <2>3. i + d <= L
      BY <1>0, <2>1
    <2>4. i + d = i \/ Reaches(path[i], path[i + d])
      BY <2>2, <2>3
    <2> QED
      BY <2>1, <2>4
  <1>7. Reaches(m, m)
    <2>1. Reaches(path[L], m) /\ path[L] \in Nodes
      BY <1>0, <1>2, ReachesFacts
    <2> QED
      BY <1>1, <1>2, <1>6, <2>1, ReachesFacts
  <1> QED
    BY <1>2, <1>7 DEF Cyclic

\* When all nodes have returned there is no cycle.
LEMMA SearchIsComplete ==
    ASSUME SearchInv, path = <<>>, visited = Nodes
    PROVE  ~Cyclic
  <1>1. ToSet(path) = {}
    BY DEF ToSet
  <1>2. Finished = Nodes
    BY <1>1 DEF Finished
  <1> QED
    BY <1>2 DEF SearchInv, Cyclic

LEMMA InitSearch == Init => SearchInv
  <1> SUFFICES ASSUME Init PROVE SearchInv
    OBVIOUS
  <1>1. path = <<>> /\ visited = {} /\ pc = "validate" /\ Len(path) = 0
    BY DEF Init
  <1>2. ToSet(path) = {} /\ Finished = {}
    BY <1>1 DEF ToSet, Finished
  <1>3. 1..(Len(path) - 1) = {} /\ 1..Len(path) = {}
    BY <1>1
  <1> QED
    BY <1>1, <1>2, <1>3 DEF SearchInv

LEMMA SearchStep ==
    ASSUME TypeOK, SearchInv, [Next]_vars
    PROVE  SearchInv'
  <1>0. \A n \in Nodes : Successors(n) \in SUBSET Nodes
    BY DEF Successors
  <1>1. ASSUME Root PROVE SearchInv'
    <2>1. PICK n \in Nodes \ visited : Call(n) /\ left' = [left EXCEPT ![n] = Successors(n)]
      BY <1>1 DEF Root
    <2>2. CallOf(n) /\ UNCHANGED <<edges, pc>> /\ pc = "validate"
      BY <1>1, <2>1 DEF Root, CallOf
    <2> QED
      BY <2>2, CallKeepsSearch
  <1>2. ASSUME Look PROVE SearchInv'
    <2>1. PICK m \in left[Last(path)] :
             \/ m \in ToSet(path) /\ pc' = "invalid" /\ UNCHANGED search
             \/ /\ m \notin visited
                /\ left' = [left EXCEPT ![Last(path)] = @ \ {m}, ![m] = Successors(m)]
                /\ Call(m) /\ UNCHANGED pc
             \/ /\ m \in visited \ ToSet(path)
                /\ left' = [left EXCEPT ![Last(path)] = @ \ {m}]
                /\ UNCHANGED <<pc, visited, path>>
      BY <1>2 DEF Look
    <2>2. pc = "validate" /\ path # <<>> /\ UNCHANGED edges
      BY <1>2 DEF Look
    <2>3. m \in Nodes
      <3>1. Last(path) \in Nodes
        BY <2>2 DEF TypeOK, Last
      <3> QED
        BY <2>1, <3>1 DEF TypeOK
    <2>4. CASE m \in ToSet(path) /\ pc' = "invalid" /\ UNCHANGED search
      <3>1. Cyclic
        BY <2>1, <2>2, <2>4, StackIsAPath
      <3> QED
        BY <2>2, <2>4, <3>1, SearchStays
    <2>5. CASE /\ m \notin visited
               /\ left' = [left EXCEPT ![Last(path)] = @ \ {m}, ![m] = Successors(m)]
               /\ Call(m) /\ UNCHANGED pc
      <3>1. CallOf(m)
        BY <2>1, <2>2, <2>3, <2>5 DEF CallOf
      <3> QED
        BY <2>2, <2>3, <2>5, <3>1, CallKeepsSearch
    <2>6. CASE /\ m \in visited \ ToSet(path)
               /\ left' = [left EXCEPT ![Last(path)] = @ \ {m}]
               /\ UNCHANGED <<pc, visited, path>>
      BY <2>2, <2>6, PassKeepsSearch DEF Finished
    <2> QED
      BY <2>1, <2>4, <2>5, <2>6
  <1>3. ASSUME Return PROVE SearchInv'
    BY <1>3, ReturnKeepsSearch
  <1>4. ASSUME UNCHANGED <<edges, search>>, pc' # "invalid" \/ pc' = pc,
               pc' \in {"validate", "invalid"} \/ (path = <<>> /\ visited = Nodes)
        PROVE  SearchInv'
    BY <1>4, SearchStays DEF SearchInv
  <1>5. ASSUME Validated PROVE SearchInv'
    BY <1>4, <1>5 DEF Validated
  <1>6. pc \notin {"validate", "invalid"} => path = <<>> /\ visited = Nodes
    BY DEF SearchInv
  <1>7. ASSUME Begin PROVE SearchInv'
    <2>1. UNCHANGED <<edges, search>> /\ pc = "begin" /\ pc' \in {"end", "single", "parallel"}
      BY <1>7 DEF Begin
    <2> QED
      BY <1>4, <1>6, <2>1
  <1>8. ASSUME StageEnds PROVE SearchInv'
    <2>1. UNCHANGED <<edges, search>> /\ pc \in {"single", "parallel"} /\ pc' \in {"begin", "end"}
      BY <1>8 DEF StageEnds
    <2> QED
      BY <1>4, <1>6, <2>1
  <1>9. ASSUME Result PROVE SearchInv'
    <2>1. UNCHANGED <<edges, search>> /\ pc = "end" /\ pc' \in {"success", "failure"}
      BY <1>9 DEF Result
    <2> QED
      BY <1>4, <1>6, <2>1
  <1>10. ASSUME NEW n \in Nodes, StartNode(n) \/ NodeReturns(n) \/ Collect(n) PROVE SearchInv'
    <2>1. UNCHANGED <<edges, search, pc>> /\ pc \in {"single", "parallel"}
      BY <1>10 DEF StartNode, NodeReturns, Collect
    <2> QED
      BY <1>4, <1>6, <2>1
  <1>11. ASSUME BusRaises PROVE SearchInv'
    <2>1. UNCHANGED <<edges, search>> /\ pc \in {"begin", "single", "end"} /\ pc' = "raised"
      BY <1>11 DEF BusRaises
    <2> QED
      BY <1>4, <1>6, <2>1
  <1>12. ASSUME UNCHANGED vars PROVE SearchInv'
    <2>1. UNCHANGED <<edges, search, pc>>
      BY <1>12 DEF vars
    <2> QED
      BY <1>4, <1>6, <2>1
  <1> QED
    BY <1>1, <1>2, <1>3, <1>5, <1>7, <1>8, <1>9, <1>10, <1>11, <1>12 DEF Next, Main, Rests

LEMMA StageFacts ==
    ASSUME TypeOK, SearchInv, pc \notin {"validate", "invalid"}
    PROVE  /\ EdgesType /\ ~Cyclic /\ stage \in Nat
           /\ Stage \subseteq Nodes /\ Ranked(stage) \subseteq Nodes
           /\ Ranked(stage + 1) = Ranked(stage) \cup Stage
           /\ Ranked(stage) \cap Stage = {}
           /\ \A n \in Stage : Predecessors(n) \subseteq Ranked(stage)
           /\ \A n \in Nodes : n \in Stage <=> Level(n) = stage
           /\ Ranked(stage) = {n \in Nodes : Level(n) < stage}
           /\ Stage = {} => Ranked(stage) = Nodes
           /\ Stage # {} => stage + 1 \in 0..Cardinality(Nodes)
  <1>1. EdgesType
    BY DEF TypeOK, EdgesType
  <1>2. ~Cyclic
    BY SearchIsComplete DEF SearchInv
  <1>3. stage \in Nat /\ stage \in 0..Cardinality(Nodes)
    BY SubsetSizes DEF TypeOK
  <1>4. /\ Stage = {n \in Nodes \ Ranked(stage) : Predecessors(n) \subseteq Ranked(stage)}
        /\ Ranked(stage) \subseteq Nodes
        /\ Ranked(stage + 1) = Ranked(stage) \cup Stage
    BY <1>1, <1>3, PeelIsWhatItIs, RankedFacts, RankedSteps DEF PeelIs, Stage
  <1>5. /\ \A n \in Nodes : n \in Stage <=> Level(n) = stage
        /\ Ranked(stage) = {n \in Nodes : Level(n) < stage}
    BY <1>1, <1>2, <1>3, AcyclicLevels DEF Stage
  <1>6. Stage = {} => Ranked(stage) = Nodes
    BY <1>1, <1>2, <1>3, StagesGoOn DEF Stage
  <1>7. ASSUME Stage # {} PROVE stage + 1 \in 0..Cardinality(Nodes)
    <2>1. Ranked(stage) # Nodes
      BY <1>4, <1>7
    <2>2. Cardinality(Ranked(stage)) >= stage
      BY <1>1, <1>2, <1>3, <2>1, StagesGoOn
    <2>3. IsFiniteSet(Nodes)
      BY WorkflowAssumption DEF WorkflowAssumption
    <2>4. Cardinality(Ranked(stage)) # Cardinality(Nodes)
      BY <1>4, <2>1, <2>3, FS_Subset
    <2>5. Cardinality(Ranked(stage)) \in 0..Cardinality(Nodes) /\ Cardinality(Nodes) \in Nat
      BY <1>4, SubsetSizes
    <2> QED
      BY <1>3, <2>2, <2>4, <2>5
  <1> QED
    BY <1>1, <1>2, <1>3, <1>4, <1>5, <1>6, <1>7

\* What InputsFollowTheGraph says of one node.
InputIs(n) ==
    LET before == {m \in Nodes : Level(m) < Level(n)}
    IN  /\ reads[n] = CASE Type[n] = "agent" -> {p \in Predecessors(n) : out[p] # "empty"}
                          [] Type[n] = "condition" -> Names[n] \cap before
                          [] OTHER -> {}
        /\ Type[n] = "transform" =>
             /\ ToSet(joined[n]) = before
             /\ IsPrefix(joined[n], order)

\* Outputs are added at the end of the dictionary.
Grows == order' = order \/ \E n \in Nodes : order' = Append(order, n)

LEMMA PrefixStays ==
    ASSUME NEW S, NEW s \in Seq(S), NEW t \in Seq(S), NEW e \in S, IsPrefix(s, t)
    PROVE  IsPrefix(s, Append(t, e))
  <1>1. Len(s) \in Nat /\ Len(t) \in Nat /\ Len(s) <= Len(t)
    BY DEF IsPrefix
  <1>2. Append(t, e) \in Seq(S) /\ Len(Append(t, e)) = Len(t) + 1
        /\ \A i \in 1..Len(t) : Append(t, e)[i] = t[i]
    BY AppendFacts
  <1>3. SubSeq(Append(t, e), 1, Len(s)) = SubSeq(t, 1, Len(s))
    BY <1>1, <1>2
  <1> QED
    BY <1>1, <1>2, <1>3 DEF IsPrefix

LEMMA PrefixesStay ==
    ASSUME TypeOK, Grows, NEW s \in Seq(Nodes), IsPrefix(s, order)
    PROVE  IsPrefix(s, order')
  <1>1. order \in Seq(Nodes)
    BY DEF TypeOK
  <1> QED
    BY <1>1, PrefixStays DEF Grows

LEMMA InputStays ==
    ASSUME TypeOK, edges' = edges, Grows, NEW n \in Nodes, InputIs(n),
           reads'[n] = reads[n], joined'[n] = joined[n],
           \A p \in Predecessors(n) : out'[p] = out[p]
    PROVE  InputIs(n)'
  <1>1. Predecessors(n)' = Predecessors(n) /\ \A m \in Nodes : Level(m)' = Level(m)
    BY GraphStays
  <1>2. {m \in Nodes : Level(m) < Level(n)}' = {m \in Nodes : Level(m) < Level(n)}
    BY <1>1
  <1>3. {p \in Predecessors(n) : out[p] # "empty"}' = {p \in Predecessors(n) : out[p] # "empty"}
    BY <1>1
  <1>4. Type[n] = "transform" => IsPrefix(joined[n], order')
    BY PrefixesStay DEF TypeOK, InputIs
  <1> QED
    BY <1>2, <1>3, <1>4 DEF InputIs

LEMMA InputsStay ==
    ASSUME TypeOK, InputsFollowTheGraph, edges' = edges, Grows,
           \A n \in Nodes : state'[n] \in {"running", "done"} =>
              /\ state[n] \in {"running", "done"}
              /\ reads'[n] = reads[n] /\ joined'[n] = joined[n]
              /\ \A p \in Predecessors(n) : out'[p] = out[p]
    PROVE  InputsFollowTheGraph'
  <1>1. \A n \in Nodes : state[n] \in {"running", "done"} => InputIs(n)
    BY DEF InputsFollowTheGraph, InputIs
  <1>2. \A n \in Nodes : state'[n] \in {"running", "done"} => InputIs(n)'
    BY <1>1, InputStays
  <1> QED
    BY <1>2 DEF InputsFollowTheGraph, InputIs

Good == TypeOK /\ RunInv /\ InputsFollowTheGraph

LEMMA SearchKeepsRun ==
    ASSUME Inv, Root \/ Look \/ Return
    PROVE  Good'
  <1>1. /\ edges' = edges /\ UNCHANGED run /\ pc = "validate" /\ pc' \in {"validate", "invalid"}
    BY DEF Root, Look, Return
  <1>2. /\ stage' = stage /\ snapshot' = snapshot /\ state' = state /\ order' = order
        /\ out' = out /\ reads' = reads /\ joined' = joined /\ success' = success
    BY <1>1 DEF run
  <1>3. /\ visited' \subseteq Nodes /\ path' \in Seq(Nodes)
        /\ \A i, j \in DOMAIN path' : path'[i] = path'[j] => i = j
        /\ left' \in [Nodes -> SUBSET Nodes]
    <2>0. \A n \in Nodes : Successors(n) \in SUBSET Nodes
      BY DEF Successors
    <2>1. path \in Seq(Nodes) /\ left \in [Nodes -> SUBSET Nodes] /\ visited \subseteq Nodes
          /\ (\A i, j \in DOMAIN path : path[i] = path[j] => i = j) /\ ToSet(path) \subseteq visited
      BY DEF Inv, TypeOK, SearchInv
    <2>2. ASSUME NEW m \in Nodes \ visited, Call(m)
          PROVE  /\ visited' \subseteq Nodes /\ path' \in Seq(Nodes)
                 /\ \A i, j \in DOMAIN path' : path'[i] = path'[j] => i = j
      <3>1. /\ path' \in Seq(Nodes) /\ Len(path') = Len(path) + 1 /\ Len(path) \in Nat
            /\ \A i \in 1..Len(path) : path'[i] = path[i]
            /\ path'[Len(path) + 1] = m
        BY <2>1, <2>2, AppendFacts DEF Call
      <3>2. \A i \in 1..Len(path) : path[i] # m
        BY <2>1, <2>2 DEF ToSet
      <3>3. \A i, j \in DOMAIN path' : path'[i] = path'[j] => i = j
        <4>1. DOMAIN path' = 1..(Len(path) + 1) /\ DOMAIN path = 1..Len(path)
          BY <2>1, <3>1
        <4>2. \A i \in DOMAIN path' : i \in 1..Len(path) \/ i = Len(path) + 1
          BY <3>1, <4>1
        <4> QED
          BY <2>1, <3>1, <3>2, <4>1, <4>2
      <3> QED
        BY <2>1, <2>2, <3>1, <3>3 DEF Call
    <2>3. CASE Root
      <3>1. PICK n \in Nodes \ visited : Call(n) /\ left' = [left EXCEPT ![n] = Successors(n)]
        BY <2>3 DEF Root
      <3> QED
        BY <2>0, <2>1, <2>2, <3>1
    <2>4. CASE Look
      <3>1. PICK m \in left[Last(path)] :
               \/ m \in ToSet(path) /\ pc' = "invalid" /\ UNCHANGED search
               \/ /\ m \notin visited
                  /\ left' = [left EXCEPT ![Last(path)] = @ \ {m}, ![m] = Successors(m)]
                  /\ Call(m) /\ UNCHANGED pc
               \/ /\ m \in visited \ ToSet(path)
                  /\ left' = [left EXCEPT ![Last(path)] = @ \ {m}]
                  /\ UNCHANGED <<pc, visited, path>>
        BY <2>4 DEF Look
      <3>2. Last(path) \in Nodes /\ m \in Nodes
        <4>1. Last(path) \in Nodes
          BY <2>1, <2>4 DEF Look, Last
        <4> QED
          BY <2>1, <3>1, <4>1
      <3>3. CASE m \in ToSet(path) /\ pc' = "invalid" /\ UNCHANGED search
        BY <2>1, <3>3 DEF search
      <3>4. CASE /\ m \notin visited
                 /\ left' = [left EXCEPT ![Last(path)] = @ \ {m}, ![m] = Successors(m)]
                 /\ Call(m) /\ UNCHANGED pc
        <4>1. left' \in [Nodes -> SUBSET Nodes]
          BY <2>0, <2>1, <3>2, <3>4
        <4> QED
          BY <2>2, <3>2, <3>4, <4>1
      <3>5. CASE /\ m \in visited \ ToSet(path)
                 /\ left' = [left EXCEPT ![Last(path)] = @ \ {m}]
                 /\ UNCHANGED <<pc, visited, path>>
        BY <2>1, <3>2, <3>5
      <3> QED
        BY <3>1, <3>3, <3>4, <3>5
    <2>5. CASE Return
      <3>1. path # <<>> /\ path' = Front(path) /\ visited' = visited /\ left' = left
        BY <2>5 DEF Return
      <3>2. /\ path' \in Seq(Nodes) /\ Len(path') = Len(path) - 1 /\ Len(path) \in Nat \ {0}
            /\ \A i \in 1..(Len(path) - 1) : path'[i] = path[i]
        BY <2>1, <3>1, FrontFacts
      <3>3. DOMAIN path' = 1..(Len(path) - 1) /\ DOMAIN path = 1..Len(path)
        BY <2>1, <3>2
      <3>4. \A i, j \in DOMAIN path' : path'[i] = path'[j] => i = j
        BY <2>1, <3>2, <3>3
      <3> QED
        BY <2>1, <3>1, <3>2, <3>4
    <2> QED
      BY <2>3, <2>4, <2>5
  <1>4. Outputs' = Outputs
    BY <1>2 DEF Outputs, ToSet
  <1>5. TypeOK'
    BY <1>1, <1>2, <1>3, <1>4 DEF Inv, TypeOK
  <1>6. \A n \in Nodes : state[n] = "none"
    BY <1>1 DEF Inv, RunInv
  <1>7. RunInv'
    BY <1>1, <1>2, <1>4, <1>6 DEF Inv, RunInv, InStage
  <1>8. InputsFollowTheGraph'
    BY <1>1, <1>2, InputsStay DEF Inv, Grows
  <1> QED
    BY <1>5, <1>7, <1>8 DEF Good

\* What is a function of the graph and the stage, after a step that keeps both.
LEMMA StageStays ==
    ASSUME TypeOK, edges' = edges, stage' = stage
    PROVE  /\ Stage' = Stage /\ Ranked(stage)' = Ranked(stage)
           /\ \A n \in Nodes : Predecessors(n)' = Predecessors(n)
  <1>1. stage \in Nat
    BY SubsetSizes DEF TypeOK
  <1> QED
    BY <1>1, GraphStays DEF Stage

LEMMA ValidatedKeepsRun ==
    ASSUME Inv, Validated
    PROVE  Good'
  <1>1. /\ edges' = edges /\ pc = "validate" /\ pc' = "begin"
        /\ UNCHANGED search /\ UNCHANGED run
    BY DEF Validated
  <1>2. /\ stage' = stage /\ snapshot' = snapshot /\ state' = state /\ order' = order
        /\ out' = out /\ reads' = reads /\ joined' = joined /\ success' = success
        /\ visited' = visited /\ path' = path /\ left' = left
    BY <1>1 DEF run, search
  <1>3. Outputs' = Outputs
    BY <1>2 DEF Outputs, ToSet
  <1>4. TypeOK'
    BY <1>1, <1>2, <1>3 DEF Inv, TypeOK
  <1>5. stage = 0 /\ success /\ order = <<>> /\ \A n \in Nodes : state[n] = "none"
    BY <1>1 DEF Inv, RunInv
  <1>6. Outputs = {} /\ Ranked(stage) = {} /\ Ranked(stage)' = Ranked(stage)
    BY <1>1, <1>2, <1>5, RankedSteps, StageStays DEF Outputs, ToSet, Inv
  <1>7. RunInv'
    BY <1>1, <1>2, <1>3, <1>5, <1>6 DEF Inv, RunInv, InStage
  <1>8. InputsFollowTheGraph'
    BY <1>1, <1>2, InputsStay DEF Inv, Grows
  <1> QED
    BY <1>4, <1>7, <1>8 DEF Good

LEMMA BeginKeepsRun ==
    ASSUME Inv, Begin
    PROVE  Good'
  <1>0. pc' \in {"end", "single", "parallel"} /\ (pc' = "end" <=> Stage = {})
    <2>1. CASE Stage = {}
      <3>1. Cardinality(Stage) = 0
        BY <2>1, FS_EmptySet
      <3> QED
        BY <2>1, <3>1 DEF Begin
    <2>2. CASE Stage # {} /\ Cardinality(Stage) = 1
      BY <2>2 DEF Begin
    <2>3. CASE Stage # {} /\ Cardinality(Stage) # 1
      BY <2>3 DEF Begin
    <2> QED
      BY <2>1, <2>2, <2>3
  <1>1. /\ edges' = edges /\ pc = "begin"
        /\ pc' \in {"end", "single", "parallel"} /\ (pc' = "end" <=> Stage = {})
        /\ stage' = stage /\ order' = order
        /\ out' = out /\ reads' = reads /\ joined' = joined /\ success' = success
        /\ visited' = visited /\ path' = path /\ left' = left
        /\ snapshot' = order
        /\ state' = [n \in Nodes |-> IF n \in Stage THEN "waiting" ELSE state[n]]
    BY <1>0 DEF Begin, search
  <1>2. /\ Stage \subseteq Nodes /\ Ranked(stage) \cap Stage = {}
        /\ \A n \in Stage : Predecessors(n) \subseteq Ranked(stage)
        /\ Stage = {} => Ranked(stage) = Nodes
    BY <1>1, StageFacts DEF Inv
  <1>3. /\ success /\ Outputs = Ranked(stage) /\ Outputs \subseteq Nodes
        /\ \A n \in Nodes : state[n] = IF n \in Outputs THEN "done" ELSE "none"
        /\ \A n \in Outputs : out[n] # "failed"
    <2>1. Outputs \subseteq Nodes
      BY DEF Inv, TypeOK, Outputs, ToSet
    <2> QED
      BY <1>1, <2>1 DEF Inv, RunInv
  <1>4. /\ Outputs' = Outputs /\ Stage' = Stage /\ Ranked(stage)' = Ranked(stage)
        /\ \A n \in Nodes : Predecessors(n)' = Predecessors(n)
    BY <1>1, StageStays DEF Inv, Outputs, ToSet
  <1>5. \A n \in Nodes : state'[n] = IF n \in Outputs THEN "done" ELSE IF n \in Stage THEN "waiting" ELSE "none"
    BY <1>1, <1>2, <1>3
  <1>6. TypeOK'
    <2>1. state' \in [Nodes -> {"none", "waiting", "running", "done"}]
      BY <1>1 DEF Inv, TypeOK
    <2>2. \A n \in Nodes : (out[n] # "none") = (state'[n] = "done")
      BY <1>3, <1>5 DEF Inv, TypeOK
    <2>3. \A n \in Outputs : state'[n] = "done"
      BY <1>3, <1>5
    <2> QED
      BY <1>1, <1>3, <1>4, <2>1, <2>2, <2>3 DEF Inv, TypeOK
  <1>7. \A n \in Nodes : state'[n] # "none" =>
         \A p \in Predecessors(n) : state'[p] = "done" /\ out[p] # "failed"
    <2> SUFFICES ASSUME NEW n \in Nodes, state'[n] # "none", NEW p \in Predecessors(n)
                 PROVE  state'[p] = "done" /\ out[p] # "failed"
      OBVIOUS
    <2>0. p \in Nodes
      BY DEF Predecessors
    <2>1. CASE n \in Stage
      BY <1>2, <1>3, <1>5, <2>0, <2>1
    <2>2. CASE n \notin Stage
      <3>1. state[n] # "none"
        BY <1>1, <2>2
      <3>2. state[p] = "done" /\ out[p] # "failed"
        BY <3>1 DEF Inv, RunInv
      <3> QED
        BY <1>3, <1>5, <2>0, <3>2
    <2> QED
      BY <2>1, <2>2
  <1>8. RunInv'
    <2>0. /\ ToSet(snapshot)' = Ranked(stage)'
          /\ IsPrefix(snapshot, order)'
      <3>1. ToSet(snapshot') = Outputs /\ IsPrefix(snapshot', order')
        BY <1>1 DEF IsPrefix, Outputs, Inv, TypeOK
      <3> QED
        BY <1>3, <1>4, <3>1
    <2>1. (pc \in {"validate", "invalid", "begin"})' <=> FALSE
      BY <1>1
    <2>2. (InStage => /\ Stage # {}
                      /\ ToSet(snapshot) = Ranked(stage)
                      /\ IsPrefix(snapshot, order)
                      /\ Ranked(stage) \subseteq Outputs
                      /\ Outputs \subseteq Ranked(stage) \cup Stage
                      /\ \A n \in Ranked(stage) : state[n] = "done" /\ out[n] # "failed"
                      /\ \A n \in Nodes : state[n] # "none" <=> n \in Ranked(stage) \cup Stage)'
      BY <1>1, <1>2, <1>3, <1>4, <1>5, <2>0 DEF InStage
    <2>3. (pc \in {"end", "success", "failure"} =>
             /\ \A n \in Nodes : state[n] \in {"none", "done"}
             /\ success => Outputs = Nodes)'
      BY <1>1, <1>2, <1>3, <1>4, <1>5
    <2>4. (success <=> \A n \in Outputs : out[n] # "failed")'
      BY <1>1, <1>3, <1>4
    <2>5. (\A n \in Nodes : state[n] # "none" =>
             \A p \in Predecessors(n) : state[p] = "done" /\ out[p] # "failed")'
      BY <1>1, <1>4, <1>7
    <2> QED
      BY <2>1, <2>2, <2>3, <2>4, <2>5 DEF RunInv
  <1>9. InputsFollowTheGraph'
    <2>1. \A n \in Nodes : state'[n] \in {"running", "done"} => state[n] \in {"running", "done"}
      BY <1>3, <1>5
    <2> QED
      BY <1>1, <2>1, InputsStay DEF Inv, Grows
  <1> QED
    BY <1>6, <1>8, <1>9 DEF Good

LEMMA StageEndsKeepsRun ==
    ASSUME Inv, StageEnds
    PROVE  Good'
  <1>1. /\ edges' = edges /\ pc \in {"single", "parallel"}
        /\ pc' = (IF success THEN "begin" ELSE "end")
        /\ stage' = stage + 1 /\ snapshot' = snapshot /\ state' = state /\ order' = order
        /\ out' = out /\ reads' = reads /\ joined' = joined /\ success' = success
        /\ visited' = visited /\ path' = path /\ left' = left
        /\ Stage \subseteq Outputs
    BY DEF StageEnds, search
  <1>2. /\ Stage # {} /\ Ranked(stage) \subseteq Outputs /\ Outputs \subseteq Ranked(stage) \cup Stage
        /\ \A n \in Nodes : state[n] # "none" <=> n \in Ranked(stage) \cup Stage
    BY <1>1 DEF Inv, RunInv, InStage
  <1>3. stage \in Nat /\ stage + 1 \in 0..Cardinality(Nodes) /\ Ranked(stage + 1) = Ranked(stage) \cup Stage
    BY <1>1, <1>2, StageFacts DEF Inv
  <1>4. /\ Outputs' = Outputs /\ Ranked(stage)' = Ranked(stage + 1)
        /\ \A n \in Nodes : Predecessors(n)' = Predecessors(n)
    BY <1>1, <1>3, GraphStays DEF Outputs, ToSet
  <1>5. Outputs = Ranked(stage + 1)
    BY <1>1, <1>2, <1>3
  <1>6. \A n \in Nodes : state[n] = IF n \in Outputs THEN "done" ELSE "none"
    BY <1>2, <1>3, <1>5 DEF Inv, TypeOK
  <1>7. TypeOK'
    BY <1>1, <1>3, <1>4 DEF Inv, TypeOK
  <1>8. RunInv'
    <2>1. (success <=> \A n \in Outputs : out[n] # "failed")'
      BY <1>1, <1>4 DEF Inv, RunInv
    <2>2. (\A n \in Nodes : state[n] # "none" =>
             \A p \in Predecessors(n) : state[p] = "done" /\ out[p] # "failed")'
      BY <1>1, <1>4 DEF Inv, RunInv
    <2>3. (pc = "begin" => /\ success
                           /\ Outputs = Ranked(stage)
                           /\ \A n \in Nodes : state[n] = IF n \in Outputs THEN "done" ELSE "none")'
      BY <1>1, <1>4, <1>5, <1>6
    <2>4. (pc \in {"end", "success", "failure"} =>
             /\ \A n \in Nodes : state[n] \in {"none", "done"}
             /\ success => Outputs = Nodes)'
      BY <1>1, <1>6
    <2>5. pc' \notin {"validate", "invalid"} /\ ~InStage'
      BY <1>1 DEF InStage
    <2> QED
      BY <2>1, <2>2, <2>3, <2>4, <2>5 DEF RunInv
  <1>9. InputsFollowTheGraph'
    BY <1>1, InputsStay DEF Inv, Grows
  <1> QED
    BY <1>7, <1>8, <1>9 DEF Good

\* The run ends, by itself or by an exception.
LEMMA EndKeepsRun ==
    ASSUME Inv, Result \/ BusRaises
    PROVE  Good'
  <1>1. /\ edges' = edges /\ UNCHANGED run /\ UNCHANGED search
        /\ \/ pc = "end" /\ pc' \in {"success", "failure"}
           \/ pc' = "raised"
    BY DEF Result, BusRaises
  <1>2. /\ stage' = stage /\ snapshot' = snapshot /\ state' = state /\ order' = order
        /\ out' = out /\ reads' = reads /\ joined' = joined /\ success' = success
        /\ visited' = visited /\ path' = path /\ left' = left
    BY <1>1 DEF run, search
  <1>3. Outputs' = Outputs /\ \A n \in Nodes : Predecessors(n)' = Predecessors(n)
    BY <1>1, <1>2, GraphStays DEF Outputs, ToSet
  <1>4. TypeOK'
    BY <1>1, <1>2, <1>3 DEF Inv, TypeOK
  <1>5. RunInv'
    <2>1. pc' \notin {"validate", "invalid", "begin"} /\ ~InStage'
      BY <1>1 DEF InStage
    <2>2. (success <=> \A n \in Outputs : out[n] # "failed")'
      BY <1>2, <1>3 DEF Inv, RunInv
    <2>3. (\A n \in Nodes : state[n] # "none" =>
             \A p \in Predecessors(n) : state[p] = "done" /\ out[p] # "failed")'
      BY <1>2, <1>3 DEF Inv, RunInv
    <2>4. (pc \in {"end", "success", "failure"} =>
             /\ \A n \in Nodes : state[n] \in {"none", "done"}
             /\ success => Outputs = Nodes)'
      BY <1>1, <1>2, <1>3 DEF Inv, RunInv
    <2> QED
      BY <2>1, <2>2, <2>3, <2>4 DEF RunInv
  <1>6. InputsFollowTheGraph'
    BY <1>1, <1>2, InputsStay DEF Inv, Grows
  <1> QED
    BY <1>4, <1>5, <1>6 DEF Good

\* Steps of the nodes: within a stage, that goes on.
LEMMA NodesAreInStage ==
    ASSUME Inv, pc \in {"single", "parallel"}, UNCHANGED <<edges, pc, search, stage, snapshot>>
    PROVE  /\ edges' = edges /\ pc' = pc /\ stage' = stage /\ snapshot' = snapshot
           /\ visited' = visited /\ path' = path /\ left' = left
           /\ Stage # {} /\ ToSet(snapshot) = Ranked(stage) /\ IsPrefix(snapshot, order)
           /\ Ranked(stage) \subseteq Outputs /\ Outputs \subseteq Ranked(stage) \cup Stage
           /\ \A n \in Ranked(stage) : state[n] = "done" /\ out[n] # "failed"
           /\ \A n \in Nodes : state[n] # "none" <=> n \in Ranked(stage) \cup Stage
           /\ \A n \in Stage : Predecessors(n) \subseteq Ranked(stage)
           /\ Ranked(stage) \cap Stage = {} /\ Outputs \subseteq Nodes
           /\ Stage' = Stage /\ Ranked(stage)' = Ranked(stage)
           /\ \A n \in Nodes : Predecessors(n)' = Predecessors(n) /\ Predecessors(n) \subseteq Nodes
  <1>1. /\ edges' = edges /\ pc' = pc /\ stage' = stage /\ snapshot' = snapshot
        /\ visited' = visited /\ path' = path /\ left' = left
    BY DEF search
  <1>2. /\ Stage # {} /\ ToSet(snapshot) = Ranked(stage) /\ IsPrefix(snapshot, order)
        /\ Ranked(stage) \subseteq Outputs /\ Outputs \subseteq Ranked(stage) \cup Stage
        /\ \A n \in Ranked(stage) : state[n] = "done" /\ out[n] # "failed"
        /\ \A n \in Nodes : state[n] # "none" <=> n \in Ranked(stage) \cup Stage
    BY DEF Inv, RunInv, InStage
  <1>3. /\ \A n \in Stage : Predecessors(n) \subseteq Ranked(stage)
        /\ Ranked(stage) \cap Stage = {}
    BY StageFacts DEF Inv
  <1>4. /\ Stage' = Stage /\ Ranked(stage)' = Ranked(stage)
        /\ \A n \in Nodes : Predecessors(n)' = Predecessors(n)
    BY <1>1, StageStays DEF Inv
  <1>5. Outputs \subseteq Nodes /\ \A n \in Nodes : Predecessors(n) \subseteq Nodes
    BY DEF Inv, TypeOK, Outputs, ToSet, Predecessors
  <1> QED
    BY <1>1, <1>2, <1>3, <1>4, <1>5

LEMMA StartKeepsRun ==
    ASSUME Inv, NEW n \in Nodes, StartNode(n)
    PROVE  Good'
  <1>1. /\ pc \in {"single", "parallel"} /\ UNCHANGED <<edges, pc, search, stage, snapshot>>
        /\ state[n] = "waiting"
        /\ state' = [state EXCEPT ![n] = "running"]
        /\ reads' = [reads EXCEPT ![n] = Input(n, ToSet(snapshot))]
        /\ joined' = [joined EXCEPT ![n] = Joined(n, snapshot)]
        /\ order' = order /\ out' = out /\ success' = success
    BY DEF StartNode
  <1>2. /\ edges' = edges /\ pc' = pc /\ stage' = stage /\ snapshot' = snapshot
        /\ visited' = visited /\ path' = path /\ left' = left
        /\ Stage # {} /\ ToSet(snapshot) = Ranked(stage) /\ IsPrefix(snapshot, order)
        /\ Ranked(stage) \subseteq Outputs /\ Outputs \subseteq Ranked(stage) \cup Stage
        /\ \A m \in Ranked(stage) : state[m] = "done" /\ out[m] # "failed"
        /\ \A m \in Nodes : state[m] # "none" <=> m \in Ranked(stage) \cup Stage
        /\ \A m \in Stage : Predecessors(m) \subseteq Ranked(stage)
        /\ Ranked(stage) \cap Stage = {} /\ Outputs \subseteq Nodes
        /\ Stage' = Stage /\ Ranked(stage)' = Ranked(stage)
        /\ \A m \in Nodes : Predecessors(m)' = Predecessors(m) /\ Predecessors(m) \subseteq Nodes
    BY <1>1, NodesAreInStage
  <1>3. n \in Stage /\ Outputs' = Outputs
    BY <1>1, <1>2 DEF Outputs, ToSet
  <1>4. \A m \in Nodes : state'[m] = IF m = n THEN "running" ELSE state[m]
    BY <1>1 DEF Inv, TypeOK
  <1>5. Input(n, ToSet(snapshot)) \in SUBSET Nodes /\ Joined(n, snapshot) \in Seq(Nodes)
    <2>1. snapshot \in Seq(Nodes) /\ Names[n] \in SUBSET Nodes
      BY WorkflowAssumption DEF Inv, TypeOK, WorkflowAssumption
    <2>2. Input(n, ToSet(snapshot)) \in SUBSET Nodes
      BY <2>1 DEF Input, Predecessors
    <2> QED
      BY <2>1, <2>2 DEF Joined
  <1>6. TypeOK'
    <2>1. /\ state' \in [Nodes -> {"none", "waiting", "running", "done"}]
          /\ reads' \in [Nodes -> SUBSET Nodes] /\ joined' \in [Nodes -> Seq(Nodes)]
      BY <1>1, <1>5 DEF Inv, TypeOK
    <2>2. \A m \in Nodes : (out[m] # "none") = (state'[m] = "done")
      BY <1>1, <1>4 DEF Inv, TypeOK
    <2>3. \A m \in Outputs : state'[m] = "done"
      BY <1>1, <1>2, <1>4 DEF Inv, TypeOK
    <2> QED
      BY <1>1, <1>2, <1>3, <2>1, <2>2, <2>3 DEF Inv, TypeOK
  <1>7. RunInv'
    <2>1. pc' \notin {"validate", "invalid", "begin", "end", "success", "failure"}
      BY <1>1, <1>2
    <2>2. (success <=> \A m \in Outputs : out[m] # "failed")'
      BY <1>1, <1>3 DEF Inv, RunInv
    <2>3. \A m \in Nodes : state'[m] # "none" =>
             \A p \in Predecessors(m) : state'[p] = "done" /\ out[p] # "failed"
      <3> SUFFICES ASSUME NEW m \in Nodes, state'[m] # "none", NEW p \in Predecessors(m)
                   PROVE  state'[p] = "done" /\ out[p] # "failed"
        OBVIOUS
      <3>1. state[m] # "none" /\ p \in Nodes
        BY <1>1, <1>2, <1>4
      <3>2. state[p] = "done" /\ out[p] # "failed"
        BY <3>1 DEF Inv, RunInv
      <3> QED
        BY <1>1, <1>4, <3>1, <3>2
    <2>4. (\A m \in Nodes : state[m] # "none" =>
             \A p \in Predecessors(m) : state[p] = "done" /\ out[p] # "failed")'
      BY <1>1, <1>2, <2>3
    <2>5. (/\ Stage # {}
           /\ ToSet(snapshot) = Ranked(stage)
           /\ IsPrefix(snapshot, order)
           /\ Ranked(stage) \subseteq Outputs
           /\ Outputs \subseteq Ranked(stage) \cup Stage
           /\ \A m \in Ranked(stage) : state[m] = "done" /\ out[m] # "failed"
           /\ \A m \in Nodes : state[m] # "none" <=> m \in Ranked(stage) \cup Stage)'
      BY <1>1, <1>2, <1>3, <1>4
    <2> QED
      BY <2>1, <2>2, <2>4, <2>5 DEF RunInv
  <1>8. InputsFollowTheGraph'
    <2>1. \A m \in Nodes : state[m] \in {"running", "done"} => InputIs(m)
      BY DEF Inv, InputsFollowTheGraph, InputIs
    <2>2. ASSUME NEW m \in Nodes, m # n, state'[m] \in {"running", "done"} PROVE InputIs(m)'
      <3>1. state[m] \in {"running", "done"} /\ reads'[m] = reads[m] /\ joined'[m] = joined[m]
        BY <1>1, <1>4, <2>2 DEF Inv, TypeOK
      <3> QED
        BY <1>1, <1>2, <2>1, <3>1, InputStays DEF Inv, Grows
    <2>3. InputIs(n)'
      <3>1. reads'[n] = Input(n, ToSet(snapshot)) /\ joined'[n] = Joined(n, snapshot)
        BY <1>1 DEF Inv, TypeOK
      <3>2. Ranked(stage) = {m \in Nodes : Level(m) < Level(n)}
        BY <1>1, <1>3, StageFacts DEF Inv
      <3>3. Predecessors(n) \cap ToSet(snapshot) = Predecessors(n)
        BY <1>2, <1>3
      <3>4. \A m \in Nodes : Level(m)' = Level(m)
        BY <1>2, GraphStays
      <3>5. {m \in Nodes : Level(m) < Level(n)}' = Ranked(stage)
        BY <3>2, <3>4
      <3>6. {p \in Predecessors(n) : out[p] # "empty"}' = {p \in Predecessors(n) : out[p] # "empty"}
        BY <1>1, <1>2
      <3>7. reads'[n] = CASE Type[n] = "agent" -> {p \in Predecessors(n) : out[p] # "empty"}
                          [] Type[n] = "condition" -> Names[n] \cap Ranked(stage)
                          [] OTHER -> {}
        BY <1>2, <3>1, <3>3 DEF Input
      <3>8. Type[n] = "transform" => ToSet(joined'[n]) = Ranked(stage) /\ IsPrefix(joined'[n], order')
        BY <1>1, <1>2, <3>1 DEF Joined
      <3> QED
        BY <3>5, <3>6, <3>7, <3>8 DEF InputIs
    <2>4. \A m \in Nodes : state'[m] \in {"running", "done"} => InputIs(m)'
      BY <2>2, <2>3
    <2> QED
      BY <2>4 DEF InputsFollowTheGraph, InputIs
  <1> QED
    BY <1>6, <1>7, <1>8 DEF Good

LEMMA NodeReturnsKeepsRun ==
    ASSUME Inv, NEW n \in Nodes, NodeReturns(n)
    PROVE  Good'
  <1>1. /\ pc \in {"single", "parallel"} /\ UNCHANGED <<edges, pc, search, stage, snapshot>>
        /\ state[n] = "running"
        /\ state' = [state EXCEPT ![n] = "done"]
        /\ order' = order /\ reads' = reads /\ joined' = joined /\ success' = success
    BY DEF NodeReturns
  <1>2. /\ edges' = edges /\ pc' = pc /\ stage' = stage /\ snapshot' = snapshot
        /\ visited' = visited /\ path' = path /\ left' = left
        /\ Stage # {} /\ ToSet(snapshot) = Ranked(stage) /\ IsPrefix(snapshot, order)
        /\ Ranked(stage) \subseteq Outputs /\ Outputs \subseteq Ranked(stage) \cup Stage
        /\ \A m \in Ranked(stage) : state[m] = "done" /\ out[m] # "failed"
        /\ \A m \in Nodes : state[m] # "none" <=> m \in Ranked(stage) \cup Stage
        /\ \A m \in Stage : Predecessors(m) \subseteq Ranked(stage)
        /\ Ranked(stage) \cap Stage = {} /\ Outputs \subseteq Nodes
        /\ Stage' = Stage /\ Ranked(stage)' = Ranked(stage)
        /\ \A m \in Nodes : Predecessors(m)' = Predecessors(m) /\ Predecessors(m) \subseteq Nodes
    BY <1>1, NodesAreInStage
  <1>3. PICK o \in {"text", "false", "empty", "failed"} : out' = [out EXCEPT ![n] = o]
    BY DEF NodeReturns, Outcomes
  <1>4. /\ \A m \in Nodes : state'[m] = IF m = n THEN "done" ELSE state[m]
        /\ \A m \in Nodes : out'[m] = IF m = n THEN o ELSE out[m]
    <2>1. state \in [Nodes -> {"none", "waiting", "running", "done"}] /\ DOMAIN out = Nodes
      BY DEF Inv, TypeOK
    <2>2. \A m \in Nodes : state'[m] = IF m = n THEN "done" ELSE state[m]
      BY <1>1, <2>1
    <2>3. \A m \in Nodes : out'[m] = IF m = n THEN o ELSE out[m]
      <3>1. out \in [Nodes -> {"none", "text", "false", "empty", "failed"}]
        BY DEF Inv, TypeOK
      <3> QED
        BY <1>3, <3>1
    <2> QED
      BY <2>2, <2>3
  <1>5. n \notin Outputs /\ n \notin Ranked(stage) /\ n \in Stage /\ Outputs' = Outputs
    <2>1. \A m \in Outputs : state[m] = "done"
      BY DEF Inv, TypeOK
    <2>2. n \notin Outputs
      BY <1>1, <2>1
    <2>3. n \notin Ranked(stage) /\ n \in Stage
      BY <1>1, <1>2
    <2>4. Outputs' = Outputs
      BY <1>1 DEF Outputs, ToSet
    <2> QED
      BY <2>2, <2>3, <2>4
  <1>6. TypeOK'
    <2>1. /\ state' \in [Nodes -> {"none", "waiting", "running", "done"}]
          /\ out' \in [Nodes -> {"none", "text", "false", "empty", "failed"}]
      BY <1>1, <1>3 DEF Inv, TypeOK
    <2>2. \A m \in Nodes : (out'[m] # "none") = (state'[m] = "done")
      BY <1>4 DEF Inv, TypeOK
    <2>3. \A m \in Outputs : state'[m] = "done"
      BY <1>2, <1>4 DEF Inv, TypeOK
    <2> QED
      BY <1>1, <1>2, <1>5, <2>1, <2>2, <2>3 DEF Inv, TypeOK
  <1>7. \A m \in Nodes : state[m] # "none" => n \notin Predecessors(m)
    BY <1>1 DEF Inv, RunInv
  <1>8. RunInv'
    <2>1. pc' \notin {"validate", "invalid", "begin", "end", "success", "failure"}
      BY <1>1, <1>2
    <2>2. \A m \in Outputs : out'[m] = out[m]
      BY <1>2, <1>4, <1>5
    <2>3. (success <=> \A m \in Outputs : out[m] # "failed")'
      <3>1. success <=> \A m \in Outputs : out[m] # "failed"
        BY DEF Inv, RunInv
      <3> QED
        BY <1>1, <1>5, <2>2, <3>1
    <2>4. \A m \in Nodes : state'[m] # "none" =>
             \A p \in Predecessors(m) : state'[p] = "done" /\ out'[p] # "failed"
      <3> SUFFICES ASSUME NEW m \in Nodes, state'[m] # "none", NEW p \in Predecessors(m)
                   PROVE  state'[p] = "done" /\ out'[p] # "failed"
        OBVIOUS
      <3>1. state[m] # "none" /\ p \in Nodes
        BY <1>1, <1>2, <1>4
      <3>2. state[p] = "done" /\ out[p] # "failed" /\ p # n
        BY <1>7, <3>1 DEF Inv, RunInv
      <3> QED
        BY <1>4, <3>1, <3>2
    <2>5. (\A m \in Nodes : state[m] # "none" =>
             \A p \in Predecessors(m) : state[p] = "done" /\ out[p] # "failed")'
      BY <1>2, <2>4
    <2>6. \A m \in Ranked(stage) : state'[m] = "done" /\ out'[m] # "failed"
      BY <1>2, <1>4, <1>5
    <2>7. \A m \in Nodes : state'[m] # "none" <=> m \in Ranked(stage) \cup Stage
      BY <1>2, <1>4, <1>5
    <2>8. (/\ Stage # {}
           /\ ToSet(snapshot) = Ranked(stage)
           /\ IsPrefix(snapshot, order)
           /\ Ranked(stage) \subseteq Outputs
           /\ Outputs \subseteq Ranked(stage) \cup Stage
           /\ \A m \in Ranked(stage) : state[m] = "done" /\ out[m] # "failed"
           /\ \A m \in Nodes : state[m] # "none" <=> m \in Ranked(stage) \cup Stage)'
      BY <1>1, <1>2, <1>5, <2>6, <2>7
    <2> QED
      BY <2>1, <2>3, <2>5, <2>8 DEF RunInv
  <1>9. InputsFollowTheGraph'
    <2>1. \A m \in Nodes : state'[m] \in {"running", "done"} =>
              /\ state[m] \in {"running", "done"}
              /\ reads'[m] = reads[m] /\ joined'[m] = joined[m]
              /\ \A p \in Predecessors(m) : out'[p] = out[p]
      <3> SUFFICES ASSUME NEW m \in Nodes, state'[m] \in {"running", "done"}
                   PROVE  /\ state[m] \in {"running", "done"}
                          /\ \A p \in Predecessors(m) : out'[p] = out[p]
        BY <1>1
      <3>1. state[m] \in {"running", "done"}
        BY <1>1, <1>4
      <3>2. \A p \in Predecessors(m) : p \in Nodes /\ p # n
        BY <1>2, <1>7, <3>1
      <3> QED
        BY <1>4, <3>1, <3>2
    <2> QED
      BY <1>1, <1>2, <2>1, InputsStay DEF Inv, Grows
  <1> QED
    BY <1>6, <1>8, <1>9 DEF Good

LEMMA CollectKeepsRun ==
    ASSUME Inv, NEW n \in Nodes, Collect(n)
    PROVE  Good'
  <1>1. /\ pc \in {"single", "parallel"} /\ UNCHANGED <<edges, pc, search, stage, snapshot>>
        /\ state[n] = "done" /\ n \notin Outputs
        /\ order' = Append(order, n)
        /\ success' = (success /\ out[n] # "failed")
        /\ state' = state /\ out' = out /\ reads' = reads /\ joined' = joined
    BY DEF Collect
  <1>2. /\ edges' = edges /\ pc' = pc /\ stage' = stage /\ snapshot' = snapshot
        /\ visited' = visited /\ path' = path /\ left' = left
        /\ Stage # {} /\ ToSet(snapshot) = Ranked(stage) /\ IsPrefix(snapshot, order)
        /\ Ranked(stage) \subseteq Outputs /\ Outputs \subseteq Ranked(stage) \cup Stage
        /\ \A m \in Ranked(stage) : state[m] = "done" /\ out[m] # "failed"
        /\ \A m \in Nodes : state[m] # "none" <=> m \in Ranked(stage) \cup Stage
        /\ \A m \in Stage : Predecessors(m) \subseteq Ranked(stage)
        /\ Ranked(stage) \cap Stage = {} /\ Outputs \subseteq Nodes
        /\ Stage' = Stage /\ Ranked(stage)' = Ranked(stage)
        /\ \A m \in Nodes : Predecessors(m)' = Predecessors(m) /\ Predecessors(m) \subseteq Nodes
    BY <1>1, NodesAreInStage
  <1>3. order \in Seq(Nodes) /\ \A i, j \in DOMAIN order : order[i] = order[j] => i = j
    BY DEF Inv, TypeOK
  <1>4. /\ order' \in Seq(Nodes) /\ Len(order') = Len(order) + 1 /\ Len(order) \in Nat
        /\ \A i \in 1..Len(order) : order'[i] = order[i]
        /\ order'[Len(order) + 1] = n
    BY <1>1, <1>3, AppendFacts
  <1>5. Outputs' = Outputs \cup {n}
    <2>1. Outputs' = ToSet(order')
      BY DEF Outputs, ToSet
    <2> QED
      BY <1>1, <1>3, <2>1, AppendFacts DEF Outputs
  <1>6. \A i, j \in DOMAIN order' : order'[i] = order'[j] => i = j
    <2>1. DOMAIN order' = 1..(Len(order) + 1) /\ DOMAIN order = 1..Len(order)
      BY <1>3, <1>4
    <2>2. \A i \in DOMAIN order' : i \in 1..Len(order) \/ i = Len(order) + 1
      BY <1>4, <2>1
    <2>3. \A i \in 1..Len(order) : order[i] # n
      BY <1>1, <1>3 DEF Outputs, ToSet
    <2> QED
      BY <1>3, <1>4, <2>1, <2>2, <2>3
  <1>7. TypeOK'
    <2>1. \A m \in Outputs \cup {n} : state[m] = "done"
      BY <1>1 DEF Inv, TypeOK
    <2>2. success' \in BOOLEAN
      BY <1>1
    <2>3. \A m \in Nodes : (out'[m] # "none") = (state'[m] = "done")
      BY <1>1 DEF Inv, TypeOK
    <2>4. \A m \in Outputs' : state'[m] = "done"
      BY <1>1, <1>5, <2>1
    <2>5. /\ edges' \in [Nodes -> [Nodes -> 0..MaxEdges]]
          /\ pc' \in {"validate", "invalid", "begin", "single", "parallel", "end",
                     "success", "failure", "raised"}
          /\ visited' \subseteq Nodes /\ path' \in Seq(Nodes)
          /\ \A i, j \in DOMAIN path' : path'[i] = path'[j] => i = j
          /\ left' \in [Nodes -> SUBSET Nodes] /\ stage' \in 0..Cardinality(Nodes)
          /\ snapshot' \in Seq(Nodes)
          /\ state' \in [Nodes -> {"none", "waiting", "running", "done"}]
          /\ out' \in [Nodes -> {"none", "text", "false", "empty", "failed"}]
          /\ reads' \in [Nodes -> SUBSET Nodes] /\ joined' \in [Nodes -> Seq(Nodes)]
      BY <1>1, <1>2 DEF Inv, TypeOK
    <2> QED
      BY <1>4, <1>6, <2>2, <2>3, <2>4, <2>5 DEF TypeOK
  <1>8. RunInv'
    <2>1. pc' \notin {"validate", "invalid", "begin", "end", "success", "failure"}
      BY <1>1, <1>2
    <2>2. (success <=> \A m \in Outputs : out[m] # "failed")'
      <3>1. success <=> \A m \in Outputs : out[m] # "failed"
        BY DEF Inv, RunInv
      <3> QED
        BY <1>1, <1>5, <3>1
    <2>3. (\A m \in Nodes : state[m] # "none" =>
             \A p \in Predecessors(m) : state[p] = "done" /\ out[p] # "failed")'
      BY <1>1, <1>2 DEF Inv, RunInv
    <2>4. n \in Ranked(stage) \cup Stage
      BY <1>1, <1>2
    <2>5. (/\ Stage # {}
           /\ ToSet(snapshot) = Ranked(stage)
           /\ IsPrefix(snapshot, order)
           /\ Ranked(stage) \subseteq Outputs
           /\ Outputs \subseteq Ranked(stage) \cup Stage
           /\ \A m \in Ranked(stage) : state[m] = "done" /\ out[m] # "failed"
           /\ \A m \in Nodes : state[m] # "none" <=> m \in Ranked(stage) \cup Stage)'
      <3>1. IsPrefix(snapshot, order')
        BY <1>1, <1>2, PrefixesStay DEF Grows, Inv, TypeOK
      <3> QED
        BY <1>1, <1>2, <1>5, <2>4, <3>1
    <2> QED
      BY <2>1, <2>2, <2>3, <2>5 DEF RunInv
  <1>9. InputsFollowTheGraph'
    BY <1>1, <1>2, InputsStay DEF Inv, Grows
  <1> QED
    BY <1>7, <1>8, <1>9 DEF Good

LEMMA InitInv == Init => Inv
  <1> SUFFICES ASSUME Init PROVE Inv
    OBVIOUS
  <1>1. SearchInv
    BY InitSearch
  <1>2. order = <<>> /\ Outputs = {} /\ path = <<>>
    BY DEF Init, Outputs, ToSet
  <1>3. TypeOK
    <2>1. 0 \in 0..Cardinality(Nodes)
      BY SubsetSizes
    <2>2. /\ \A i, j \in DOMAIN path : path[i] = path[j] => i = j
          /\ \A i, j \in DOMAIN order : order[i] = order[j] => i = j
          /\ path \in Seq(Nodes) /\ order \in Seq(Nodes)
      BY <1>2
    <2> QED
      BY <1>2, <2>1, <2>2 DEF Init, TypeOK
  <1>4. RunInv
    BY <1>2 DEF Init, RunInv, InStage
  <1>5. InputsFollowTheGraph
    BY DEF Init, InputsFollowTheGraph
  <1> QED
    BY <1>1, <1>3, <1>4, <1>5 DEF Inv

LEMMA NextInv == Inv /\ [Next]_vars => Inv'
  <1> SUFFICES ASSUME Inv, [Next]_vars PROVE Inv'
    OBVIOUS
  <1>1. SearchInv'
    BY SearchStep DEF Inv
  <1>2. ASSUME UNCHANGED vars PROVE Good'
    <2>1. /\ edges' = edges /\ pc' = pc /\ visited' = visited /\ path' = path /\ left' = left
          /\ stage' = stage /\ snapshot' = snapshot /\ state' = state /\ order' = order
          /\ out' = out /\ reads' = reads /\ joined' = joined /\ success' = success
      BY <1>2 DEF vars, search, run
    <2>2. Outputs' = Outputs
      BY <2>1 DEF Outputs, ToSet
    <2>3. TypeOK'
      BY <2>1, <2>2 DEF Inv, TypeOK
    <2>4. /\ Stage' = Stage /\ Ranked(stage)' = Ranked(stage)
          /\ \A n \in Nodes : Predecessors(n)' = Predecessors(n)
      BY <2>1, StageStays DEF Inv
    <2>5. RunInv'
      BY <2>1, <2>2, <2>4 DEF Inv, RunInv, InStage
    <2>6. InputsFollowTheGraph'
      BY <2>1, InputsStay DEF Inv, Grows
    <2> QED
      BY <2>3, <2>5, <2>6 DEF Good
  <1>3. ASSUME NEW n \in Nodes, StartNode(n) \/ NodeReturns(n) \/ Collect(n) PROVE Good'
    BY <1>3, StartKeepsRun, NodeReturnsKeepsRun, CollectKeepsRun
  <1>4. ASSUME Main PROVE Good'
    BY <1>4, SearchKeepsRun, ValidatedKeepsRun, BeginKeepsRun, StageEndsKeepsRun, EndKeepsRun DEF Main
  <1>5. ASSUME BusRaises PROVE Good'
    BY <1>5, EndKeepsRun
  <1>6. Good'
    BY <1>2, <1>3, <1>4, <1>5 DEF Next, Rests
  <1> QED
    BY <1>1, <1>6 DEF Good, Inv

\* The invariant that carries the others.
LEMMA Invariance == Spec => []Inv
  <1>1. Init => Inv
    BY InitInv
  <1>2. Inv /\ [Next]_vars => Inv'
    BY NextInv
  <1> QED
    BY <1>1, <1>2, PTL DEF Spec

-----------------------------------------------------------------------------

\* The variables stay in their types; no node is on the stack or collected twice, and
\* the stages are not more than the nodes.
THEOREM TypeCorrect == Spec => []TypeOK
  <1>1. Inv => TypeOK
    BY DEF Inv
  <1> QED
    BY <1>1, Invariance, PTL

\* The search of validate calls a graph invalid exactly if it has a cycle, in whatever
\* order it takes up nodes and neighbours.
THEOREM SearchIsRight == Spec => []CyclesAreFound
  <1>1. Inv => CyclesAreFound
    <2> SUFFICES ASSUME Inv PROVE CyclesAreFound
      OBVIOUS
    <2>1. pc = "invalid" => Cyclic
      BY DEF Inv, SearchInv
    <2>2. pc \notin {"validate", "invalid"} => ~Cyclic
      BY SearchIsComplete DEF Inv, SearchInv
    <2> QED
      BY <2>1, <2>2 DEF CyclesAreFound
  <1> QED
    BY <1>1, Invariance, PTL

\* execution_stages puts each node into exactly one stage, that of the longest path
\* that leads to it, whatever the graph and the multiplicity of its edges.
THEOREM StagesAreRight == Spec => []StagesAreLevels
  <1>1. Inv => StagesAreLevels
    <2> SUFFICES ASSUME Inv, pc = "begin"
                 PROVE  \A n \in Nodes, k \in 0..Cardinality(Nodes) : n \in Peel(k).ready <=> Level(n) = k
      BY DEF StagesAreLevels
    <2>1. EdgesType /\ ~Cyclic
      BY StageFacts DEF Inv
    <2>2. \A k \in 0..Cardinality(Nodes) : k \in Nat
      BY SubsetSizes
    <2> QED
      BY <2>1, <2>2, AcyclicLevels
  <1> QED
    BY <1>1, Invariance, PTL

\* The prompts of agents and what conditions look at are functions of the graph and of
\* the outputs, however the threads are scheduled; a transform joins the outputs of
\* exactly the stages before its own, in the order in which they were collected.
THEOREM InputsAreRight == Spec => []InputsFollowTheGraph
  <1>1. Inv => InputsFollowTheGraph
    BY DEF Inv
  <1> QED
    BY <1>1, Invariance, PTL

-----------------------------------------------------------------------------
(* Nobody waits for nobody.                                                *)

\* A stage whose results are not all there has a node that runs, one that a thread of
\* the pool may take up, or one whose result the main thread has not collected.
SomethingGoesOn ==
    pc \in {"single", "parallel"} /\ ~(Stage \subseteq Outputs) =>
        \E n \in Stage :
            \/ state[n] = "running"
            \/ /\ state[n] = "waiting"
               /\ Cardinality({m \in Nodes : state[m] = "running"}) < MaxParallel
            \/ state[n] = "done" /\ n \notin Outputs

\* However many nodes a stage has and however few threads the pool, the main thread never
\* waits for a result that nobody is to deliver (engine.py 76-118): what RunEnds needs
\* besides nodes that come back.
THEOREM PoolNeverBlocks == Spec => []SomethingGoesOn
  <1>1. Inv => SomethingGoesOn
    <2> SUFFICES ASSUME Inv, pc \in {"single", "parallel"}, ~(Stage \subseteq Outputs)
                 PROVE  \E n \in Stage :
                           \/ state[n] = "running"
                           \/ /\ state[n] = "waiting"
                              /\ Cardinality({m \in Nodes : state[m] = "running"}) < MaxParallel
                           \/ state[n] = "done" /\ n \notin Outputs
      BY DEF SomethingGoesOn
    <2>1. PICK n \in Stage : n \notin Outputs
      OBVIOUS
    <2>2. n \in Nodes /\ \A m \in Nodes : state[m] # "none" <=> m \in Ranked(stage) \cup Stage
      BY <2>1, StageFacts DEF Inv, RunInv, InStage
    <2>3. state[n] \in {"waiting", "running", "done"}
      BY <2>1, <2>2 DEF Inv, TypeOK
    <2>4. CASE \E m \in Nodes : state[m] = "running"
      <3>1. PICK m \in Nodes : state[m] = "running"
        BY <2>4
      <3>2. m \in Stage
        BY <2>2, <3>1 DEF Inv, RunInv, InStage
      <3> QED
        BY <3>1, <3>2
    <2>5. CASE ~ \E m \in Nodes : state[m] = "running"
      <3>1. {m \in Nodes : state[m] = "running"} = {}
        BY <2>5
      <3>2. Cardinality({m \in Nodes : state[m] = "running"}) = 0
        BY <3>1, FS_EmptySet
      <3>3. MaxParallel > 0
        BY WorkflowAssumption DEF WorkflowAssumption
      <3>4. CASE state[n] = "waiting"
        BY <3>2, <3>3, <3>4
      <3>5. CASE state[n] # "waiting"
        BY <2>1, <2>2, <2>3, <2>5, <3>5
      <3> QED
        BY <3>4, <3>5
    <2> QED
      BY <2>4, <2>5
  <1> QED
    BY <1>1, Invariance, PTL

-----------------------------------------------------------------------------
(* The run implements DagRun.                                              *)

LEMMA OutcomeIs ==
    /\ pc \in {"validate", "begin", "single", "parallel", "end"} => Outcome = "open"
    /\ pc = "success" => Outcome = "success"
    /\ pc \in {"failure", "invalid"} => Outcome = "failure"
    /\ pc = "raised" => Outcome = "raised"
  BY DEF Outcome

LEMMA StatusIs ==
    ASSUME TypeOK, NEW n \in Nodes
    PROVE  /\ state[n] \in {"none", "waiting"} <=> Status(n) = "idle"
           /\ state[n] = "running" <=> Status(n) = "running"
           /\ state[n] = "done" /\ out[n] = "failed" <=> Status(n) = "failed"
           /\ state[n] = "done" /\ out[n] # "failed" <=> Status(n) = "ok"
           /\ Status(n) \in {"idle", "running", "failed", "ok"}
  <1>1. state[n] \in {"none", "waiting", "running", "done"}
    BY DEF TypeOK
  <1>2. out[n] = "failed" => state[n] = "done"
    BY DEF TypeOK
  <1>3. CASE state[n] \in {"none", "waiting"}
    <2>1. Status(n) = "idle"
      BY <1>2, <1>3 DEF Status
    <2> QED
      BY <1>3, <2>1
  <1>4. CASE state[n] = "running"
    <2>1. Status(n) = "running"
      BY <1>2, <1>4 DEF Status
    <2> QED
      BY <1>4, <2>1
  <1>5. CASE state[n] = "done" /\ out[n] = "failed"
    <2>1. Status(n) = "failed"
      BY <1>5 DEF Status
    <2> QED
      BY <1>5, <2>1
  <1>6. CASE state[n] = "done" /\ out[n] # "failed"
    <2>1. Status(n) = "ok"
      BY <1>6 DEF Status
    <2> QED
      BY <1>6, <2>1
  <1> QED
    BY <1>1, <1>3, <1>4, <1>5, <1>6

LEMMA StatusStays ==
    ASSUME NEW n \in Nodes, state'[n] = state[n], out'[n] = out[n]
    PROVE  Status(n)' = Status(n)
  BY DEF Status

StatusMap == [n \in Nodes |-> Status(n)]
NeedsMap == [n \in Nodes |-> Predecessors(n)]

LEMMA DagInit == Init => Dag!Init
  <1> SUFFICES ASSUME Init PROVE Dag!Init
    OBVIOUS
  <1>1. TypeOK
    BY InitInv DEF Inv
  <1>2. \A n \in Nodes : Status(n) = "idle"
    BY <1>1, StatusIs DEF Init
  <1>3. \A n \in Nodes : Predecessors(n) \in SUBSET Nodes
    BY DEF Predecessors
  <1>4. Outcome = "open"
    BY OutcomeIs DEF Init
  <1> QED
    BY <1>2, <1>3, <1>4 DEF Dag!Init

LEMMA NeedsStay ==
    ASSUME edges' = edges
    PROVE  NeedsMap' = NeedsMap
  BY GraphStays DEF NeedsMap

\* Steps that change no node's status and no outcome.
LEMMA DagStutters ==
    ASSUME edges' = edges, Outcome' = Outcome, \A n \in Nodes : Status(n)' = Status(n)
    PROVE  UNCHANGED Dag!vars
  <1>1. NeedsMap' = NeedsMap /\ StatusMap' = StatusMap
    BY NeedsStay DEF StatusMap
  <1> QED
    BY <1>1 DEF Dag!vars, NeedsMap, StatusMap

\* Steps that change the outcome only.
LEMMA DagOutcome ==
    ASSUME edges' = edges, UNCHANGED <<state, out>>
    PROVE  NeedsMap' = NeedsMap /\ StatusMap' = StatusMap
  BY NeedsStay, StatusStays DEF StatusMap

LEMMA DagStep ==
    ASSUME Inv, Inv', [Next]_vars
    PROVE  [Dag!Next]_(Dag!vars)
  <1>0. TypeOK /\ TypeOK' /\ RunInv /\ SearchInv
    BY DEF Inv
  <1>1. ASSUME edges' = edges, UNCHANGED <<state, out>>, Outcome' = Outcome
        PROVE  UNCHANGED Dag!vars
    BY <1>1, StatusStays, DagStutters
  <1>2. ASSUME Root \/ Return \/ Validated \/ StageEnds PROVE UNCHANGED Dag!vars
    <2>1. edges' = edges /\ UNCHANGED <<state, out>>
      BY <1>2 DEF Root, Return, Validated, StageEnds, run
    <2>2. Outcome = "open"
      BY <1>2, OutcomeIs DEF Root, Return, Validated, StageEnds
    <2>3. pc' \in {"validate", "begin", "end"}
      BY <1>2 DEF Root, Return, Validated, StageEnds
    <2>4. Outcome' = "open"
      BY <2>3 DEF Outcome
    <2> QED
      BY <1>1, <2>1, <2>2, <2>4
  <1>3. ASSUME Look PROVE [Dag!Next]_(Dag!vars)
    <2>1. edges' = edges /\ UNCHANGED <<state, out>> /\ pc = "validate" /\ pc' \in {"validate", "invalid"}
      BY <1>3 DEF Look, run
    <2>2. Outcome = "open"
      BY <2>1, OutcomeIs
    <2>3. CASE pc' = "validate"
      <3>1. Outcome' = "open"
        BY <2>3 DEF Outcome
      <3> QED
        BY <1>1, <2>1, <2>2, <3>1
    <2>4. CASE pc' = "invalid"
      <3>1. Outcome' = "failure"
        BY <2>4 DEF Outcome
      <3>2. \A n \in Nodes : Status(n) = "idle"
        <4>1. \A n \in Nodes : state[n] = "none"
          BY <1>0, <2>1 DEF RunInv
        <4> QED
          BY <1>0, <4>1, StatusIs
      <3>3. NeedsMap' = NeedsMap /\ StatusMap' = StatusMap
        BY <2>1, DagOutcome
      <3>4. \A n \in Nodes : StatusMap[n] = "idle"
        BY <3>2 DEF StatusMap
      <3>5. Dag!GiveUp
        BY <2>2, <3>1, <3>3, <3>4 DEF Dag!GiveUp, NeedsMap, StatusMap
      <3> QED
        BY <3>5 DEF Dag!Next
    <2> QED
      BY <2>1, <2>3, <2>4
  <1>4. ASSUME Begin PROVE UNCHANGED Dag!vars
    <2>1. /\ edges' = edges /\ out' = out /\ pc = "begin"
          /\ state' = [n \in Nodes |-> IF n \in Stage THEN "waiting" ELSE state[n]]
      BY <1>4 DEF Begin
    <2>2. pc' \in {"end", "single", "parallel"}
      <3>1. CASE Stage = {}
        <4>1. Cardinality(Stage) = 0
          BY <3>1, FS_EmptySet
        <4> QED
          BY <1>4, <3>1, <4>1 DEF Begin
      <3>2. CASE Stage # {} /\ Cardinality(Stage) = 1
        BY <1>4, <3>2 DEF Begin
      <3>3. CASE Stage # {} /\ Cardinality(Stage) # 1
        BY <1>4, <3>3 DEF Begin
      <3> QED
        BY <3>1, <3>2, <3>3
    <2>3. Outcome' = "open" /\ Outcome = "open"
      BY <2>1, <2>2 DEF Outcome
    <2>4. Outputs = Ranked(stage) /\ \A n \in Nodes : state[n] = IF n \in Outputs THEN "done" ELSE "none"
      BY <1>0, <2>1 DEF RunInv
    <2>5. Ranked(stage) \cap Stage = {}
      BY <1>0, <2>1, StageFacts
    <2>6. ASSUME NEW n \in Nodes PROVE Status(n)' = Status(n)
      <3>1. CASE n \in Stage
        <4>1. state[n] = "none" /\ state'[n] = "waiting"
          BY <2>1, <2>4, <2>5, <3>1
        <4>2. out[n] # "failed" /\ out'[n] # "failed"
          BY <1>0, <2>1, <4>1 DEF TypeOK
        <4>3. Status(n) = "idle"
          BY <1>0, <4>1, StatusIs
        <4>4. Status(n)' = "idle"
          BY <4>1, <4>2 DEF Status
        <4> QED
          BY <4>3, <4>4
      <3>2. CASE n \notin Stage
        <4>1. state'[n] = state[n] /\ out'[n] = out[n]
          BY <2>1, <3>2
        <4> QED
          BY <4>1, StatusStays
      <3> QED
        BY <3>1, <3>2
    <2> QED
      BY <2>1, <2>3, <2>6, DagStutters
  <1>5. ASSUME NEW n \in Nodes, StartNode(n) PROVE Dag!Next
    <2>1. /\ edges' = edges /\ out' = out /\ pc' = pc /\ pc \in {"single", "parallel"}
          /\ state[n] = "waiting" /\ state' = [state EXCEPT ![n] = "running"]
      BY <1>5 DEF StartNode
    <2>2. Outcome' = "open" /\ Outcome = "open"
      BY <2>1 DEF Outcome
    <2>3. \A m \in Nodes : state'[m] = IF m = n THEN "running" ELSE state[m]
      BY <1>0, <2>1 DEF TypeOK
    <2>4. StatusMap' = [StatusMap EXCEPT ![n] = "running"]
      <3>1. \A m \in Nodes : m # n => Status(m)' = Status(m)
        BY <2>1, <2>3, StatusStays
      <3>2. out'[n] # "failed"
        BY <1>0, <2>1 DEF TypeOK
      <3>3. Status(n)' = "running"
        BY <2>3, <3>2 DEF Status
      <3> QED
        BY <3>1, <3>3 DEF StatusMap
    <2>5. StatusMap[n] = "idle" /\ \A p \in NeedsMap[n] : StatusMap[p] = "ok"
      <3>1. Status(n) = "idle"
        BY <1>0, <2>1, StatusIs
      <3>2. \A p \in Predecessors(n) : p \in Nodes /\ state[p] = "done" /\ out[p] # "failed"
        BY <1>0, <2>1 DEF RunInv, Predecessors
      <3>3. \A p \in Predecessors(n) : p \in Nodes /\ Status(p) = "ok"
        BY <1>0, <3>2, StatusIs
      <3> QED
        BY <3>1, <3>3 DEF StatusMap, NeedsMap
    <2>6. NeedsMap' = NeedsMap
      BY <2>1, NeedsStay
    <2>7. Dag!Start(n)
      BY <2>2, <2>4, <2>5, <2>6 DEF Dag!Start, StatusMap, NeedsMap
    <2> QED
      BY <2>7 DEF Dag!Next
  <1>6. ASSUME NEW n \in Nodes, NodeReturns(n) PROVE Dag!Next
    <2>1. /\ edges' = edges /\ pc' = pc /\ pc \in {"single", "parallel"}
          /\ state[n] = "running" /\ state' = [state EXCEPT ![n] = "done"]
      BY <1>6 DEF NodeReturns
    <2>2. PICK o \in {"text", "false", "empty", "failed"} : out' = [out EXCEPT ![n] = o]
      BY <1>6 DEF NodeReturns, Outcomes
    <2>3. Outcome' = "open" /\ Outcome = "open"
      BY <2>1 DEF Outcome
    <2>4. \A m \in Nodes : state'[m] = IF m = n THEN "done" ELSE state[m]
      BY <1>0, <2>1 DEF TypeOK
    <2>5. \A m \in Nodes : out'[m] = IF m = n THEN o ELSE out[m]
      <3>1. out \in [Nodes -> {"none", "text", "false", "empty", "failed"}]
        BY <1>0 DEF TypeOK
      <3> QED
        BY <2>2, <3>1
    <2>6. PICK s \in {"ok", "failed"} : Status(n)' = s
      <3>1. state'[n] = "done"
        BY <2>4
      <3> QED
        BY <3>1 DEF Status
    <2>7. StatusMap' = [StatusMap EXCEPT ![n] = s]
      <3>1. \A m \in Nodes : m # n => Status(m)' = Status(m)
        BY <2>4, <2>5, StatusStays
      <3> QED
        BY <2>6, <3>1 DEF StatusMap
    <2>8. StatusMap[n] = "running"
      <3>1. Status(n) = "running"
        BY <1>0, <2>1, StatusIs
      <3> QED
        BY <3>1 DEF StatusMap
    <2>9. NeedsMap' = NeedsMap
      BY <2>1, NeedsStay
    <2>10. Dag!End(n, s)
      BY <2>3, <2>7, <2>8, <2>9 DEF Dag!End, StatusMap, NeedsMap
    <2> QED
      BY <2>10 DEF Dag!Next
  <1>7. ASSUME NEW n \in Nodes, Collect(n) PROVE UNCHANGED Dag!vars
    <2>1. edges' = edges /\ UNCHANGED <<state, out>> /\ pc' = pc
      BY <1>7 DEF Collect
    <2>2. Outcome' = Outcome
      BY <2>1 DEF Outcome
    <2> QED
      BY <1>1, <2>1, <2>2
  <1>8. ASSUME Result PROVE Dag!Next
    <2>1. /\ edges' = edges /\ UNCHANGED <<state, out>> /\ pc = "end"
          /\ pc' = IF success THEN "success" ELSE "failure"
      BY <1>8 DEF Result, run
    <2>2. Outcome = "open"
      BY <2>1 DEF Outcome
    <2>3. NeedsMap' = NeedsMap /\ StatusMap' = StatusMap
      BY <2>1, DagOutcome
    <2>4. CASE success
      <3>1. Outcome' = "success"
        BY <2>1, <2>4 DEF Outcome
      <3>2. \A n \in Nodes : state[n] = "done" /\ out[n] # "failed"
        <4>1. Outputs = Nodes /\ \A n \in Outputs : out[n] # "failed"
          BY <1>0, <2>1, <2>4 DEF RunInv
        <4>2. \A n \in Outputs : state[n] = "done"
          BY <1>0 DEF TypeOK
        <4> QED
          BY <4>1, <4>2
      <3>3. \A n \in Nodes : StatusMap[n] = "ok"
        BY <1>0, <3>2, StatusIs DEF StatusMap
      <3>4. Dag!Succeed
        BY <2>2, <2>3, <3>1, <3>3 DEF Dag!Succeed, StatusMap, NeedsMap
      <3> QED
        BY <3>4 DEF Dag!Next
    <2>5. CASE ~success
      <3>1. Outcome' = "failure"
        BY <2>1, <2>5 DEF Outcome
      <3>2. PICK n \in Outputs : out[n] = "failed"
        BY <1>0, <2>5 DEF RunInv
      <3>3. n \in Nodes /\ state[n] = "done"
        BY <1>0 DEF TypeOK, Outputs, ToSet
      <3>4. StatusMap[n] = "failed"
        <4>1. Status(n) = "failed"
          BY <1>0, <3>2, <3>3, StatusIs
        <4> QED
          BY <3>3, <4>1 DEF StatusMap
      <3>5. \A m \in Nodes : StatusMap[m] # "running"
        <4>1. \A m \in Nodes : state[m] \in {"none", "done"}
          BY <1>0, <2>1 DEF RunInv
        <4>2. \A m \in Nodes : Status(m) # "running"
          BY <1>0, <4>1, StatusIs
        <4> QED
          BY <4>2 DEF StatusMap
      <3>6. Dag!GiveUp
        BY <2>2, <2>3, <3>1, <3>3, <3>4, <3>5 DEF Dag!GiveUp, StatusMap, NeedsMap
      <3> QED
        BY <3>6 DEF Dag!Next
    <2> QED
      BY <2>4, <2>5
  <1>9. ASSUME BusRaises PROVE Dag!Next
    <2>1. edges' = edges /\ UNCHANGED <<state, out>> /\ pc \in {"begin", "single", "end"} /\ pc' = "raised"
      BY <1>9 DEF BusRaises, run
    <2>2. Outcome = "open" /\ Outcome' = "raised"
      BY <2>1 DEF Outcome
    <2>3. NeedsMap' = NeedsMap /\ StatusMap' = StatusMap
      BY <2>1, DagOutcome
    <2>4. Dag!Raise
      BY <2>2, <2>3 DEF Dag!Raise, StatusMap, NeedsMap
    <2> QED
      BY <2>4 DEF Dag!Next
  <1>10. ASSUME UNCHANGED vars PROVE UNCHANGED Dag!vars
    <2>1. edges' = edges /\ UNCHANGED <<state, out>> /\ pc' = pc
      BY <1>10 DEF vars, run
    <2>2. Outcome' = Outcome
      BY <2>1 DEF Outcome
    <2> QED
      BY <1>1, <2>1, <2>2
  <1> QED
    BY <1>2, <1>3, <1>4, <1>5, <1>6, <1>7, <1>8, <1>9, <1>10 DEF Next, Main, Rests

\* The run of the engine, with its stages, its pool and its copies of the outputs,
\* keeps the promise of DagRun: a node runs once, after all its predecessors came to a
\* good end, and the outcome fits.
THEOREM RunImplementsDagRun == Spec => ImplementsDagRun
  <1>1. Init => Dag!Init
    BY DagInit
  <1>2. Inv /\ Inv' /\ [Next]_vars => [Dag!Next]_(Dag!vars)
    BY DagStep
  <1> QED
    BY <1>1, <1>2, Invariance, PTL DEF Spec, ImplementsDagRun, Dag!Spec

=============================================================================
