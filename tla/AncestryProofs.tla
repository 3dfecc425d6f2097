---------------------------- MODULE AncestryProofs -----------------------------
(***************************************************************************)
(* Theorems about packages/core/src/dag.ts, for every finite history: what *)
(* the ancestry questions, the parents-first ordering, the request list    *)
(* and the validation of a summary return is what they are meant to        *)
(* return, and two graphs that agree on a history agree on its verdicts.   *)
(*                                                                         *)
(* The functions are defined by recursion over the natural numbers; the    *)
(* first part shows that such a definition has a solution (Recursion) and  *)
(* that a set that contains 0 and the successors of its members is Nat     *)
(* (Counting), from the least-number principle.                            *)
(***************************************************************************)
EXTENDS Summaries, TLAPS, WellFoundedInduction, NaturalsInduction,
        FiniteSetTheorems, SequenceTheorems

(* Every set of natural numbers that is not empty has a least member.      *)
LEMMA LeastNumber == \A S \in SUBSET Nat : S # {} => \E n \in S : \A m \in S : n <= m
<1> SUFFICES ASSUME NEW S \in SUBSET Nat, S # {} PROVE \E n \in S : \A m \in S : n <= m
  OBVIOUS
<1>1. PICK n \in S : \A m \in S : ~ (<<m, n>> \in OpToRel(<, Nat))
  BY NatLessThanWellFounded, WFMin
<1>2. \A m \in S : ~ (m < n)
  BY <1>1 DEF OpToRel
<1>3. QED
  BY <1>2

(* A set that contains 0, and n with n - 1, contains all.                  *)
LEMMA Counting ==
    ASSUME NEW S \in SUBSET Nat, 0 \in S, \A n \in Nat \ {0} : n - 1 \in S => n \in S
    PROVE  S = Nat
<1> SUFFICES ASSUME Nat \ S # {} PROVE FALSE
  OBVIOUS
<1>1. PICK n \in Nat \ S : \A m \in Nat \ S : n <= m
  BY LeastNumber
<1>2. n # 0 /\ n - 1 \in Nat /\ n - 1 \in S
  BY <1>1
<1>3. QED
  BY <1>1, <1>2

-----------------------------------------------------------------------------
(* Definition by recursion over the natural numbers: for a first value and *)
(* a step from each value to the next there is a function that starts with *)
(* the one and follows the other.  IsPart is such a function up to m.      *)
IsPart(start, step, m, part) ==
    /\ part[0] = start
    /\ \A k \in 1..m : part[k] = step[k][part[k - 1]]

(* Up to every number there is such a part.                                *)
LEMMA PartsExist ==
    ASSUME NEW S, NEW start \in S, NEW step \in [Nat -> [S -> S]], NEW m \in Nat
    PROVE  \E part \in [0..m -> S] : IsPart(start, step, m, part)
<1> DEFINE Q == {k \in Nat : \E part \in [0..k -> S] : IsPart(start, step, k, part)}
<1>1. 0 \in Q
  <2>1. IsPart(start, step, 0, [k \in 0..0 |-> start])
    BY DEF IsPart
  <2>2. QED
    BY <2>1
<1>2. ASSUME NEW n \in Nat \ {0}, n - 1 \in Q PROVE n \in Q
  <2>1. PICK part \in [0..(n - 1) -> S] : IsPart(start, step, n - 1, part)
    BY <1>2
  <2>2. part[n - 1] \in S /\ step[n][part[n - 1]] \in S
    BY <2>1
  <2> DEFINE next == [k \in 0..n |-> IF k = n THEN step[n][part[n - 1]] ELSE part[k]]
  <2>3. next \in [0..n -> S]
    BY <2>1, <2>2
  <2>4. next[0] = start
    BY <2>1 DEF IsPart
  <2>5. ASSUME NEW k \in 1..n PROVE next[k] = step[k][next[k - 1]]
    <3>1. k - 1 \in 0..n /\ k - 1 # n /\ k \in 0..n
      OBVIOUS
    <3>2. next[k - 1] = part[k - 1]
      BY <3>1
    <3>3. CASE k = n
      BY <3>1, <3>2, <3>3
    <3>4. CASE k # n
      <4>1. k \in 1..(n - 1)
        BY <3>4
      <4>2. QED
        BY <2>1, <3>1, <3>2, <3>4, <4>1 DEF IsPart
    <3>5. QED
      BY <3>3, <3>4
  <2>6. IsPart(start, step, n, next)
    BY <2>4, <2>5 DEF IsPart
  <2>7. QED
    <3> HIDE DEF next
    <3>1. QED
      BY <2>3, <2>6
<1>3. Q = Nat
  <2> HIDE DEF Q
  <2>1. Q \in SUBSET Nat
    BY DEF Q
  <2>2. QED
    BY <1>1, <1>2, <2>1, Counting
<1>4. QED
  BY <1>3

(* Two of them agree as far as both go.                                    *)
LEMMA PartsAgree ==
    ASSUME NEW start, NEW step, NEW m \in Nat, NEW n \in Nat, m <= n,
           NEW one, IsPart(start, step, m, one), NEW two, IsPart(start, step, n, two)
    PROVE  one[m] = two[m]
<1> DEFINE Q == {k \in Nat : k <= m => one[k] = two[k]}
<1>1. 0 \in Q
  BY DEF IsPart
<1>2. ASSUME NEW k \in Nat \ {0}, k - 1 \in Q PROVE k \in Q
  <2> SUFFICES ASSUME k <= m PROVE one[k] = two[k]
    OBVIOUS
  <2>1. k \in 1..m /\ k \in 1..n /\ one[k - 1] = two[k - 1]
    BY <1>2
  <2>2. QED
    BY <2>1 DEF IsPart
<1>3. Q = Nat
  <2> HIDE DEF Q
  <2>1. Q \in SUBSET Nat
    BY DEF Q
  <2>2. QED
    BY <1>1, <1>2, <2>1, Counting
<1>4. QED
  BY <1>3

(* The function defined by a first value and a step.                      *)
Follows(start, step, f) ==
    f[0] = start /\ \A n \in Nat \ {0} : f[n] = step[n][f[n - 1]]

(* ... and together they make one function over all numbers.               *)
LEMMA Recursion ==
    ASSUME NEW S, NEW start \in S, NEW step \in [Nat -> [S -> S]]
    PROVE  \E f \in [Nat -> S] : Follows(start, step, f)
<1> DEFINE part(n) == CHOOSE p \in [0..n -> S] : IsPart(start, step, n, p)
           all == [n \in Nat |-> part(n)[n]]
<1>1. ASSUME NEW n \in Nat PROVE part(n) \in [0..n -> S] /\ IsPart(start, step, n, part(n))
  BY PartsExist
<1> HIDE DEF part
<1>2. all[0] = start
  BY <1>1 DEF IsPart
<1>3. ASSUME NEW n \in Nat \ {0} PROVE all[n] = step[n][all[n - 1]]
  <2>1. n - 1 \in Nat /\ n \in 1..n
    OBVIOUS
  <2>2. part(n)[n] = step[n][part(n)[n - 1]]
    BY <1>1, <2>1 DEF IsPart
  <2>3. part(n - 1)[n - 1] = part(n)[n - 1]
    BY <1>1, <2>1, PartsAgree
  <2>4. QED
    BY <2>1, <2>2, <2>3
<1>4. all \in [Nat -> S]
  BY <1>1
<1>5. QED
  <2> HIDE DEF all
  <2>1. QED
    BY <1>2, <1>3, <1>4 DEF Follows

-----------------------------------------------------------------------------
(* One round: the ids that were there and the parents of all of them.      *)
Expand(graph, ids) == UNION {{x} \cup ParentsIn(graph, x) : x \in ids}

(* The worklist of ancestorsOf, round by round.                            *)
LEMMA RoundsAre ==
    ASSUME NEW graph, NEW id
    PROVE  /\ Rounds(graph, id)[0] = {id}
           /\ \A n \in Nat : Rounds(graph, id)[n + 1] = Expand(graph, Rounds(graph, id)[n])
<1> DEFINE S == SUBSET (Mentioned(graph) \cup {id})
           step == [n \in Nat |-> [x \in S |-> Expand(graph, x)]]
           Law(f) == f = [n \in Nat |-> IF n = 0 THEN {id}
                                ELSE UNION {{x} \cup ParentsIn(graph, x) : x \in f[n - 1]}]
<1>1. step \in [Nat -> [S -> S]]
  BY DEF Expand, ParentsIn, Mentioned
<1>2. PICK U : U = S
  OBVIOUS
<1>3. \E f \in [Nat -> U] : f[0] = {id} /\ \A n \in Nat \ {0} : f[n] = Expand(graph, f[n - 1])
  <2>1. PICK first \in U : first = {id}
    BY <1>2
  <2>2. PICK next \in [Nat -> [U -> U]] : next = step
    BY <1>1, <1>2
  <2>3. \A n \in Nat : \A x \in U : next[n][x] = Expand(graph, x)
    BY <1>2, <2>2
  <2>4. PICK f \in [Nat -> U] : Follows(first, next, f)
    BY Recursion
  <2>5. QED
    BY <2>1, <2>3, <2>4 DEF Follows
<1>4. PICK f \in [Nat -> U] : f[0] = {id} /\ \A n \in Nat \ {0} : f[n] = Expand(graph, f[n - 1])
  BY <1>3
<1>5. Law(f)
  <2>1. f = [n \in Nat |-> f[n]]
    BY <1>4
  <2>2. ASSUME NEW n \in Nat
        PROVE f[n] = IF n = 0 THEN {id} ELSE UNION {{x} \cup ParentsIn(graph, x) : x \in f[n - 1]}
    BY <1>4 DEF Expand
  <2>3. QED
    BY <2>1, <2>2
<1>6. Rounds(graph, id) = CHOOSE g : Law(g)
  BY DEF Rounds
<1>7. Law(Rounds(graph, id))
  <2> HIDE DEF Law
  <2>1. QED
  BY <1>5, <1>6
<1>8. QED
  BY <1>7 DEF Expand

-----------------------------------------------------------------------------
(* The rounds only grow, and stay within every set that contains the id    *)
(* and the parents of its members.                                         *)
LEMMA RoundsGrow ==
    ASSUME NEW graph, NEW id, NEW n \in Nat
    PROVE  /\ Rounds(graph, id)[n] \subseteq Rounds(graph, id)[n + 1]
           /\ id \in Rounds(graph, id)[n]
<1> DEFINE R == Rounds(graph, id)
           S == {k \in Nat : id \in R[k]}
<1>1. \A k \in Nat : R[k] \subseteq R[k + 1]
  BY RoundsAre DEF Expand
<1>2. 0 \in S
  BY RoundsAre
<1>3. \A k \in Nat \ {0} : k - 1 \in S => k \in S
  <2> HIDE DEF R
  <2>1. ASSUME NEW k \in Nat \ {0}, k - 1 \in S PROVE k \in S
    <3>1. k - 1 \in Nat /\ (k - 1) + 1 = k
      OBVIOUS
    <3>2. R[k - 1] \subseteq R[k]
      BY <1>1, <3>1
    <3>3. QED
      BY <2>1, <3>2
  <2>2. QED
    BY <2>1
<1>4. S = Nat
  <2> HIDE DEF S
  <2>1. S \in SUBSET Nat
    BY DEF S
  <2>2. QED
    BY <1>2, <1>3, <2>1, Counting
<1>5. QED
  BY <1>1, <1>4

(* The worklist of ancestorsOf stays in any parent-closed set it starts    *)
(* in.                                                                     *)
LEMMA RoundsWithin ==
    ASSUME NEW graph, NEW id, NEW ids, id \in ids, ParentClosed(graph, ids), NEW n \in Nat
    PROVE  Rounds(graph, id)[n] \subseteq ids
<1> DEFINE R == Rounds(graph, id)
           S == {k \in Nat : R[k] \subseteq ids}
<1>1. 0 \in S
  BY RoundsAre
<1>2. ASSUME NEW k \in Nat \ {0}, k - 1 \in S PROVE k \in S
  <2>1. k - 1 \in Nat /\ (k - 1) + 1 = k
    OBVIOUS
  <2>2. R[k] = Expand(graph, R[k - 1])
    BY <2>1, RoundsAre
  <2>3. Expand(graph, R[k - 1]) \subseteq ids
    BY <1>2 DEF Expand, ParentClosed
  <2>4. QED
    BY <2>2, <2>3
<1>3. S = Nat
  <2> HIDE DEF S
  <2>1. S \in SUBSET Nat
    BY DEF S
  <2>2. QED
    BY <1>1, <1>2, <2>1, Counting
<1>4. QED
  BY <1>3

(* A round that is not the last reaches a defined revision that was not    *)
(* reached before.                                                         *)
LEMMA RoundsProgress ==
    ASSUME NEW graph, IsFiniteSet(DOMAIN graph), NEW id, NEW n \in Nat
    PROVE  \/ ParentClosed(graph, Rounds(graph, id)[n])
           \/ Cardinality(Rounds(graph, id)[n] \cap DOMAIN graph) > n
<1> DEFINE R == Rounds(graph, id)
           D(k) == R[k] \cap DOMAIN graph
           S == {k \in Nat : ParentClosed(graph, R[k]) \/ Cardinality(D(k)) > k}
<1>1. \A k \in Nat : IsFiniteSet(D(k)) /\ Cardinality(D(k)) \in Nat
  BY FS_Intersection, FS_CardinalityType
<1>2. 0 \in S
  <2>1. R[0] = {id}
    BY RoundsAre
  <2>2. CASE id \in DOMAIN graph
    <3>1. D(0) = {id}
      BY <2>1, <2>2
    <3>2. Cardinality(D(0)) = 1
      BY <3>1, FS_Singleton
    <3>3. QED
      BY <3>2
  <2>3. CASE id \notin DOMAIN graph
    BY <2>1, <2>3 DEF ParentClosed, ParentsIn
  <2>4. QED
    BY <2>2, <2>3
<1>3. ASSUME NEW k \in Nat \ {0}, k - 1 \in S PROVE k \in S
  <2> SUFFICES ASSUME ~ ParentClosed(graph, R[k]) PROVE Cardinality(D(k)) > k
    OBVIOUS
  <2>1. k - 1 \in Nat /\ (k - 1) + 1 = k
    OBVIOUS
  <2>2. R[k] = Expand(graph, R[k - 1]) /\ R[k - 1] \subseteq R[k]
    BY <2>1, RoundsAre, RoundsGrow
  <2>3. ~ ParentClosed(graph, R[k - 1])
    BY <2>2 DEF Expand, ParentClosed
  <2>4. Cardinality(D(k - 1)) > k - 1
    BY <1>3, <2>3
  <2>5. D(k - 1) # D(k)
    <3> SUFFICES ASSUME D(k - 1) = D(k) PROVE FALSE
      OBVIOUS
    <3>1. ASSUME NEW x \in R[k] PROVE ParentsIn(graph, x) \subseteq R[k]
      <4>1. CASE x \in DOMAIN graph
        <5>1. x \in R[k - 1]
          BY <4>1
        <5>2. QED
          BY <2>2, <5>1 DEF Expand
      <4>2. CASE x \notin DOMAIN graph
        BY <4>2 DEF ParentsIn
      <4>3. QED
        BY <4>1, <4>2
    <3>2. QED
      BY <3>1 DEF ParentClosed
  <2>6. D(k - 1) \subseteq D(k)
    BY <2>2
  <2>7. Cardinality(D(k - 1)) < Cardinality(D(k))
    <3> HIDE DEF D
    <3>1. QED
      BY <1>1, <2>1, <2>5, <2>6, FS_Subset
  <2>8. QED
    <3> HIDE DEF D
    <3>1. QED
      BY <1>1, <2>1, <2>4, <2>7
<1>4. S = Nat
  <2> HIDE DEF S
  <2>1. S \in SUBSET Nat
    BY DEF S
  <2>2. QED
    BY <1>2, <1>3, <2>1, Counting
<1>5. QED
  BY <1>4

-----------------------------------------------------------------------------
(* ancestorsOf returns a set that contains the id and the parents of its   *)
(* members: the number of rounds is always enough.                         *)
LEMMA AncestorsClosed ==
    ASSUME NEW graph, IsFiniteSet(DOMAIN graph), NEW id
    PROVE  id \in ancestorsOf(graph, id) /\ ParentClosed(graph, ancestorsOf(graph, id))
<1> DEFINE N == Cardinality(DOMAIN graph)
           D == Rounds(graph, id)[N] \cap DOMAIN graph
<1>1. N \in Nat
  BY FS_CardinalityType
<1>2. Cardinality(D) <= N /\ Cardinality(D) \in Nat
  <2>1. D \subseteq DOMAIN graph
    OBVIOUS
  <2>2. QED
    BY <2>1, FS_Subset, FS_CardinalityType
<1>3. ParentClosed(graph, Rounds(graph, id)[N])
  BY <1>1, <1>2, RoundsProgress
<1>4. QED
  BY <1>1, <1>3, RoundsGrow DEF ancestorsOf

(* ... and it is the least such set.                                       *)
LEMMA AncestorsLeast ==
    ASSUME NEW graph, IsFiniteSet(DOMAIN graph), NEW id,
           NEW ids, id \in ids, ParentClosed(graph, ids)
    PROVE  ancestorsOf(graph, id) \subseteq ids
  BY RoundsWithin, FS_CardinalityType DEF ancestorsOf

(* ancestorsOf returns ids of the graph, or the id asked about.            *)
LEMMA AncestorsAreMentioned ==
    ASSUME NEW graph, IsFiniteSet(DOMAIN graph), NEW id
    PROVE  ancestorsOf(graph, id) \subseteq Mentioned(graph) \cup {id}
<1>1. ParentClosed(graph, Mentioned(graph) \cup {id})
  BY DEF ParentClosed, ParentsIn, Mentioned
<1>2. QED
  BY <1>1, AncestorsLeast

(* ancestorsOf in dag.ts computes reachability on every finite graph, be   *)
(* it partial or cyclic.                                                   *)
THEOREM AncestorsOfRight ==
    ASSUME NEW graph, IsFiniteSet(DOMAIN graph), NEW id
    PROVE  ancestorsOf(graph, id) = Ancestry(graph, id)
<1> DEFINE A == ancestorsOf(graph, id)
           all == Mentioned(graph) \cup {id}
<1>1. id \in A /\ ParentClosed(graph, A) /\ A \in SUBSET all
  BY AncestorsClosed, AncestorsAreMentioned
<1>2. ASSUME NEW a \in A PROVE a \in Ancestry(graph, id)
  <2>1. \A ids \in SUBSET all : id \in ids /\ ParentClosed(graph, ids) => a \in ids
    BY AncestorsLeast
  <2>2. QED
    BY <1>1, <2>1 DEF Ancestry
<1>3. ASSUME NEW a \in Ancestry(graph, id) PROVE a \in A
  <2> HIDE DEF A
  <2>1. QED
    BY <1>1, <1>3 DEF Ancestry
<1>4. QED
  BY <1>2, <1>3

(* isAncestor gives the answer ancestorsOf implies.                        *)
LEMMA IsAncestorRight ==
    ASSUME NEW graph, IsFiniteSet(DOMAIN graph), NEW a, NEW id
    PROVE  isAncestor(graph, a, id) <=> a \in ancestorsOf(graph, id)
<1> DEFINE A == ancestorsOf(graph, id)
<1>1. id \in A /\ ParentClosed(graph, A)
  BY AncestorsClosed
<1>2. ASSUME isAncestor(graph, a, id) PROVE a \in A
  BY <1>1, <1>2 DEF isAncestor, ParentClosed
<1>3. ASSUME a \in A, ~ isAncestor(graph, a, id) PROVE FALSE
  <2>1. a # id /\ \A x \in A : a \notin ParentsIn(graph, x)
    BY <1>3 DEF isAncestor
  <2>2. ParentClosed(graph, A \ {a}) /\ id \in A \ {a}
    <3> HIDE DEF A
    <3>1. QED
      BY <1>1, <2>1 DEF ParentClosed
  <2>3. A \subseteq A \ {a}
    BY <2>2, AncestorsLeast
  <2>4. QED
    BY <1>3, <2>3
<1>4. QED
  BY <1>2, <1>3

(* Ancestors of ancestors are ancestors, and whoever is not the revision   *)
(* itself is an ancestor of one of its parents.                            *)
LEMMA AncestorsNest ==
    ASSUME NEW graph, IsFiniteSet(DOMAIN graph), NEW id, NEW a \in ancestorsOf(graph, id)
    PROVE  /\ ancestorsOf(graph, a) \subseteq ancestorsOf(graph, id)
           /\ a # id => \E p \in ParentsIn(graph, id) : a \in ancestorsOf(graph, p)
<1>1. ancestorsOf(graph, a) \subseteq ancestorsOf(graph, id)
  BY AncestorsClosed, AncestorsLeast
<1> DEFINE B == {id} \cup UNION {ancestorsOf(graph, p) : p \in ParentsIn(graph, id)}
<1>2. ParentClosed(graph, B)
  <2> SUFFICES ASSUME NEW x \in B, NEW q \in ParentsIn(graph, x) PROVE q \in B
    BY DEF ParentClosed
  <2>1. CASE x = id
    BY <2>1, AncestorsClosed
  <2>2. CASE x # id
    <3>1. PICK p \in ParentsIn(graph, id) : x \in ancestorsOf(graph, p)
      BY <2>2
    <3>2. q \in ancestorsOf(graph, p)
      BY <3>1, AncestorsClosed DEF ParentClosed
    <3>3. QED
      BY <3>2
  <2>3. QED
    BY <2>1, <2>2
<1>3. ancestorsOf(graph, id) \subseteq B
  BY <1>2, AncestorsLeast
<1>4. QED
  BY <1>1, <1>3

-----------------------------------------------------------------------------
(* Without a cycle no parent leads back.                                   *)
LEMMA NoWayBack ==
    ASSUME NEW graph, IsFiniteSet(DOMAIN graph), Acyclic(graph), NEW a, NEW p \in ParentsIn(graph, a)
    PROVE  a \notin ancestorsOf(graph, p)
<1> SUFFICES ASSUME a \in ancestorsOf(graph, p) PROVE FALSE
  OBVIOUS
<1> DEFINE C == {x \in ancestorsOf(graph, p) : a \in ancestorsOf(graph, x)}
<1>1. a \in C /\ p \in C
  BY AncestorsClosed
<1>2. ASSUME NEW x \in C PROVE \E q \in ParentsIn(graph, x) : q \in C
  <2>1. CASE x = a
    BY <1>1, <2>1
  <2>2. CASE x # a
    <3>1. a \in ancestorsOf(graph, x)
      OBVIOUS
    <3>2. PICK q \in ParentsIn(graph, x) : a \in ancestorsOf(graph, q)
      BY <2>2, <3>1, AncestorsNest
    <3>3. q \in ancestorsOf(graph, p)
      BY AncestorsClosed DEF ParentClosed
    <3>4. QED
      BY <3>2, <3>3
  <2>3. QED
    BY <2>1, <2>2
<1>3. C \in SUBSET (DOMAIN graph) /\ \A x \in C : graph[x] \cap C # {}
  <2> HIDE DEF C
  <2>1. QED
    BY <1>2 DEF ParentsIn
<1>4. C = {}
  <2> HIDE DEF C
  <2>1. QED
    BY <1>3 DEF Acyclic
<1>5. QED
  BY <1>1, <1>4

(* Two revisions that are ancestors of each other are one.                 *)
LEMMA OneWay ==
    ASSUME NEW graph, IsFiniteSet(DOMAIN graph), Acyclic(graph),
           NEW b, NEW a \in ancestorsOf(graph, b), b \in ancestorsOf(graph, a)
    PROVE  a = b
<1> SUFFICES ASSUME a # b PROVE FALSE
  OBVIOUS
<1>1. PICK p \in ParentsIn(graph, b) : a \in ancestorsOf(graph, p)
  BY AncestorsNest
<1>2. b \in ancestorsOf(graph, p)
  BY <1>1, AncestorsNest
<1>3. QED
  BY <1>2, NoWayBack

(* In a set of revisions that is not empty, one is behind no other.        *)
LEMMA SomeoneIsTop ==
    ASSUME NEW graph, IsFiniteSet(DOMAIN graph), Acyclic(graph), NEW ids, ids # {}
    PROVE  \E c \in ids : \A d \in ids \ {c} : c \notin ancestorsOf(graph, d)
<1> DEFINE D(x) == ancestorsOf(graph, x) \cap DOMAIN graph
           N == Cardinality(DOMAIN graph)
           left(x) == N - Cardinality(D(x))
           S == {left(x) : x \in ids}
<1>1. N \in Nat /\ \A x \in ids : Cardinality(D(x)) \in Nat /\ Cardinality(D(x)) <= N /\ IsFiniteSet(D(x))
  <2>1. ASSUME NEW x \in ids PROVE D(x) \subseteq DOMAIN graph
    OBVIOUS
  <2>2. QED
    BY <2>1, FS_Subset, FS_CardinalityType
<1>2. S \in SUBSET Nat /\ S # {}
  <2> HIDE DEF D, N
  <2>1. QED
    BY <1>1
<1>3. PICK n \in S : \A m \in S : n <= m
  <2> HIDE DEF S
  <2>1. QED
    BY <1>2, LeastNumber
<1>4. PICK c \in ids : n = left(c)
  OBVIOUS
<1>5. ASSUME NEW d \in ids \ {c}, c \in ancestorsOf(graph, d) PROVE FALSE
  <2>1. d \notin ancestorsOf(graph, c)
    BY <1>5, OneWay
  <2>2. PICK p \in ParentsIn(graph, d) : TRUE
    BY <1>5, AncestorsNest
  <2>3. d \in DOMAIN graph /\ d \in ancestorsOf(graph, d)
    BY <2>2, AncestorsClosed DEF ParentsIn
  <2>4. D(c) \subseteq D(d) /\ D(c) # D(d)
    BY <1>5, <2>1, <2>3, AncestorsNest
  <2>5. Cardinality(D(c)) < Cardinality(D(d))
    <3> HIDE DEF D
    <3>1. QED
      BY <1>1, <1>5, <2>4, FS_Subset
  <2>6. left(d) < left(c)
    <3> HIDE DEF D, N
    <3>1. QED
      BY <1>1, <1>5, <2>5
  <2>7. left(c) <= left(d) /\ left(c) \in Nat /\ left(d) \in Nat
    BY <1>2, <1>3, <1>4
  <2>8. QED
    BY <2>6, <2>7
<1>6. QED
  BY <1>5

-----------------------------------------------------------------------------
(* The common ancestors of two revisions.                                  *)
Common(graph, a, b) == ancestorsOf(graph, a) \cap ancestorsOf(graph, b)

(* Without a cycle, findMergeBase returns the common ancestors that no     *)
(* other common ancestor descends to.                                      *)
LEMMA MergeBaseRight ==
    ASSUME NEW graph, IsFiniteSet(DOMAIN graph), Acyclic(graph), NEW a, NEW b
    PROVE  findMergeBase(graph, a, b) =
             {c \in Common(graph, a, b) :
                 \A d \in Common(graph, a, b) \ {c} : c \notin ancestorsOf(graph, d)}
<1> DEFINE C == Common(graph, a, b)
           P == UNION {ParentsIn(graph, c) : c \in C}
           dominated == UNION {ancestorsOf(graph, p) : p \in P}
<1>1. findMergeBase(graph, a, b) = C \ dominated
  BY DEF findMergeBase, Common
<1>2. ASSUME NEW c \in C, c \in dominated PROVE \E d \in C \ {c} : c \in ancestorsOf(graph, d)
  <2>0. PICK d \in C : \E p \in ParentsIn(graph, d) : c \in ancestorsOf(graph, p)
    BY <1>2
  <2>1. PICK p \in ParentsIn(graph, d) : c \in ancestorsOf(graph, p)
    BY <2>0
  <2>2. d # c
    BY <2>1, NoWayBack
  <2>3. p \in ancestorsOf(graph, d)
    BY AncestorsClosed DEF ParentClosed
  <2>4. c \in ancestorsOf(graph, d)
    BY <2>1, <2>3, AncestorsNest
  <2>5. QED
    BY <2>2, <2>4
<1>3. ASSUME NEW c \in C, NEW d \in C \ {c}, c \in ancestorsOf(graph, d) PROVE c \in dominated
  <2>1. PICK p \in ParentsIn(graph, d) : c \in ancestorsOf(graph, p)
    BY <1>3, AncestorsNest
  <2>2. QED
    BY <2>1
<1>4. QED
  <2> HIDE DEF C, dominated
  <2>1. findMergeBase(graph, a, b) = {c \in C : \A d \in C \ {c} : c \notin ancestorsOf(graph, d)}
    BY <1>1, <1>2, <1>3
  <2>2. QED
    BY <2>1 DEF C

(* No merge base means no shared history.                                  *)
LEMMA NoMergeBase ==
    ASSUME NEW graph, IsFiniteSet(DOMAIN graph), Acyclic(graph), NEW a, NEW b
    PROVE  findMergeBase(graph, a, b) = {} <=> Common(graph, a, b) = {}
  BY MergeBaseRight, SomeoneIsTop

(* dag.ts on every finite history: ancestorsOf and isAncestor compute      *)
(* reachability, cycles or not, and without a cycle findMergeBase gives    *)
(* the best common ancestors and the verdicts of classifyDivergence on two *)
(* devices agree and never lose anything.                                  *)
THEOREM AncestryRightAlways ==
    ASSUME NEW graph, IsFiniteSet(DOMAIN graph), NEW ids
    PROVE  /\ AncestorsExact(graph, ids)
           /\ Acyclic(graph) => MergeBasesMaximal(graph, ids) /\ VerdictsAgree(graph, ids)
<1>1. \A x : ancestorsOf(graph, x) = Ancestry(graph, x)
  BY AncestorsOfRight
<1>2. \A a, x : isAncestor(graph, a, x) <=> a \in ancestorsOf(graph, x)
  BY IsAncestorRight
<1>3. AncestorsExact(graph, ids)
  BY <1>1, <1>2 DEF AncestorsExact
<1>4. ASSUME Acyclic(graph) PROVE MergeBasesMaximal(graph, ids)
  <2> SUFFICES ASSUME NEW a \in ids, NEW b \in ids
               PROVE  LET common == Ancestry(graph, a) \cap Ancestry(graph, b)
                      IN  findMergeBase(graph, a, b) =
                            {c \in common : \A d \in common \ {c} : c \notin Ancestry(graph, d)}
    BY DEF MergeBasesMaximal
  <2>1. QED
    BY <1>1, <1>4, MergeBaseRight DEF Common
<1>5. ASSUME Acyclic(graph) PROVE VerdictsAgree(graph, ids)
  <2> SUFFICES ASSUME NEW a \in ids, NEW b \in ids
               PROVE  LET mine   == classifyDivergence(graph, a, b)
                          theirs == classifyDivergence(graph, b, a)
                      IN  /\ mine = "remote-ahead" <=> theirs = "local-ahead"
                          /\ mine \in {"equal", "diverged", "unrelated"} => theirs = mine
                          /\ mine = "remote-ahead" <=>
                                a # b /\ Ancestry(graph, a) \subseteq Ancestry(graph, b)
                          /\ mine = "unrelated" <=> Ancestry(graph, a) \cap Ancestry(graph, b) = {}
    BY DEF VerdictsAgree
  <2>1. a \in ancestorsOf(graph, a) /\ b \in ancestorsOf(graph, b)
    BY AncestorsClosed
  <2>2. a \in ancestorsOf(graph, b) <=> Ancestry(graph, a) \subseteq Ancestry(graph, b)
    BY <1>1, <2>1, AncestorsNest
  <2>3. a \in ancestorsOf(graph, b) /\ b \in ancestorsOf(graph, a) => a = b
    BY <1>5, OneWay
  <2>4. /\ findMergeBase(graph, a, b) = {} <=> Ancestry(graph, a) \cap Ancestry(graph, b) = {}
        /\ findMergeBase(graph, b, a) = {} <=> Ancestry(graph, a) \cap Ancestry(graph, b) = {}
    BY <1>1, <1>5, NoMergeBase DEF Common
  <2>5. b \in ancestorsOf(graph, a) \/ a \in ancestorsOf(graph, b)
        => Ancestry(graph, a) \cap Ancestry(graph, b) # {}
    BY <1>1, <2>1
  <2>6. QED
    BY <1>2, <2>1, <2>2, <2>3, <2>4, <2>5 DEF classifyDivergence
<1>6. QED
  BY <1>3, <1>4, <1>5

-----------------------------------------------------------------------------
(* Two graphs that agree on a set closed under parents give the same       *)
(* answers about its members: what a device holds is enough, and what is   *)
(* added later changes nothing.                                            *)
Agree(graph, other, ids) ==
    /\ ParentClosed(graph, ids)
    /\ \A x \in ids : ParentsIn(graph, x) = ParentsIn(other, x)

(* ancestorsOf gives the same set over both graphs, inside the common      *)
(* part.                                                                   *)
LEMMA SameAncestors ==
    ASSUME NEW graph, IsFiniteSet(DOMAIN graph), NEW other, IsFiniteSet(DOMAIN other),
           NEW ids, Agree(graph, other, ids), NEW id \in ids
    PROVE  ancestorsOf(graph, id) = ancestorsOf(other, id) /\ ancestorsOf(graph, id) \subseteq ids
<1>1. ancestorsOf(graph, id) \subseteq ids /\ ancestorsOf(other, id) \subseteq ids
  <2>1. ParentClosed(other, ids)
    BY DEF Agree, ParentClosed
  <2>2. QED
    BY <2>1, AncestorsLeast DEF Agree
<1>2. ParentClosed(other, ancestorsOf(graph, id)) /\ ParentClosed(graph, ancestorsOf(other, id))
  <2>1. ParentClosed(graph, ancestorsOf(graph, id)) /\ ParentClosed(other, ancestorsOf(other, id))
    BY AncestorsClosed
  <2>2. QED
    BY <1>1, <2>1 DEF Agree, ParentClosed
<1>3. id \in ancestorsOf(graph, id) /\ id \in ancestorsOf(other, id)
  BY AncestorsClosed
<1>4. ancestorsOf(other, id) \subseteq ancestorsOf(graph, id)
  BY <1>2, <1>3, AncestorsLeast
<1>5. ancestorsOf(graph, id) \subseteq ancestorsOf(other, id)
  BY <1>2, <1>3, AncestorsLeast
<1>6. QED
  BY <1>1, <1>4, <1>5

(* isAncestor and classifyDivergence give the same answer over both        *)
(* graphs.                                                                 *)
LEMMA SameVerdict ==
    ASSUME NEW graph, IsFiniteSet(DOMAIN graph), NEW other, IsFiniteSet(DOMAIN other),
           NEW ids, Agree(graph, other, ids), NEW a \in ids, NEW b \in ids
    PROVE  /\ isAncestor(graph, a, b) <=> isAncestor(other, a, b)
           /\ classifyDivergence(graph, a, b) = classifyDivergence(other, a, b)
<1>1. \A x \in ids : ancestorsOf(graph, x) = ancestorsOf(other, x) /\ ancestorsOf(graph, x) \subseteq ids
  BY SameAncestors
<1>2. \A x, y \in ids : isAncestor(graph, x, y) <=> isAncestor(other, x, y)
  BY <1>1, IsAncestorRight
<1> DEFINE C == Common(graph, a, b)
           P(g) == UNION {ParentsIn(g, c) : c \in C}
           dominated(g) == UNION {ancestorsOf(g, p) : p \in P(g)}
<1>3. C = Common(other, a, b) /\ C \subseteq ids
  BY <1>1 DEF Common
<1>4. P(graph) = P(other) /\ P(graph) \subseteq ids
  BY <1>3 DEF Agree, ParentClosed
<1>5. dominated(graph) = dominated(other)
  <2> HIDE DEF P
  <2>1. QED
    BY <1>1, <1>4
<1>6. findMergeBase(graph, a, b) = C \ dominated(graph)
  BY DEF findMergeBase, Common
<1>7. findMergeBase(other, a, b) = Common(other, a, b) \ dominated(other)
  BY <1>3 DEF findMergeBase, Common
<1>8. QED
  BY <1>2, <1>3, <1>5, <1>6, <1>7 DEF classifyDivergence

-----------------------------------------------------------------------------
(* An order is a sequence, whatever its elements.                          *)
OrderOf(order) == Len(order) \in Nat /\ DOMAIN order = 1..Len(order)

(* ... in which no element comes twice.                                    *)
Distinct(order) == \A i, j \in DOMAIN order : order[i] = order[j] => i = j

(* A sequence stays without repetition when something new is appended.     *)
LEMMA DistinctAppend ==
    ASSUME NEW S, NEW seq \in Seq(S), Distinct(seq), NEW e, \A i \in DOMAIN seq : seq[i] # e
    PROVE  Distinct(Append(seq, e))
<1>1. PICK T : T = S \cup {e}
  OBVIOUS
<1>2. seq \in Seq(T) /\ e \in T
  BY <1>1
<1>3. /\ DOMAIN Append(seq, e) = 1..(Len(seq) + 1) /\ DOMAIN seq = 1..Len(seq) /\ Len(seq) \in Nat
      /\ Append(seq, e)[Len(seq) + 1] = e /\ \A i \in 1..Len(seq) : Append(seq, e)[i] = seq[i]
  BY <1>2, AppendProperties
<1>4. QED
  BY <1>3 DEF Distinct

(* Listed gives the members of the set that are in the order, each as      *)
(* often as the order has it.                                              *)
LEMMA ListedAre ==
    ASSUME NEW order, OrderOf(order), NEW ids
    PROVE  /\ Listed(order, ids) \in Seq(ids)
           /\ Elems(Listed(order, ids)) = Elems(order) \cap ids
           /\ Distinct(order) => Distinct(Listed(order, ids))
<1> DEFINE More(n, x) == IF order[n] \in ids THEN Append(x, order[n]) ELSE x
           step == [n \in Nat |-> [x \in Seq(ids) |-> More(n, x)]]
           Law(f) == f = [n \in Nat |-> IF n = 0 THEN <<>>
                                ELSE IF order[n] \in ids THEN Append(f[n - 1], order[n])
                                ELSE f[n - 1]]
<1>1. PICK U : U = Seq(ids)
  OBVIOUS
<1>2. ASSUME NEW n \in Nat, NEW x \in Seq(ids)
      PROVE  More(n, x) \in Seq(ids)
             /\ Elems(More(n, x)) = Elems(x) \cup ({order[n]} \cap ids)
  <2>1. CASE order[n] \in ids
    <3>1. PICK e \in ids : e = order[n]
      BY <2>1
    <3>2. /\ Append(x, e) \in Seq(ids) /\ DOMAIN Append(x, e) = 1..(Len(x) + 1)
          /\ Append(x, e)[Len(x) + 1] = e /\ \A i \in 1..Len(x) : Append(x, e)[i] = x[i]
      BY AppendProperties
    <3>3. Elems(Append(x, e)) = Elems(x) \cup {e}
      BY <3>2 DEF Elems
    <3>4. QED
      BY <2>1, <3>1, <3>2, <3>3
  <2>2. CASE order[n] \notin ids
    BY <2>2
  <2>3. QED
    BY <2>1, <2>2
<1>3. PICK next \in [Nat -> [U -> U]] : next = step
  <2>1. step \in [Nat -> [Seq(ids) -> Seq(ids)]]
    <3> HIDE DEF More
    <3>1. QED
      BY <1>2
  <2>2. QED
    BY <1>1, <2>1
<1>4. PICK first \in U : first = <<>>
  BY <1>1, EmptySeq
<1>5. PICK f \in [Nat -> U] : Follows(first, next, f)
  BY Recursion
<1>6. \A n \in Nat \ {0} : f[n] = More(n, f[n - 1])
  <2> SUFFICES ASSUME NEW n \in Nat \ {0} PROVE f[n] = More(n, f[n - 1])
    OBVIOUS
  <2> HIDE DEF More
  <2>1. n - 1 \in Nat /\ f[n] = next[n][f[n - 1]]
    BY <1>5 DEF Follows
  <2>2. f[n - 1] \in Seq(ids)
    BY <1>1, <1>5, <2>1
  <2>3. QED
    BY <1>3, <2>1, <2>2
<1>7. Law(f)
  <2>1. f = [n \in Nat |-> f[n]] /\ f[0] = <<>>
    BY <1>4, <1>5 DEF Follows
  <2>2. QED
    BY <1>6, <2>1
<1>8. PICK g : Law(g) /\ Listed(order, ids) = g[Len(order)]
  <2>1. Listed(order, ids) = (CHOOSE g : Law(g))[Len(order)]
    BY DEF Listed
  <2>2. Law(CHOOSE g : Law(g))
    <3> HIDE DEF Law
    <3>1. QED
      BY <1>7
  <2> HIDE DEF Law
  <2>3. QED
    BY <2>1, <2>2
<1>9. g[0] = <<>> /\ \A n \in Nat \ {0} : g[n] = More(n, g[n - 1])
  BY <1>8
<1> DEFINE upto(n) == {order[i] : i \in 1..n}
           Q == {n \in Nat : /\ g[n] \in Seq(ids) /\ Elems(g[n]) = upto(n) \cap ids
                             /\ Distinct(order) /\ n <= Len(order) => Distinct(g[n])}
<1>10. 0 \in Q
  <2>1. Elems(<<>>) = {} /\ upto(0) = {} /\ <<>> \in Seq(ids) /\ Distinct(<<>>)
    BY EmptySeq DEF Elems, Distinct
  <2>2. QED
    BY <1>9, <2>1
<1>11. ASSUME NEW n \in Nat \ {0}, n - 1 \in Q PROVE n \in Q
  <2>1. PICK x \in Seq(ids) : /\ x = g[n - 1] /\ Elems(x) = upto(n - 1) \cap ids
                              /\ Distinct(order) /\ n - 1 <= Len(order) => Distinct(x)
    <3>1. n - 1 \in Q
      BY <1>11
    <3> HIDE DEF upto
    <3>2. QED
      BY <3>1
  <2>2. upto(n) = upto(n - 1) \cup {order[n]}
    <3>1. 1..n = 1..(n - 1) \cup {n}
      OBVIOUS
    <3>2. QED
      BY <3>1
  <2>3. g[n] = More(n, x)
    BY <1>9, <2>1
  <2>4. ASSUME Distinct(order), n <= Len(order) PROVE Distinct(More(n, x))
    <3>1. Distinct(x) /\ n \in DOMAIN order
      BY <2>1, <2>4 DEF OrderOf
    <3>2. order[n] \notin Elems(x)
      <4>1. order[n] \notin upto(n - 1)
        <5> SUFFICES ASSUME NEW i \in 1..(n - 1), order[n] = order[i] PROVE FALSE
          OBVIOUS
        <5>1. i \in DOMAIN order /\ i # n
          BY <2>4 DEF OrderOf
        <5>2. QED
          BY <2>4, <3>1, <5>1 DEF Distinct
      <4>2. QED
        BY <2>1, <4>1
    <3>3. QED
      BY <3>1, <3>2, DistinctAppend DEF Elems
  <2> HIDE DEF More, upto
  <2>5. QED
    BY <1>2, <2>1, <2>2, <2>3, <2>4
<1>12. Q = Nat
  <2> HIDE DEF Q
  <2>1. Q \in SUBSET Nat
    BY DEF Q
  <2>2. QED
    BY <1>10, <1>11, <2>1, Counting
<1>13. /\ g[Len(order)] \in Seq(ids) /\ Elems(g[Len(order)]) = upto(Len(order)) \cap ids
       /\ Distinct(order) => Distinct(g[Len(order)])
  <2> HIDE DEF upto, Q
  <2>1. Len(order) \in Q /\ Len(order) <= Len(order)
    BY <1>12 DEF OrderOf
  <2> USE DEF Q
  <2>2. QED
    BY <2>1
<1>14. upto(Len(order)) = Elems(order)
  BY DEF Elems, OrderOf
<1>15. QED
  BY <1>8, <1>13, <1>14

(* The states of a walk over a set.                                        *)
Walks(ids) ==
    [stack : Seq([id : ids, expanded : BOOLEAN]), ordered : Seq(ids),
     onStack : SUBSET ids, cycle : BOOLEAN]

(* A turn of topologicalOrder stays within the set it orders.              *)
LEMMA WalkStepWithin ==
    ASSUME NEW graph, NEW order, OrderOf(order), NEW ids, ids \subseteq Elems(order),
           NEW w \in Walks(ids)
    PROVE  WalkStep(graph, order, ids, w) \in Walks(ids)
<1> DEFINE F == [id : ids, expanded : BOOLEAN]
           done == Elems(w.ordered)
           rest == SubSeq(w.stack, 1, Len(w.stack) - 1)
           frame == w.stack[Len(w.stack)]
           next == (ParentsIn(graph, frame.id) \cap ids) \ done
           new == WalkStep(graph, order, ids, w)
<1>1. ASSUME NEW some \in SUBSET ids
      PROVE  Frames(order, some) \in Seq(F) /\ (some # {} => Len(Frames(order, some)) > 0)
  <2>1. PICK l \in Seq(some) : l = Listed(order, some) /\ Elems(l) = some
    <3>1. Elems(order) \cap some = some
      OBVIOUS
    <3>2. QED
      BY <3>1, ListedAre
  <2>2. some # {} => Len(l) > 0
    BY <2>1 DEF Elems
  <2>3. Frames(order, some) = [i \in 1..Len(l) |-> [id |-> l[i], expanded |-> FALSE]]
    BY <2>1 DEF Frames
  <2>4. QED
    BY <2>1, <2>2, <2>3
<1>2. /\ w.stack \in Seq(F) /\ w.ordered \in Seq(ids) /\ w.onStack \in SUBSET ids /\ w.cycle \in BOOLEAN
  BY DEF Walks
<1>3. CASE w.cycle \/ (w.stack = <<>> /\ ids \subseteq done)
  BY <1>3 DEF WalkStep
<1>4. CASE ~ (w.cycle \/ (w.stack = <<>> /\ ids \subseteq done)) /\ w.stack = <<>>
  <2>1. SubSeq(Frames(order, ids \ done), 1, 1) \in Seq(F)
    <3>1. ids \ done \in SUBSET ids
      OBVIOUS
    <3>2. PICK s \in Seq(F) : s = Frames(order, ids \ done) /\ Len(s) > 0
      BY <1>1, <1>4, <3>1
    <3> HIDE DEF F
    <3>3. \A i \in 1..1 : s[i] \in F
      BY <3>2
    <3>4. QED
      BY <3>2, <3>3, SubSeqProperties
  <2>2. new = [w EXCEPT !.stack = SubSeq(Frames(order, ids \ done), 1, 1)]
    BY <1>4 DEF WalkStep
  <2>3. QED
    BY <2>1, <2>2 DEF Walks
<1>5. CASE ~ w.cycle /\ w.stack # <<>>
  <2>1. frame \in F /\ rest \in Seq(F)
    <3>1. PICK s \in Seq(F) : s = w.stack /\ Len(s) \in Nat /\ Len(s) > 0
      BY <1>2, <1>5
    <3> HIDE DEF F
    <3>2. \A i \in 1..(Len(s) - 1) : s[i] \in F
      BY <3>1
    <3>3. s[Len(s)] \in F
      BY <3>1
    <3>4. SubSeq(s, 1, Len(s) - 1) \in Seq(F)
      BY <3>1, <3>2, SubSeqProperties
    <3>5. QED
      BY <3>1, <3>3, <3>4
  <2>2. PICK fr \in F, re \in Seq(F) : fr = frame /\ re = rest
    BY <2>1
  <2>3. fr.id \in ids /\ [fr EXCEPT !.expanded = TRUE] \in F
    BY <2>2
  <2>4. \/ new = [w EXCEPT !.stack = re, !.onStack = @ \ {fr.id}]
        \/ new = [w EXCEPT !.stack = re, !.onStack = @ \ {fr.id}, !.ordered = Append(@, fr.id)]
        \/ new = [w EXCEPT !.cycle = TRUE]
        \/ new = [w EXCEPT !.stack = Append(re, [fr EXCEPT !.expanded = TRUE]) \o Frames(order, next),
                           !.onStack = @ \cup {fr.id}]
    BY <1>5, <2>2 DEF WalkStep
  <2>5. Append(w.ordered, fr.id) \in Seq(ids)
    BY <1>2, <2>3
  <2>6. Append(re, [fr EXCEPT !.expanded = TRUE]) \o Frames(order, next) \in Seq(F)
    <3>1. next \in SUBSET ids
      OBVIOUS
    <3>2. PICK s \in Seq(F) : s = Frames(order, next)
      BY <1>1, <3>1
    <3>3. Append(re, [fr EXCEPT !.expanded = TRUE]) \in Seq(F)
      BY <2>2, <2>3
    <3>4. QED
      BY <3>2, <3>3
  <2>7. PICK more \in Seq(F), longer \in Seq(ids) :
          /\ more = Append(re, [fr EXCEPT !.expanded = TRUE]) \o Frames(order, next)
          /\ longer = Append(w.ordered, fr.id)
    BY <2>5, <2>6
  <2>8. \/ new = [w EXCEPT !.stack = re, !.onStack = @ \ {fr.id}]
        \/ new = [w EXCEPT !.stack = re, !.onStack = @ \ {fr.id}, !.ordered = longer]
        \/ new = [w EXCEPT !.cycle = TRUE]
        \/ new = [w EXCEPT !.stack = more, !.onStack = @ \cup {fr.id}]
    BY <2>4, <2>7
  <2> HIDE DEF F, new
  <2>9. new \in Walks(ids)
    <3>1. CASE new = [w EXCEPT !.stack = re, !.onStack = @ \ {fr.id}]
      BY <2>2, <3>1 DEF Walks, F
    <3>2. CASE new = [w EXCEPT !.stack = re, !.onStack = @ \ {fr.id}, !.ordered = longer]
      BY <2>2, <2>7, <3>2 DEF Walks, F
    <3>3. CASE new = [w EXCEPT !.cycle = TRUE]
      BY <3>3 DEF Walks
    <3>4. CASE new = [w EXCEPT !.stack = more, !.onStack = @ \cup {fr.id}]
      BY <2>3, <2>7, <3>4 DEF Walks, F
    <3>5. QED
      BY <2>8, <3>1, <3>2, <3>3, <3>4
  <2>10. QED
    BY <2>9 DEF new
<1>6. QED
  BY <1>3, <1>4, <1>5

(* topologicalOrder is where the walk stands after the last of its turns.  *)
Turns(graph, order, ids, g) ==
    /\ g[0] = WalkStart
    /\ \A n \in Nat \ {0} : g[n] = WalkStep(graph, order, ids, g[n - 1])

(* There is such a walk, and it stays within the set.                      *)
LEMMA WalkRuns ==
    ASSUME NEW graph, NEW order, OrderOf(order), NEW ids, ids \subseteq Elems(order), IsFiniteSet(ids)
    PROVE  \E g : /\ Turns(graph, order, ids, g) /\ \A n \in Nat : g[n] \in Walks(ids)
                  /\ WalkFuel(ids) \in Nat /\ topologicalOrder(graph, order, ids) = g[WalkFuel(ids)]
<1> DEFINE step == [n \in Nat |-> [w \in Walks(ids) |-> WalkStep(graph, order, ids, w)]]
           Law(f) == f = [n \in Nat |-> IF n = 0 THEN WalkStart
                            ELSE CHOOSE next \in {WalkStep(graph, order, ids, w) : w \in {f[n - 1]}} : TRUE]
<1>1. PICK U : U = Walks(ids)
  OBVIOUS
<1>2. PICK next \in [Nat -> [U -> U]] : next = step
  BY <1>1, WalkStepWithin
<1>3. PICK first \in U : first = WalkStart
  BY <1>1, EmptySeq DEF WalkStart, Walks
<1>4. PICK f \in [Nat -> U] : Follows(first, next, f)
  BY Recursion
<1>5. \A x : (CHOOSE y \in {WalkStep(graph, order, ids, w) : w \in {x}} : TRUE) = WalkStep(graph, order, ids, x)
  <2> SUFFICES ASSUME NEW x
               PROVE  (CHOOSE y \in {WalkStep(graph, order, ids, w) : w \in {x}} : TRUE) = WalkStep(graph, order, ids, x)
    OBVIOUS
  <2>1. {WalkStep(graph, order, ids, w) : w \in {x}} = {WalkStep(graph, order, ids, x)}
    OBVIOUS
  <2>2. QED
    BY <2>1
<1>6. Law(f)
  <2>1. f = [n \in Nat |-> f[n]]
    BY <1>4
  <2>2. ASSUME NEW n \in Nat
        PROVE  f[n] = IF n = 0 THEN WalkStart ELSE WalkStep(graph, order, ids, f[n - 1])
    <3>1. CASE n = 0
      BY <1>3, <1>4, <3>1 DEF Follows
    <3>2. CASE n # 0
      <4>1. n - 1 \in Nat /\ f[n - 1] \in Walks(ids) /\ f[n] = step[n][f[n - 1]]
        BY <1>1, <1>2, <1>4, <3>2 DEF Follows
      <4>2. QED
        BY <3>2, <4>1
    <3>3. QED
      BY <3>1, <3>2
  <2>3. QED
    BY <1>5, <2>1, <2>2
<1>7. PICK g : Law(g) /\ topologicalOrder(graph, order, ids) = g[WalkFuel(ids)]
  <2>1. topologicalOrder(graph, order, ids) = (CHOOSE g : Law(g))[WalkFuel(ids)]
    BY DEF topologicalOrder
  <2>2. Law(CHOOSE g : Law(g))
    <3> HIDE DEF Law
    <3>1. QED
      BY <1>6
  <2> HIDE DEF Law
  <2>3. QED
    BY <2>1, <2>2
<1> DEFINE Q == {n \in Nat : g[n] \in Walks(ids)}
<1>8. 0 \in Q
  BY <1>1, <1>3, <1>7
<1>9. ASSUME NEW n \in Nat \ {0}, n - 1 \in Q PROVE n \in Q
  <2>1. g[n - 1] \in Walks(ids) /\ g[n] = WalkStep(graph, order, ids, g[n - 1])
    BY <1>5, <1>7, <1>9
  <2>2. QED
    BY <2>1, WalkStepWithin
<1>10. Q = Nat
  <2> HIDE DEF Q
  <2>1. Q \in SUBSET Nat
    BY DEF Q
  <2>2. QED
    BY <1>8, <1>9, <2>1, Counting
<1>11. WalkFuel(ids) \in Nat
  <2>1. PICK c \in Nat : c = Cardinality(ids) + 1
    BY FS_CardinalityType
  <2>2. \A x, y \in Nat : x * y \in Nat
    OBVIOUS
  <2>3. 3 * c * c \in Nat
    BY <2>2
  <2>4. QED
    BY <2>1, <2>3 DEF WalkFuel
<1>12. Turns(graph, order, ids, g)
  <2>1. g[0] = WalkStart
    BY <1>7
  <2>2. \A n \in Nat \ {0} : g[n] = WalkStep(graph, order, ids, g[n - 1])
    BY <1>5, <1>7
  <2>3. QED
    BY <2>1, <2>2 DEF Turns
<1>13. QED
  BY <1>7, <1>10, <1>11, <1>12

(* topologicalOrder lists members of the set it is given.                  *)
LEMMA OrderWithin ==
    ASSUME NEW graph, NEW order, OrderOf(order), NEW ids, ids \subseteq Elems(order), IsFiniteSet(ids)
    PROVE  topologicalOrder(graph, order, ids) \in Walks(ids)
  BY WalkRuns

(* What a device requests are revisions the peer's summary defines and it  *)
(* does not hold itself (missingRevisions, computeWants).                  *)
LEMMA MissingWithin ==
    ASSUME NEW remoteGraph, IsFiniteSet(DOMAIN remoteGraph), NEW order, OrderOf(order),
           DOMAIN remoteGraph \subseteq Elems(order), NEW remoteHead, NEW held
    PROVE  LET asked == missingRevisions(remoteGraph, order, remoteHead, held).ordered
           IN  asked \in Seq(DOMAIN remoteGraph \ held)
<1> DEFINE ids == wanted(remoteGraph, remoteHead, held)
<1>1. ids \subseteq DOMAIN remoteGraph \ held /\ IsFiniteSet(ids)
  <2>1. ids \subseteq DOMAIN remoteGraph \ held
    BY DEF wanted
  <2>2. QED
    BY <2>1, FS_Subset
<1>2. missingRevisions(remoteGraph, order, remoteHead, held).ordered \in Seq(ids)
  BY <1>1, OrderWithin DEF missingRevisions, Walks
<1>3. QED
  BY <1>1, <1>2

-----------------------------------------------------------------------------
(* The turns of the walk, by what they do to its stack.                    *)

(* The parents of a node among the ids that are ordered.                   *)
Inner(graph, ids, id) == ParentsIn(graph, id) \cap ids

(* The walk over: a cycle was found, or everything is listed.              *)
Stopped(ids, w) == w.cycle \/ (w.stack = <<>> /\ ids \subseteq Elems(w.ordered))

(* The next id is started.                                                 *)
Starts(ids, w, v) ==
    /\ Len(w.stack) = 0 /\ Len(v.stack) = 1
    /\ v.stack[1].id \in ids \ Elems(w.ordered) /\ ~ v.stack[1].expanded
    /\ v.ordered = w.ordered /\ v.onStack = w.onStack /\ v.cycle = w.cycle

(* The last frame is taken off.                                            *)
Pops(w, v, n) ==
    /\ n = Len(w.stack) /\ n > 0 /\ Len(v.stack) = n - 1
    /\ \A i \in 1..(n - 1) : v.stack[i] = w.stack[i]
    /\ v.onStack = w.onStack \ {w.stack[n].id} /\ v.cycle = w.cycle

(* ... of an id that was listed meanwhile;                                 *)
Skips(w, v, n) ==
    Pops(w, v, n) /\ w.stack[n].id \in Elems(w.ordered) /\ v.ordered = w.ordered

(* ... of one whose parents are listed.                                    *)
Finishes(w, v, n) ==
    /\ Pops(w, v, n) /\ w.stack[n].id \notin Elems(w.ordered) /\ w.stack[n].expanded
    /\ v.ordered = Append(w.ordered, w.stack[n].id)

(* A frame that is still to be looked at.                                  *)
Unvisited(w, n) ==
    /\ n = Len(w.stack) /\ n > 0 /\ w.stack[n].id \notin Elems(w.ordered)
    /\ ~ w.stack[n].expanded

(* The cycle assertion fires.                                              *)
Refuses(graph, ids, w, v, n) ==
    /\ Unvisited(w, n)
    /\ \E x \in Inner(graph, ids, w.stack[n].id) : x \in w.onStack \cup {w.stack[n].id}
    /\ v.stack = w.stack /\ v.ordered = w.ordered /\ v.onStack = w.onStack /\ v.cycle

(* Frames for the parents that are not listed yet.                         *)
Expands(graph, ids, w, v, n) ==
    LET next == Inner(graph, ids, w.stack[n].id) \ Elems(w.ordered)
    IN  /\ Unvisited(w, n)
        /\ \A x \in next : x \notin w.onStack /\ x # w.stack[n].id
        /\ Len(v.stack) >= n /\ Len(v.stack) <= n + Cardinality(ids)
        /\ \A i \in 1..(n - 1) : v.stack[i] = w.stack[i]
        /\ v.stack[n].id = w.stack[n].id /\ v.stack[n].expanded
        /\ \A i \in (n + 1)..Len(v.stack) : v.stack[i].id \in next /\ ~ v.stack[i].expanded
        /\ \A x \in next : \E i \in (n + 1)..Len(v.stack) : v.stack[i].id = x
        /\ v.ordered = w.ordered /\ v.onStack = w.onStack \cup {w.stack[n].id} /\ v.cycle = w.cycle

(* Frames has a frame for each of the ids, and no more.                    *)
LEMMA FramesAre ==
    ASSUME NEW order, OrderOf(order), Distinct(order), NEW ids, ids \subseteq Elems(order),
           IsFiniteSet(ids), NEW some \in SUBSET ids
    PROVE  /\ Frames(order, some) \in Seq([id : ids, expanded : BOOLEAN])
           /\ Len(Frames(order, some)) <= Cardinality(ids)
           /\ \A i \in 1..Len(Frames(order, some)) :
                 Frames(order, some)[i].id \in some /\ ~ Frames(order, some)[i].expanded
<1>1. PICK l \in Seq(some) : l = Listed(order, some) /\ Elems(l) = some /\ Distinct(l)
  <2>1. Elems(order) \cap some = some
    OBVIOUS
  <2>2. QED
    BY <2>1, ListedAre
<1>2. Len(l) \in Nat /\ DOMAIN l = 1..Len(l) /\ \A i \in 1..Len(l) : l[i] \in some
  BY <1>1
<1>3. Frames(order, some) = [i \in 1..Len(l) |-> [id |-> l[i], expanded |-> FALSE]]
  BY <1>1 DEF Frames
<1>4. Len(l) <= Cardinality(ids)
  <2>1. l \in Injection(1..Len(l), some)
    BY <1>1, <1>2 DEF Distinct, Injection, IsInjective
  <2>2. IsFiniteSet(some) /\ Cardinality(some) <= Cardinality(ids) /\ Cardinality(ids) \in Nat
        /\ Cardinality(some) \in Nat
    BY FS_Subset, FS_CardinalityType
  <2>3. IsFiniteSet(1..Len(l)) /\ Cardinality(1..Len(l)) = Len(l)
    <3>1. IsFiniteSet(1..Len(l)) /\ Cardinality(1..Len(l)) = IF 1 > Len(l) THEN 0 ELSE Len(l) - 1 + 1
      BY <1>2, FS_Interval
    <3>2. QED
      BY <1>2, <3>1
  <2>4. Cardinality(1..Len(l)) <= Cardinality(some)
    BY <2>1, <2>2, <2>3, FS_Injection
  <2>5. QED
    BY <1>2, <2>2, <2>3, <2>4
<1>5. Frames(order, some) \in Seq([id : ids, expanded : BOOLEAN]) /\ Len(Frames(order, some)) = Len(l)
  BY <1>2, <1>3
<1>6. \A i \in 1..Len(l) : Frames(order, some)[i].id = l[i] /\ ~ Frames(order, some)[i].expanded
  BY <1>2, <1>3
<1>7. QED
  BY <1>2, <1>4, <1>5, <1>6

(* ... and none is left out.                                               *)
LEMMA FramesCover ==
    ASSUME NEW order, OrderOf(order), NEW some, some \subseteq Elems(order), NEW x \in some
    PROVE  \E i \in 1..Len(Frames(order, some)) : Frames(order, some)[i].id = x
<1>1. PICK l \in Seq(some) : l = Listed(order, some) /\ Elems(l) = some
  <2>1. Elems(order) \cap some = some
    OBVIOUS
  <2>2. QED
    BY <2>1, ListedAre
<1>2. Len(l) \in Nat /\ DOMAIN l = 1..Len(l)
  BY <1>1, LenProperties
<1>3. Frames(order, some) = [i \in 1..Len(l) |-> [id |-> l[i], expanded |-> FALSE]]
  BY <1>1, <1>2 DEF Frames
<1>4. Len(Frames(order, some)) = Len(l)
  BY <1>2, <1>3
<1>5. PICK i \in 1..Len(l) : l[i] = x
  BY <1>1, <1>2 DEF Elems
<1>6. QED
  BY <1>3, <1>4, <1>5

(* What is left of a sequence without its last element.                    *)
LEMMA PopIs ==
    ASSUME NEW T, NEW s \in Seq(T), s # <<>>
    PROVE  \E n \in Nat : /\ n = Len(s) /\ n > 0 /\ s[n] \in T
                          /\ SubSeq(s, 1, n - 1) \in Seq(T) /\ Len(SubSeq(s, 1, n - 1)) = n - 1
                          /\ \A i \in 1..(n - 1) : SubSeq(s, 1, n - 1)[i] = s[i]
<1>1. PICK n \in Nat : n = Len(s) /\ n > 0
  BY EmptySeq
<1>2. \A i \in 1..n : s[i] \in T
  BY <1>1, ElementOfSeq
<1>3. PICK k \in Int : k = n - 1
  OBVIOUS
<1>4. \A i \in 1..k : s[i] \in T
  BY <1>2, <1>3
<1>5. /\ SubSeq(s, 1, k) \in Seq(T) /\ Len(SubSeq(s, 1, k)) = IF 1 <= k THEN k - 1 + 1 ELSE 0
      /\ \A i \in 1..(k - 1 + 1) : SubSeq(s, 1, k)[i] = s[1 + i - 1]
  BY <1>4, SubSeqProperties
<1>6. QED
  BY <1>1, <1>2, <1>3, <1>5

(* What an element and a sequence appended to a sequence make.             *)
LEMMA PushIs ==
    ASSUME NEW T, NEW re \in Seq(T), NEW fe \in T, NEW fs \in Seq(T), NEW n \in Nat, n = Len(re) + 1
    PROVE  /\ Append(re, fe) \o fs \in Seq(T) /\ Len(Append(re, fe) \o fs) = n + Len(fs)
           /\ \A i \in 1..(n - 1) : (Append(re, fe) \o fs)[i] = re[i]
           /\ (Append(re, fe) \o fs)[n] = fe
           /\ \A i \in 1..Len(fs) : (Append(re, fe) \o fs)[n + i] = fs[i]
<1>1. PICK ap \in Seq(T) : /\ ap = Append(re, fe) /\ Len(ap) = n /\ ap[n] = fe
                           /\ \A i \in 1..(n - 1) : ap[i] = re[i]
  <2>1. Len(re) \in Nat /\ Len(re) = n - 1
    BY LenProperties
  <2>2. /\ Append(re, fe) \in Seq(T) /\ Len(Append(re, fe)) = Len(re) + 1
        /\ \A i \in 1..Len(re) : Append(re, fe)[i] = re[i]
        /\ Append(re, fe)[Len(re) + 1] = fe
    BY AppendProperties
  <2>3. QED
    BY <2>1, <2>2
<1>2. Len(fs) \in Nat /\ n > 0
  BY LenProperties
<1>3. /\ ap \o fs \in Seq(T) /\ Len(ap \o fs) = n + Len(fs)
      /\ \A i \in 1..(n + Len(fs)) : (ap \o fs)[i] = IF i <= n THEN ap[i] ELSE fs[i - n]
  BY <1>1, ConcatProperties
<1>4. \A i \in 1..Len(fs) : (ap \o fs)[n + i] = fs[i]
  <2> SUFFICES ASSUME NEW i \in 1..Len(fs) PROVE (ap \o fs)[n + i] = fs[i]
    OBVIOUS
  <2>1. n + i \in 1..(n + Len(fs)) /\ ~ (n + i <= n) /\ (n + i) - n = i
    BY <1>2
  <2>2. QED
    BY <1>3, <2>1
<1>5. \A i \in 1..n : (ap \o fs)[i] = ap[i]
  <2> SUFFICES ASSUME NEW i \in 1..n PROVE (ap \o fs)[i] = ap[i]
    OBVIOUS
  <2>1. i \in 1..(n + Len(fs)) /\ i <= n
    BY <1>2
  <2>2. QED
    BY <1>3, <2>1
<1>6. PICK st \in Seq(T) : st = ap \o fs
  BY <1>3
<1>7. /\ Len(st) = n + Len(fs) /\ st[n] = fe
      /\ \A i \in 1..(n - 1) : st[i] = re[i]
      /\ \A i \in 1..Len(fs) : st[n + i] = fs[i]
  BY <1>1, <1>2, <1>3, <1>4, <1>5, <1>6
<1>8. QED
  BY <1>1, <1>6, <1>7

(* Every turn of topologicalOrder is one of these.                         *)
LEMMA TurnIs ==
    ASSUME NEW graph, NEW order, OrderOf(order), Distinct(order), NEW ids, ids \subseteq Elems(order),
           IsFiniteSet(ids), NEW w \in Walks(ids), ~ Stopped(ids, w),
           NEW v, v = WalkStep(graph, order, ids, w)
    PROVE  \/ Starts(ids, w, v)
           \/ \E n \in Nat : \/ Skips(w, v, n) \/ Finishes(w, v, n)
                             \/ Refuses(graph, ids, w, v, n) \/ Expands(graph, ids, w, v, n)
<1> DEFINE F == [id : ids, expanded : BOOLEAN]
           done == Elems(w.ordered)
           rest == SubSeq(w.stack, 1, Len(w.stack) - 1)
           frame == w.stack[Len(w.stack)]
           next == (ParentsIn(graph, frame.id) \cap ids) \ done
<1>0. PICK T : T = F
  OBVIOUS
<1>1. /\ w.stack \in Seq(T) /\ w.ordered \in Seq(ids) /\ w.onStack \in SUBSET ids /\ w.cycle \in BOOLEAN
  BY <1>0 DEF Walks
<1>2. /\ ~ w.cycle /\ (w.stack = <<>> => ~ (ids \subseteq done))
  BY DEF Stopped
<1>3. DOMAIN w = {"stack", "ordered", "onStack", "cycle"}
  BY DEF Walks
<1>4. \A some \in SUBSET ids : \E fs \in Seq(T) :
         /\ fs = Frames(order, some) /\ Len(fs) <= Cardinality(ids)
         /\ \A i \in 1..Len(fs) : fs[i].id \in some /\ ~ fs[i].expanded
         /\ \A x \in some : \E i \in 1..Len(fs) : fs[i].id = x
  <2> SUFFICES ASSUME NEW some \in SUBSET ids
               PROVE  \E fs \in Seq(T) :
                         /\ fs = Frames(order, some) /\ Len(fs) <= Cardinality(ids)
                         /\ \A i \in 1..Len(fs) : fs[i].id \in some /\ ~ fs[i].expanded
                         /\ \A x \in some : \E i \in 1..Len(fs) : fs[i].id = x
    OBVIOUS
  <2>1. /\ Frames(order, some) \in Seq(T) /\ Len(Frames(order, some)) <= Cardinality(ids)
        /\ \A i \in 1..Len(Frames(order, some)) :
              Frames(order, some)[i].id \in some /\ ~ Frames(order, some)[i].expanded
        /\ \A x \in some : \E i \in 1..Len(Frames(order, some)) : Frames(order, some)[i].id = x
    <3>1. PICK fs : fs = Frames(order, some)
      OBVIOUS
    <3>2. fs \in Seq(F)
      BY <3>1, FramesAre
    <3>3. Len(fs) <= Cardinality(ids)
      BY <3>1, FramesAre
    <3>4. \A i \in 1..Len(fs) : fs[i].id \in some /\ ~ fs[i].expanded
      BY <3>1, FramesAre
    <3>5. \A x \in some : \E i \in 1..Len(fs) : fs[i].id = x
      BY <3>1, FramesCover
    <3> HIDE DEF F
    <3>6. QED
      BY <1>0, <3>1, <3>2, <3>3, <3>4, <3>5
  <2>2. QED
    BY <2>1
<1>5. \A f \in T : /\ f.id \in ids /\ f.expanded \in BOOLEAN
                   /\ [f EXCEPT !.expanded = TRUE] \in T
                   /\ [f EXCEPT !.expanded = TRUE].id = f.id /\ [f EXCEPT !.expanded = TRUE].expanded
  BY <1>0
<1> HIDE DEF F
<1>6. CASE w.stack = <<>>
  <2>1. ids \ done \in SUBSET ids
    OBVIOUS
  <2>2. PICK fs \in Seq(T) :
           /\ fs = Frames(order, ids \ done) /\ Len(fs) <= Cardinality(ids)
           /\ \A i \in 1..Len(fs) : fs[i].id \in ids \ done /\ ~ fs[i].expanded
           /\ \A x \in ids \ done : \E i \in 1..Len(fs) : fs[i].id = x
    BY <1>4, <2>1
  <2>3. /\ Len(fs) \in Nat
        /\ \A i \in 1..Len(fs) : fs[i].id \in ids \ done /\ ~ fs[i].expanded
        /\ \A x \in ids \ done : \E i \in 1..Len(fs) : fs[i].id = x
    BY <2>2, LenProperties
  <2>4. Len(fs) >= 1
    BY <1>2, <1>6, <2>3
  <2>5. PICK s \in Seq(T) : s = SubSeq(fs, 1, 1) /\ Len(s) = 1 /\ s[1] = fs[1]
    <3>1. \A i \in 1..1 : fs[i] \in T
      BY <2>3, <2>4, ElementOfSeq
    <3>2. /\ SubSeq(fs, 1, 1) \in Seq(T) /\ Len(SubSeq(fs, 1, 1)) = IF 1 <= 1 THEN 1 - 1 + 1 ELSE 0
          /\ \A i \in 1..(1 - 1 + 1) : SubSeq(fs, 1, 1)[i] = fs[1 + i - 1]
      BY <3>1, SubSeqProperties
    <3>3. Len(SubSeq(fs, 1, 1)) = 1 /\ SubSeq(fs, 1, 1)[1] = fs[1]
      BY <3>2
    <3>4. QED
      BY <3>2, <3>3
  <2>6. v = [w EXCEPT !.stack = s]
    BY <1>2, <1>6, <2>2, <2>5 DEF WalkStep
  <2>7. v.stack = s /\ v.ordered = w.ordered /\ v.onStack = w.onStack /\ v.cycle = w.cycle
    BY <1>3, <2>6
  <2>8. s[1].id \in ids \ done /\ ~ s[1].expanded
    BY <2>3, <2>4, <2>5
  <2>9. Len(w.stack) = 0
    BY <1>6, EmptySeq
  <2>10. Starts(ids, w, v)
    <3> HIDE DEF done
    <3>1. QED
      BY <2>5, <2>7, <2>8, <2>9 DEF Starts, done
  <2>11. QED
    BY <2>10
<1>7. CASE w.stack # <<>>
  <2>1. PICK s \in Seq(T) : s = w.stack
    BY <1>1
  <2>2. PICK n \in Nat : /\ n = Len(s) /\ n > 0 /\ s[n] \in T
                         /\ SubSeq(s, 1, n - 1) \in Seq(T) /\ Len(SubSeq(s, 1, n - 1)) = n - 1
                         /\ \A i \in 1..(n - 1) : SubSeq(s, 1, n - 1)[i] = s[i]
    BY <1>7, <2>1, PopIs
  <2>3. PICK fr \in T : fr = s[n] /\ fr = frame /\ fr = w.stack[n] /\ n = Len(w.stack)
    BY <2>1, <2>2
  <2>4. PICK re \in Seq(T) : re = rest /\ Len(re) = n - 1 /\ \A i \in 1..(n - 1) : re[i] = s[i]
    BY <2>1, <2>2
  <2>5. fr.id \in ids /\ fr.expanded \in BOOLEAN
    BY <1>5, <2>3
  <2>6. CASE fr.id \in done
    <3>1. v = [w EXCEPT !.stack = re, !.onStack = @ \ {fr.id}]
      BY <1>2, <1>7, <2>3, <2>4, <2>6 DEF WalkStep
    <3>2. v.stack = re /\ v.ordered = w.ordered /\ v.onStack = w.onStack \ {fr.id} /\ v.cycle = w.cycle
      BY <1>3, <3>1
    <3>3. Skips(w, v, n)
      BY <2>1, <2>2, <2>3, <2>4, <2>6, <3>2 DEF Skips, Pops
    <3>4. QED
      BY <3>3
  <2>7. CASE fr.id \notin done /\ fr.expanded
    <3>1. v = [w EXCEPT !.stack = re, !.onStack = @ \ {fr.id}, !.ordered = Append(@, fr.id)]
      BY <1>2, <1>7, <2>3, <2>4, <2>7 DEF WalkStep
    <3>2. /\ v.stack = re /\ v.ordered = Append(w.ordered, fr.id)
          /\ v.onStack = w.onStack \ {fr.id} /\ v.cycle = w.cycle
      BY <1>3, <3>1
    <3>3. Finishes(w, v, n)
      BY <2>1, <2>2, <2>3, <2>4, <2>7, <3>2 DEF Finishes, Pops
    <3>4. QED
      BY <3>3
  <2>8. CASE fr.id \notin done /\ ~ fr.expanded
    <3>1. Unvisited(w, n)
      BY <2>2, <2>3, <2>8 DEF Unvisited
    <3>2. next = Inner(graph, ids, fr.id) \ done
      BY <2>3 DEF Inner
    <3>3. CASE next \cap (w.onStack \cup {fr.id}) # {}
      <4>1. v = [w EXCEPT !.cycle = TRUE]
        BY <1>2, <1>7, <2>3, <2>8, <3>3 DEF WalkStep
      <4>2. v.stack = w.stack /\ v.ordered = w.ordered /\ v.onStack = w.onStack /\ v.cycle
        BY <1>3, <4>1
      <4>3. Refuses(graph, ids, w, v, n)
        BY <2>3, <3>1, <3>2, <3>3, <4>2 DEF Refuses
      <4>4. QED
        BY <4>3
    <3>4. CASE next \cap (w.onStack \cup {fr.id}) = {}
      <4>1. v = [w EXCEPT !.stack = Append(re, [fr EXCEPT !.expanded = TRUE]) \o Frames(order, next),
                          !.onStack = @ \cup {fr.id}]
        BY <1>2, <1>7, <2>3, <2>4, <2>8, <3>4 DEF WalkStep
      <4>2. next \in SUBSET ids
        OBVIOUS
      <4>3. PICK fs \in Seq(T) :
               /\ fs = Frames(order, next) /\ Len(fs) <= Cardinality(ids)
               /\ \A i \in 1..Len(fs) : fs[i].id \in next /\ ~ fs[i].expanded
               /\ \A x \in next : \E i \in 1..Len(fs) : fs[i].id = x
        <5> HIDE DEF next
        <5>1. QED
          BY <1>4, <4>2
      <4>4. PICK N : N = next
        OBVIOUS
      <4>5. /\ Len(fs) \in Nat /\ Len(fs) <= Cardinality(ids)
            /\ \A i \in 1..Len(fs) : fs[i].id \in N /\ ~ fs[i].expanded
            /\ \A x \in N : \E i \in 1..Len(fs) : fs[i].id = x
        BY <4>3, <4>4, LenProperties
      <4>6. PICK fe \in T : fe = [fr EXCEPT !.expanded = TRUE]
        BY <1>5, <2>3
      <4>7. fe.id = fr.id /\ fe.expanded
        BY <1>5, <2>3, <4>6
      <4>8. n = Len(re) + 1
        BY <2>2, <2>4
      <4>9. PICK st \in Seq(T) : /\ st = Append(re, fe) \o fs /\ Len(st) = n + Len(fs)
                                 /\ \A i \in 1..(n - 1) : st[i] = re[i]
                                 /\ st[n] = fe
                                 /\ \A i \in 1..Len(fs) : st[n + i] = fs[i]
        <5>1. PICK st : st = Append(re, fe) \o fs
          OBVIOUS
        <5>2. st \in Seq(T) /\ Len(st) = n + Len(fs) /\ st[n] = fe
          BY <4>8, <5>1, PushIs
        <5>3. \A i \in 1..(n - 1) : st[i] = re[i]
          BY <4>8, <5>1, PushIs
        <5>4. \A i \in 1..Len(fs) : st[n + i] = fs[i]
          BY <4>8, <5>1, PushIs
        <5>5. QED
          BY <5>1, <5>2, <5>3, <5>4
      <4>10. v.stack = st /\ v.ordered = w.ordered /\ v.onStack = w.onStack \cup {fr.id} /\ v.cycle = w.cycle
        BY <1>3, <4>1, <4>3, <4>6, <4>9
      <4>11. \A i \in (n + 1)..Len(st) : st[i].id \in N /\ ~ st[i].expanded
        <5> SUFFICES ASSUME NEW i \in (n + 1)..Len(st) PROVE st[i].id \in N /\ ~ st[i].expanded
          OBVIOUS
        <5>1. i - n \in 1..Len(fs) /\ n + (i - n) = i
          BY <4>5, <4>9
        <5>2. QED
          BY <4>5, <4>9, <5>1
      <4>12. \A x \in N : \E i \in (n + 1)..Len(st) : st[i].id = x
        <5> SUFFICES ASSUME NEW x \in N PROVE \E i \in (n + 1)..Len(st) : st[i].id = x
          OBVIOUS
        <5>1. PICK j \in 1..Len(fs) : fs[j].id = x
          BY <4>5
        <5>2. n + j \in (n + 1)..Len(st) /\ (n + j) - n = j
          BY <4>5, <4>9
        <5>3. st[n + j] = fs[j]
          BY <4>9, <5>2
        <5>4. QED
          BY <5>1, <5>2, <5>3
      <4>13. /\ st[n].id = fr.id /\ st[n].expanded
             /\ \A i \in 1..(n - 1) : st[i] = s[i]
             /\ Len(st) >= n /\ Len(st) <= n + Cardinality(ids)
        <5>1. Cardinality(ids) \in Nat
          BY FS_CardinalityType
        <5>2. st[n].id = fr.id /\ st[n].expanded
          BY <4>7, <4>9
        <5>3. \A i \in 1..(n - 1) : st[i] = s[i]
          BY <2>4, <4>9
        <5>4. Len(st) >= n /\ Len(st) <= n + Cardinality(ids)
          BY <2>2, <4>5, <4>9, <5>1
        <5>5. QED
          BY <5>2, <5>3, <5>4
      <4>14. \A x \in N : x \notin w.onStack /\ x # fr.id
        BY <3>4, <4>4
      <4>15. N = Inner(graph, ids, w.stack[n].id) \ Elems(w.ordered)
        BY <2>3, <3>2, <4>4
      <4>16. Expands(graph, ids, w, v, n)
        <5> HIDE DEF done, next, rest, frame
        <5>1. QED
          BY <2>1, <2>3, <3>1, <4>10, <4>11, <4>12, <4>13, <4>14, <4>15 DEF Expands
      <4>17. QED
        BY <4>16
    <3>5. QED
      BY <3>3, <3>4
  <2>9. QED
    BY <2>5, <2>6, <2>7, <2>8
<1>8. QED
  BY <1>6, <1>7

-----------------------------------------------------------------------------
(* What holds of the walk after every turn.  onStack has the ids of the    *)
(* expanded frames, and none of them is listed.                            *)
PathHeld(w) ==
    /\ \A i \in 1..Len(w.stack) : w.stack[i].expanded => w.stack[i].id \in w.onStack
    /\ \A x \in w.onStack : \E i \in 1..Len(w.stack) : w.stack[i].expanded /\ w.stack[i].id = x
    /\ \A x \in w.onStack : x \notin Elems(w.ordered)

(* No id comes again above its expanded frame.                             *)
OncePerPath(w) ==
    \A i, j \in 1..Len(w.stack) : w.stack[i].expanded /\ i < j => w.stack[i].id # w.stack[j].id

(* What follows an expanded frame, up to the next one, are its parents.    *)
FollowsPath(graph, ids, w) ==
    \A i, j \in 1..Len(w.stack) :
        /\ w.stack[i].expanded /\ i < j
        /\ \A k \in 1..Len(w.stack) : w.stack[k].expanded => ~ (i < k /\ k < j)
        => w.stack[j].id \in Inner(graph, ids, w.stack[i].id)

(* Every parent of an expanded frame is listed or lies above it.           *)
ParentsPending(graph, ids, w) ==
    \A i \in 1..Len(w.stack) : w.stack[i].expanded =>
        \A p \in Inner(graph, ids, w.stack[i].id) :
            \/ p \in Elems(w.ordered)
            \/ \E j \in 1..Len(w.stack) : i < j /\ w.stack[j].id = p

(* What is listed is listed once and after its parents.                    *)
ParentsFirst(graph, ids, listed) ==
    /\ Distinct(listed)
    /\ \A i \in DOMAIN listed : \A p \in Inner(graph, ids, listed[i]) :
          \E j \in DOMAIN listed : j < i /\ listed[j] = p

(* A set of ids in which each has a parent in the set.                     *)
Cyclic(graph, ids) ==
    \E X \in SUBSET ids : X # {} /\ \A x \in X : \E p \in Inner(graph, ids, x) : p \in X

(* The inductive invariant of the walk.                                    *)
WalkInv(graph, ids, w) ==
    /\ PathHeld(w) /\ OncePerPath(w) /\ FollowsPath(graph, ids, w) /\ ParentsPending(graph, ids, w)
    /\ ParentsFirst(graph, ids, w.ordered)
    /\ w.cycle => Cyclic(graph, ids)

(* The invariant survives the start of an id.                              *)
LEMMA StartsInv ==
    ASSUME NEW graph, NEW ids, NEW w, NEW v, WalkInv(graph, ids, w), Starts(ids, w, v)
    PROVE  WalkInv(graph, ids, v)
<1>1. PathHeld(v)
  BY DEF Starts, WalkInv, PathHeld
<1>2. OncePerPath(v) /\ FollowsPath(graph, ids, v) /\ ParentsPending(graph, ids, v)
  BY DEF Starts, OncePerPath, FollowsPath, ParentsPending
<1>3. ParentsFirst(graph, ids, v.ordered) /\ (v.cycle => Cyclic(graph, ids))
  BY DEF Starts, WalkInv
<1>4. QED
  BY <1>1, <1>2, <1>3 DEF WalkInv

(* The stack without its last frame is as good as it was.                  *)
LEMMA PopsInv ==
    ASSUME NEW graph, NEW ids, NEW w, NEW v, NEW n \in Nat, WalkInv(graph, ids, w), Pops(w, v, n),
           Elems(v.ordered) = Elems(w.ordered) \cup {w.stack[n].id}
    PROVE  PathHeld(v) /\ OncePerPath(v) /\ FollowsPath(graph, ids, v) /\ ParentsPending(graph, ids, v)
<1> DEFINE s == w.stack
           top == s[n].id
           D == Elems(w.ordered)
<1>1. /\ Len(w.stack) = n /\ n > 0 /\ Len(v.stack) = n - 1 /\ v.onStack = w.onStack \ {top}
      /\ \A i \in 1..(n - 1) : v.stack[i] = s[i]
  BY DEF Pops
<1>2. PathHeld(v)
  <2>1. ASSUME NEW i \in 1..(n - 1), s[i].expanded PROVE s[i].id \in w.onStack \ {top}
    <3>1. i \in 1..n /\ n \in 1..n /\ i < n
      BY <1>1
    <3>2. QED
      BY <1>1, <2>1, <3>1 DEF WalkInv, PathHeld, OncePerPath
  <2>2. ASSUME NEW x \in w.onStack \ {top} PROVE \E i \in 1..(n - 1) : s[i].expanded /\ s[i].id = x
    <3>1. PICK i \in 1..n : s[i].expanded /\ s[i].id = x
      BY <1>1 DEF WalkInv, PathHeld
    <3>2. i # n
      BY <3>1
    <3>3. QED
      BY <1>1, <3>1, <3>2
  <2>3. ASSUME NEW x \in w.onStack \ {top} PROVE x \notin D \cup {top}
    BY DEF WalkInv, PathHeld
  <2>4. QED
    BY <1>1, <2>1, <2>2, <2>3 DEF PathHeld
<1>3. OncePerPath(v)
  <2>1. ASSUME NEW i \in 1..(n - 1), NEW j \in 1..(n - 1), s[i].expanded, i < j PROVE s[i].id # s[j].id
    <3>1. i \in 1..n /\ j \in 1..n
      BY <1>1
    <3>2. QED
      BY <1>1, <2>1, <3>1 DEF WalkInv, OncePerPath
  <2>2. QED
    BY <1>1, <2>1 DEF OncePerPath
<1>4. FollowsPath(graph, ids, v)
  <2>1. ASSUME NEW i \in 1..(n - 1), NEW j \in 1..(n - 1), s[i].expanded, i < j,
               \A k \in 1..(n - 1) : s[k].expanded => ~ (i < k /\ k < j)
        PROVE  s[j].id \in Inner(graph, ids, s[i].id)
    <3>1. i \in 1..n /\ j \in 1..n
      BY <1>1
    <3>2. \A k \in 1..n : s[k].expanded => ~ (i < k /\ k < j)
      BY <1>1, <2>1
    <3>3. QED
      BY <1>1, <2>1, <3>1, <3>2 DEF WalkInv, FollowsPath
  <2>2. QED
    BY <1>1, <2>1 DEF FollowsPath
<1>5. ParentsPending(graph, ids, v)
  <2>1. ASSUME NEW i \in 1..(n - 1), s[i].expanded, NEW p \in Inner(graph, ids, s[i].id)
        PROVE  p \in D \cup {top} \/ \E j \in 1..(n - 1) : i < j /\ s[j].id = p
    <3>1. i \in 1..n
      BY <1>1
    <3>2. p \in D \/ \E j \in 1..n : i < j /\ s[j].id = p
      BY <1>1, <2>1, <3>1 DEF WalkInv, ParentsPending
    <3>3. CASE p \in D
      BY <3>3
    <3>4. CASE \E j \in 1..n : i < j /\ s[j].id = p
      <4>1. PICK j \in 1..n : i < j /\ s[j].id = p
        BY <3>4
      <4>2. j = n \/ j \in 1..(n - 1)
        BY <1>1
      <4>3. QED
        BY <4>1, <4>2
    <3>5. QED
      BY <3>2, <3>3, <3>4
  <2>2. QED
    BY <1>1, <2>1 DEF ParentsPending
<1>6. QED
  BY <1>2, <1>3, <1>4, <1>5

(* The invariant survives a frame that is skipped.                         *)
LEMMA SkipsInv ==
    ASSUME NEW graph, NEW ids, NEW w, NEW v, NEW n \in Nat, WalkInv(graph, ids, w), Skips(w, v, n)
    PROVE  WalkInv(graph, ids, v)
<1>1. Pops(w, v, n) /\ Elems(v.ordered) = Elems(w.ordered) \cup {w.stack[n].id}
  BY DEF Skips
<1>2. PathHeld(v) /\ OncePerPath(v) /\ FollowsPath(graph, ids, v) /\ ParentsPending(graph, ids, v)
  BY <1>1, PopsInv
<1>3. ParentsFirst(graph, ids, v.ordered) /\ (v.cycle => Cyclic(graph, ids))
  BY <1>1 DEF Skips, Pops, WalkInv
<1>4. QED
  BY <1>2, <1>3 DEF WalkInv

(* ... and one that is finished: its parents are all listed.               *)
LEMMA FinishesInv ==
    ASSUME NEW graph, NEW ids, NEW w \in Walks(ids), NEW v, NEW n \in Nat,
           WalkInv(graph, ids, w), Finishes(w, v, n)
    PROVE  WalkInv(graph, ids, v)
<1>1. PICK l \in Seq(ids) : l = w.ordered
  BY DEF Walks
<1>2. PICK x : x = w.stack[n].id
  OBVIOUS
<1>3. /\ Pops(w, v, n) /\ x \notin Elems(l) /\ w.stack[n].expanded /\ v.ordered = Append(l, x)
      /\ Len(w.stack) = n /\ n > 0
  BY <1>1, <1>2 DEF Finishes, Pops
<1>4. PICK T : T = ids \cup {x}
  OBVIOUS
<1>5. PICK m \in Seq(T) : m = Append(l, x)
  <2>1. l \in Seq(T) /\ x \in T
    BY <1>4
  <2>2. Append(l, x) \in Seq(T)
    BY <2>1, AppendProperties
  <2>3. QED
    BY <2>2
<1>6. /\ Len(l) \in Nat /\ DOMAIN l = 1..Len(l) /\ DOMAIN m = 1..(Len(l) + 1)
      /\ m[Len(l) + 1] = x /\ \A i \in 1..Len(l) : m[i] = l[i]
  <2>1. l \in Seq(T) /\ x \in T
    BY <1>4
  <2>2. /\ Len(Append(l, x)) = Len(l) + 1 /\ \A i \in 1..Len(l) : Append(l, x)[i] = l[i]
        /\ Append(l, x)[Len(l) + 1] = x
    BY <2>1, AppendProperties
  <2>3. Len(l) \in Nat /\ DOMAIN l = 1..Len(l) /\ DOMAIN m = 1..Len(m)
    BY LenProperties
  <2>4. QED
    BY <1>5, <2>2, <2>3
<1>7. Elems(v.ordered) = Elems(w.ordered) \cup {w.stack[n].id}
  <2>1. Elems(m) = Elems(l) \cup {x}
    BY <1>6 DEF Elems
  <2>2. QED
    BY <1>1, <1>2, <1>3, <1>5, <2>1
<1>8. PathHeld(v) /\ OncePerPath(v) /\ FollowsPath(graph, ids, v) /\ ParentsPending(graph, ids, v)
  BY <1>3, <1>7, PopsInv
<1>9. \A p \in Inner(graph, ids, x) : p \in Elems(l)
  <2>1. n \in 1..Len(w.stack) /\ ~ \E j \in 1..Len(w.stack) : n < j
    BY <1>3
  <2>2. QED
    BY <1>1, <1>2, <1>3, <2>1 DEF WalkInv, ParentsPending
<1>10. ParentsFirst(graph, ids, m)
  <2>1. Distinct(m)
    <3>1. \A i \in DOMAIN l : l[i] # x
      BY <1>3 DEF Elems
    <3>2. Distinct(l)
      BY <1>1 DEF WalkInv, ParentsFirst
    <3>3. QED
      BY <1>5, <3>1, <3>2, DistinctAppend
  <2>2. ASSUME NEW i \in DOMAIN m, NEW p \in Inner(graph, ids, m[i])
        PROVE  \E j \in DOMAIN m : j < i /\ m[j] = p
    <3>1. CASE i \in 1..Len(l)
      <4>1. PICK j \in DOMAIN l : j < i /\ l[j] = p
        BY <1>1, <1>6, <3>1 DEF WalkInv, ParentsFirst
      <4>2. QED
        BY <1>6, <4>1
    <3>2. CASE i = Len(l) + 1
      <4>1. p \in Elems(l)
        BY <1>6, <1>9, <3>2
      <4>2. PICK j \in DOMAIN l : l[j] = p
        BY <4>1 DEF Elems
      <4>3. QED
        BY <1>6, <3>2, <4>2
    <3>3. QED
      BY <1>6, <3>1, <3>2
  <2>3. QED
    BY <2>1, <2>2 DEF ParentsFirst
<1>11. v.cycle => Cyclic(graph, ids)
  BY <1>3 DEF Pops, WalkInv
<1>12. QED
  BY <1>3, <1>5, <1>8, <1>10, <1>11 DEF WalkInv

(* When the assertion fires there is a cycle: the expanded frames from the *)
(* one found again up to the last, with the frame at hand.                 *)
LEMMA RefusesInv ==
    ASSUME NEW graph, NEW ids, NEW w \in Walks(ids), NEW v, NEW n \in Nat,
           WalkInv(graph, ids, w), Refuses(graph, ids, w, v, n)
    PROVE  WalkInv(graph, ids, v)
<1> DEFINE s == w.stack
           top == s[n].id
<1>1. /\ v.stack = w.stack /\ v.ordered = w.ordered /\ v.onStack = w.onStack
      /\ Len(s) = n /\ n > 0 /\ ~ s[n].expanded
  BY DEF Refuses, Unvisited
<1>2. PICK x \in Inner(graph, ids, top) : x \in w.onStack \cup {top}
  BY DEF Refuses
<1>3. \A i \in 1..n : s[i].id \in ids
  <2>1. PICK F : F = [id : ids, expanded : BOOLEAN]
    OBVIOUS
  <2>2. w.stack \in Seq(F)
    BY <2>1 DEF Walks
  <2>3. \A i \in 1..n : s[i] \in F
    BY <1>1, <2>2, ElementOfSeq
  <2>4. QED
    BY <2>1, <2>3
<1>4. Cyclic(graph, ids)
  <2>1. CASE x = top
    <3>1. PICK X \in SUBSET ids : X = {top}
      <4>1. n \in 1..n
        BY <1>1
      <4>2. top \in ids
        BY <1>3, <4>1
      <4> HIDE DEF top
      <4>3. {top} \in SUBSET ids
        BY <4>2
      <4>4. QED
        BY <4>3
    <3>2. X # {} /\ \A y \in X : \E p \in Inner(graph, ids, y) : p \in X
      <4> HIDE DEF top
      <4>1. QED
        BY <1>2, <2>1, <3>1
    <3>3. QED
      BY <3>2 DEF Cyclic
  <2>2. CASE x \in w.onStack
    <3>1. PICK e \in 1..n : s[e].expanded /\ s[e].id = x
      BY <1>1, <2>2 DEF WalkInv, PathHeld
    <3> DEFINE K == {i \in 1..n : i >= e /\ (s[i].expanded \/ i = n)}
               X == {s[i].id : i \in K}
    <3>2. X \in SUBSET ids /\ x \in X /\ top \in X
      <4>1. e \in K /\ n \in K
        BY <1>1, <3>1
      <4>2. QED
        BY <1>3, <3>1, <4>1
    <3>3. ASSUME NEW i \in K PROVE \E p \in Inner(graph, ids, s[i].id) : p \in X
      <4>1. CASE i = n
        BY <1>2, <3>2, <4>1
      <4>2. CASE i # n
        <5> DEFINE L == {j \in 1..n : i < j /\ (s[j].expanded \/ j = n)}
        <5>1. L \in SUBSET Nat /\ n \in L
          BY <1>1, <4>2
        <5>2. PICK j \in L : \A k \in L : j <= k
          <6> HIDE DEF L
          <6>1. QED
            BY <5>1, LeastNumber
        <5>3. i \in 1..n /\ j \in 1..n /\ s[i].expanded /\ i < j /\ i >= e
          BY <4>2
        <5>4. \A k \in 1..n : s[k].expanded => ~ (i < k /\ k < j)
          <6> SUFFICES ASSUME NEW k \in 1..n, s[k].expanded, i < k, k < j PROVE FALSE
            OBVIOUS
          <6>1. k \in L
            OBVIOUS
          <6>2. j <= k
            BY <5>2, <6>1
          <6>3. QED
            BY <5>3, <6>2
        <5>5. s[j].id \in Inner(graph, ids, s[i].id)
          BY <1>1, <5>3, <5>4 DEF WalkInv, FollowsPath
        <5>6. j \in K
          BY <5>3
        <5>7. QED
          BY <5>5, <5>6
      <4>3. QED
        BY <4>1, <4>2
    <3>4. \A y \in X : \E p \in Inner(graph, ids, y) : p \in X
      BY <3>3
    <3>5. QED
      <4> HIDE DEF X
      <4>1. QED
        BY <3>2, <3>4 DEF Cyclic
  <2>3. QED
    BY <1>2, <2>1, <2>2
<1>5. PathHeld(v) /\ OncePerPath(v) /\ FollowsPath(graph, ids, v) /\ ParentsPending(graph, ids, v)
  BY <1>1 DEF WalkInv, PathHeld, OncePerPath, FollowsPath, ParentsPending
<1>6. QED
  BY <1>1, <1>4, <1>5 DEF WalkInv

(* The invariant survives an expansion: the new frames are parents of the  *)
(* frame at hand, and none of them is on the path.                         *)
LEMMA ExpandsInv ==
    ASSUME NEW graph, NEW ids, NEW w, NEW v, NEW n \in Nat, NEW m \in Nat, m = Len(v.stack),
           WalkInv(graph, ids, w), Expands(graph, ids, w, v, n)
    PROVE  WalkInv(graph, ids, v)
<1> DEFINE s == w.stack
           r == v.stack
           top == s[n].id
           D == Elems(w.ordered)
<1>1. PICK next : next = Inner(graph, ids, top) \ D
  OBVIOUS
<1>2. /\ Len(w.stack) = n /\ n > 0 /\ ~ s[n].expanded /\ top \notin D /\ m >= n
      /\ \A x \in next : x \notin w.onStack /\ x # top
      /\ \A i \in 1..(n - 1) : r[i] = s[i]
      /\ r[n].id = top /\ r[n].expanded
      /\ v.ordered = w.ordered /\ v.onStack = w.onStack \cup {top} /\ v.cycle = w.cycle
  BY <1>1 DEF Expands, Unvisited
<1>3. /\ \A i \in (n + 1)..m : r[i].id \in next /\ ~ r[i].expanded
      /\ \A x \in next : \E i \in (n + 1)..m : r[i].id = x
  BY <1>1 DEF Expands
<1>4. \A i \in 1..m : i \in 1..(n - 1) \/ i = n \/ i \in (n + 1)..m
  BY <1>2
<1>5. \A i \in 1..n : i \in 1..m /\ r[i].id = s[i].id
  BY <1>2
<1>6. \A i \in 1..m : r[i].expanded => i \in 1..n /\ (i < n => s[i].expanded)
  BY <1>2, <1>3, <1>4
<1> HIDE DEF s, r, top, D
<1>7. PathHeld(v)
  <2>1. ASSUME NEW i \in 1..m, r[i].expanded PROVE r[i].id \in w.onStack \cup {top}
    <3>1. i \in 1..n /\ (i < n => s[i].expanded)
      BY <1>6, <2>1
    <3>2. CASE i = n
      BY <1>2, <3>2
    <3>3. CASE i < n
      BY <1>2, <1>5, <3>1, <3>3 DEF WalkInv, PathHeld, s
    <3>4. QED
      BY <3>1, <3>2, <3>3
  <2>2. ASSUME NEW x \in w.onStack \cup {top} PROVE \E i \in 1..m : r[i].expanded /\ r[i].id = x
    <3>1. CASE x = top
      <4>1. n \in 1..m
        BY <1>2
      <4>2. QED
        BY <1>2, <3>1, <4>1
    <3>2. CASE x \in w.onStack
      <4>1. PICK i \in 1..n : s[i].expanded /\ s[i].id = x
        BY <1>2, <3>2 DEF WalkInv, PathHeld, s
      <4>2. i \in 1..(n - 1)
        BY <1>2, <4>1
      <4>3. QED
        BY <1>2, <1>5, <4>1, <4>2
    <3>3. QED
      BY <3>1, <3>2
  <2>3. ASSUME NEW x \in w.onStack \cup {top} PROVE x \notin D
    BY <1>2 DEF WalkInv, PathHeld, D
  <2>4. QED
    BY <1>2, <2>1, <2>2, <2>3 DEF PathHeld, r, D
<1>8. OncePerPath(v)
  <2>1. ASSUME NEW i \in 1..m, NEW j \in 1..m, r[i].expanded, i < j PROVE r[i].id # r[j].id
    <3>1. i \in 1..n /\ (i < n => s[i].expanded)
      BY <1>6, <2>1
    <3>2. CASE j \in 1..n
      <4>1. i < n /\ s[i].expanded /\ r[i].id = s[i].id /\ r[j].id = s[j].id
        BY <1>5, <2>1, <3>1, <3>2
      <4>2. QED
        BY <1>2, <2>1, <3>1, <3>2, <4>1 DEF WalkInv, OncePerPath, s
    <3>3. CASE j \in (n + 1)..m
      <4>1. r[j].id \in next
        BY <1>3, <3>3
      <4>2. r[i].id \in w.onStack \cup {top}
        <5>1. CASE i = n
          BY <1>2, <5>1
        <5>2. CASE i < n
          BY <1>2, <1>5, <3>1, <5>2 DEF WalkInv, PathHeld, s
        <5>3. QED
          BY <3>1, <5>1, <5>2
      <4>3. QED
        BY <1>2, <4>1, <4>2
    <3>4. QED
      BY <1>4, <3>2, <3>3
  <2>2. QED
    BY <2>1 DEF OncePerPath, r
<1>9. FollowsPath(graph, ids, v)
  <2>1. ASSUME NEW i \in 1..m, NEW j \in 1..m, r[i].expanded, i < j,
               \A k \in 1..m : r[k].expanded => ~ (i < k /\ k < j)
        PROVE  r[j].id \in Inner(graph, ids, r[i].id)
    <3>1. i \in 1..n /\ (i < n => s[i].expanded)
      BY <1>6, <2>1
    <3>2. CASE j \in 1..n
      <4>1. i < n /\ s[i].expanded /\ r[i].id = s[i].id /\ r[j].id = s[j].id
        BY <1>5, <2>1, <3>1, <3>2
      <4>2. \A k \in 1..n : s[k].expanded => ~ (i < k /\ k < j)
        <5> SUFFICES ASSUME NEW k \in 1..n, s[k].expanded, i < k, k < j PROVE FALSE
          OBVIOUS
        <5>1. k \in 1..(n - 1) /\ k \in 1..m
          BY <1>2, <3>2
        <5>2. r[k].expanded
          BY <1>2, <5>1
        <5>3. QED
          BY <2>1, <5>1, <5>2
      <4>3. QED
        BY <1>2, <2>1, <3>1, <3>2, <4>1, <4>2 DEF WalkInv, FollowsPath, s
    <3>3. CASE j \in (n + 1)..m
      <4>1. n \in 1..m /\ n < j
        BY <1>2, <3>3
      <4>2. i = n
        BY <1>2, <2>1, <3>1, <4>1
      <4>3. QED
        BY <1>1, <1>2, <1>3, <3>3, <4>2
    <3>4. QED
      BY <1>4, <3>2, <3>3
  <2>2. QED
    BY <2>1 DEF FollowsPath, r
<1>10. ParentsPending(graph, ids, v)
  <2>1. ASSUME NEW i \in 1..m, r[i].expanded, NEW p \in Inner(graph, ids, r[i].id)
        PROVE  p \in D \/ \E j \in 1..m : i < j /\ r[j].id = p
    <3>1. i \in 1..n /\ (i < n => s[i].expanded)
      BY <1>6, <2>1
    <3>2. CASE i = n
      <4>1. p \in D \/ p \in next
        BY <1>1, <1>2, <3>2
      <4>2. CASE p \in next
        <5>1. PICK j \in (n + 1)..m : r[j].id = p
          BY <1>3, <4>2
        <5>2. j \in 1..m /\ i < j
          BY <3>2
        <5>3. QED
          BY <5>1, <5>2
      <4>3. QED
        BY <4>1, <4>2
    <3>3. CASE i < n
      <4>1. p \in D \/ \E j \in 1..n : i < j /\ s[j].id = p
        BY <1>2, <1>5, <3>1, <3>3 DEF WalkInv, ParentsPending, s, D
      <4>2. QED
        BY <1>5, <4>1
    <3>4. QED
      BY <3>1, <3>2, <3>3
  <2>2. QED
    BY <1>2, <2>1 DEF ParentsPending, r, D
<1>11. ParentsFirst(graph, ids, v.ordered) /\ (v.cycle => Cyclic(graph, ids))
  BY <1>2 DEF WalkInv
<1>12. QED
  BY <1>7, <1>8, <1>9, <1>10, <1>11 DEF WalkInv

(* The invariant holds at first and survives every turn.                   *)
LEMMA WalkInvStep ==
    ASSUME NEW graph, NEW order, OrderOf(order), Distinct(order), NEW ids, ids \subseteq Elems(order),
           IsFiniteSet(ids), NEW w \in Walks(ids), WalkInv(graph, ids, w)
    PROVE  WalkInv(graph, ids, WalkStep(graph, order, ids, w))
<1>1. PICK v \in Walks(ids) : v = WalkStep(graph, order, ids, w)
  BY WalkStepWithin
<1>2. CASE Stopped(ids, w)
  <2>1. v = w
    BY <1>1, <1>2 DEF Stopped, WalkStep
  <2>2. QED
    BY <1>1, <2>1
<1>3. CASE ~ Stopped(ids, w)
  <2>1. \/ Starts(ids, w, v)
        \/ \E n \in Nat : \/ Skips(w, v, n) \/ Finishes(w, v, n)
                          \/ Refuses(graph, ids, w, v, n) \/ Expands(graph, ids, w, v, n)
    BY <1>1, <1>3, TurnIs
  <2>2. PICK m \in Nat : m = Len(v.stack)
    <3>1. PICK F : F = [id : ids, expanded : BOOLEAN]
      OBVIOUS
    <3>2. v.stack \in Seq(F)
      BY <3>1 DEF Walks
    <3>3. QED
      BY <3>2, LenProperties
  <2>3. WalkInv(graph, ids, v)
    BY <2>1, <2>2, StartsInv, SkipsInv, FinishesInv, RefusesInv, ExpandsInv
  <2>4. QED
    BY <1>1, <2>3
<1>4. QED
  BY <1>2, <1>3

-----------------------------------------------------------------------------
(* The walk comes to its end.  What it has still to meet, and a number     *)
(* that becomes smaller with every turn.                                   *)
Unmet(ids, w) == ids \ (Elems(w.ordered) \cup w.onStack)

JustStarted(ids, w) ==
    Len(w.stack) = 1 /\ ~ w.stack[1].expanded /\ w.stack[1].id \in Unmet(ids, w)

Left(ids, w) ==
    (Cardinality(ids) + 3) * Cardinality(Unmet(ids, w))
        + (IF JustStarted(ids, w) THEN -1 ELSE Len(w.stack))

(* Left is a number, and at nought the walk is over.                       *)
LEMMA LeftIs ==
    ASSUME NEW ids, IsFiniteSet(ids), NEW w \in Walks(ids)
    PROVE  /\ Left(ids, w) \in Nat
           /\ PathHeld(w) /\ Left(ids, w) = 0 => Stopped(ids, w)
<1>1. PICK u \in Nat : u = Cardinality(Unmet(ids, w)) /\ IsFiniteSet(Unmet(ids, w))
  BY FS_Difference, FS_CardinalityType DEF Unmet
<1>2. PICK c \in Nat : c = Cardinality(ids) + 3 /\ c >= 3
  BY FS_CardinalityType
<1>3. PICK F : F = [id : ids, expanded : BOOLEAN]
  OBVIOUS
<1>4. PICK s \in Seq(F) : s = w.stack
  BY <1>3 DEF Walks
<1>5. Len(s) \in Nat
  BY LenProperties
<1>6. CASE u = 0
  <2>1. Unmet(ids, w) = {}
    BY <1>1, <1>6, FS_EmptySet
  <2>2. c * u = 0
    BY <1>6
  <2>3. Left(ids, w) = Len(s)
    BY <1>1, <1>2, <1>4, <1>5, <2>1, <2>2 DEF Left, JustStarted
  <2>4. ASSUME PathHeld(w), Len(s) = 0 PROVE Stopped(ids, w)
    <3>1. w.stack = <<>>
      BY <1>4, <2>4, EmptySeq
    <3>2. w.onStack = {}
      BY <1>4, <2>4 DEF PathHeld
    <3>3. QED
      BY <2>1, <3>1, <3>2 DEF Stopped, Unmet
  <2>5. QED
    BY <1>5, <2>3, <2>4
<1>7. CASE u > 0
  <2>1. c * u \in Nat /\ c * u >= 3
    <3>1. PICK k \in Nat : u = k + 1
      BY <1>7
    <3>2. c * u = c * k + c /\ c * k \in Nat
      BY <3>1
    <3>3. QED
      BY <1>2, <3>2
  <2>2. PICK p \in Nat : p = c * u
    BY <2>1
  <2>3. Left(ids, w) = p + (IF JustStarted(ids, w) THEN -1 ELSE Len(s))
    BY <1>1, <1>2, <1>4, <2>2 DEF Left
  <2>4. CASE JustStarted(ids, w)
    <3>1. Left(ids, w) = p - 1
      BY <2>3, <2>4
    <3>2. QED
      BY <2>1, <2>2, <3>1
  <2>5. CASE ~ JustStarted(ids, w)
    <3>1. Left(ids, w) = p + Len(s)
      BY <2>3, <2>5
    <3>2. QED
      BY <1>5, <2>1, <2>2, <3>1
  <2>6. QED
    BY <2>4, <2>5
<1>8. QED
  BY <1>1, <1>6, <1>7

(* Appending adds one element.                                             *)
LEMMA AppendElems ==
    ASSUME NEW S, NEW l \in Seq(S), NEW x
    PROVE  Elems(Append(l, x)) = Elems(l) \cup {x}
<1>1. PICK T : T = S \cup {x}
  OBVIOUS
<1>2. l \in Seq(T) /\ x \in T
  BY <1>1
<1>3. PICK m \in Seq(T) : m = Append(l, x)
  <2>1. Append(l, x) \in Seq(T)
    BY <1>2, AppendProperties
  <2>2. QED
    BY <2>1
<1>4. /\ Len(m) = Len(l) + 1 /\ \A i \in 1..Len(l) : m[i] = l[i]
      /\ m[Len(l) + 1] = x
  BY <1>2, <1>3, AppendProperties
<1>5. Len(l) \in Nat /\ DOMAIN l = 1..Len(l) /\ DOMAIN m = 1..Len(m)
  BY LenProperties
<1>6. Elems(m) = Elems(l) \cup {x}
  BY <1>4, <1>5 DEF Elems
<1>7. QED
  BY <1>3, <1>6

(* Every turn but the last makes it smaller.                               *)
LEMMA LeftShrinks ==
    ASSUME NEW graph, NEW order, OrderOf(order), Distinct(order), NEW ids, ids \subseteq Elems(order),
           IsFiniteSet(ids), NEW w \in Walks(ids), WalkInv(graph, ids, w), ~ Stopped(ids, w),
           NEW v \in Walks(ids), v = WalkStep(graph, order, ids, w)
    PROVE  Stopped(ids, v) \/ Left(ids, v) < Left(ids, w)
<1>1. PICK c \in Nat : c = Cardinality(ids) + 3
  BY FS_CardinalityType
<1>2. PICK u \in Nat : u = Cardinality(Unmet(ids, w)) /\ IsFiniteSet(Unmet(ids, w))
  BY FS_Difference, FS_CardinalityType DEF Unmet
<1>3. PICK p \in Nat : p = c * u
  OBVIOUS
<1>4. Left(ids, w) = p + (IF JustStarted(ids, w) THEN -1 ELSE Len(w.stack))
  BY <1>1, <1>2, <1>3 DEF Left
<1>5. PICK m \in Nat : m = Len(v.stack)
  <2>1. PICK F : F = [id : ids, expanded : BOOLEAN]
    OBVIOUS
  <2>2. v.stack \in Seq(F)
    BY <2>1 DEF Walks
  <2>3. QED
    BY <2>2, LenProperties
<1>6. CASE Starts(ids, w, v)
  <2>1. Unmet(ids, v) = Unmet(ids, w)
    BY <1>6 DEF Starts, Unmet
  <2>2. w.onStack = {}
    BY <1>6 DEF Starts, WalkInv, PathHeld
  <2>3. JustStarted(ids, v) /\ ~ JustStarted(ids, w) /\ Len(w.stack) = 0
    BY <1>6, <2>1, <2>2 DEF Starts, JustStarted, Unmet
  <2>4. Left(ids, v) = p - 1
    BY <1>1, <1>2, <1>3, <2>1, <2>3 DEF Left
  <2>5. QED
    BY <1>4, <2>3, <2>4
<1>7. ASSUME NEW n \in Nat, Pops(w, v, n), Elems(v.ordered) = Elems(w.ordered) \cup {w.stack[n].id},
             ~ JustStarted(ids, w)
      PROVE  Left(ids, v) < Left(ids, w)
  <2>1. n = Len(w.stack) /\ n > 0 /\ m = n - 1 /\ v.onStack = w.onStack \ {w.stack[n].id}
    BY <1>5, <1>7 DEF Pops
  <2>2. Unmet(ids, v) \subseteq Unmet(ids, w)
    BY <1>7, <2>1 DEF Unmet
  <2>3. PICK q \in Nat : q = Cardinality(Unmet(ids, v)) /\ q <= u
    BY <1>2, <2>2, FS_Subset, FS_CardinalityType
  <2>4. c * q <= p /\ c * q \in Nat
    <3>1. PICK k \in Nat : k = u - q
      BY <2>3
    <3>2. c * u = c * q + c * k /\ c * k \in Nat /\ c * q \in Nat
      <4>1. u = q + k
        BY <3>1
      <4>2. QED
        BY <4>1
    <3>3. QED
      BY <1>3, <3>2
  <2>5. PICK z \in Nat : z = c * q
    BY <2>4
  <2>6. Left(ids, v) = z + (IF JustStarted(ids, v) THEN -1 ELSE m)
    BY <1>1, <1>5, <2>3, <2>5 DEF Left
  <2>7. Left(ids, w) = p + n
    BY <1>4, <1>7, <2>1
  <2>8. CASE JustStarted(ids, v)
    <3>1. Left(ids, v) = z - 1
      BY <2>6, <2>8
    <3>2. z <= p /\ n > 0
      BY <2>1, <2>4, <2>5
    <3>3. QED
      BY <2>7, <3>1, <3>2
  <2>9. CASE ~ JustStarted(ids, v)
    <3>1. Left(ids, v) = z + m
      BY <2>6, <2>9
    <3>2. z <= p /\ m = n - 1
      BY <2>1, <2>4, <2>5
    <3>3. QED
      BY <2>7, <3>1, <3>2
  <2>10. QED
    BY <2>8, <2>9
<1>8. ASSUME NEW n \in Nat, Skips(w, v, n) PROVE Left(ids, v) < Left(ids, w)
  <2>1. Pops(w, v, n) /\ Elems(v.ordered) = Elems(w.ordered) \cup {w.stack[n].id}
    BY <1>8 DEF Skips
  <2>2. ~ JustStarted(ids, w)
    BY <1>8 DEF Skips, Pops, JustStarted, Unmet
  <2>3. QED
    BY <1>7, <2>1, <2>2
<1>9. ASSUME NEW n \in Nat, Finishes(w, v, n) PROVE Left(ids, v) < Left(ids, w)
  <2>1. Pops(w, v, n) /\ ~ JustStarted(ids, w)
    BY <1>9 DEF Finishes, Pops, JustStarted
  <2>2. Elems(v.ordered) = Elems(w.ordered) \cup {w.stack[n].id}
    BY <1>9, AppendElems DEF Finishes, Walks
  <2>3. QED
    BY <1>7, <2>1, <2>2
<1>10. ASSUME NEW n \in Nat, Refuses(graph, ids, w, v, n) PROVE Stopped(ids, v)
  BY <1>10 DEF Refuses, Stopped
<1>11. ASSUME NEW n \in Nat, Expands(graph, ids, w, v, n) PROVE Left(ids, v) < Left(ids, w)
  <2> DEFINE top == w.stack[n].id
  <2>1. /\ n = Len(w.stack) /\ n > 0 /\ ~ w.stack[n].expanded /\ top \notin Elems(w.ordered)
        /\ m >= n /\ m <= n + Cardinality(ids) /\ v.ordered = w.ordered /\ v.onStack = w.onStack \cup {top}
        /\ v.stack[n].expanded
    BY <1>5, <1>11 DEF Expands, Unvisited
  <2>2. top \in ids
    <3>1. PICK F : F = [id : ids, expanded : BOOLEAN]
      OBVIOUS
    <3>2. w.stack \in Seq(F) /\ n \in 1..Len(w.stack)
      BY <2>1, <3>1 DEF Walks
    <3>3. w.stack[n] \in F
      BY <3>2, ElementOfSeq
    <3>4. QED
      BY <3>1, <3>3
  <2>3. top \notin w.onStack
    <3> SUFFICES ASSUME top \in w.onStack PROVE FALSE
      OBVIOUS
    <3>1. PICK i \in 1..n : w.stack[i].expanded /\ w.stack[i].id = top
      BY <2>1 DEF WalkInv, PathHeld
    <3>2. i < n /\ n \in 1..n
      BY <2>1, <3>1
    <3>3. QED
      BY <2>1, <3>1, <3>2 DEF WalkInv, OncePerPath
  <2>4. top \in Unmet(ids, w) /\ Unmet(ids, v) = Unmet(ids, w) \ {top}
    BY <2>1, <2>2, <2>3 DEF Unmet
  <2>5. u > 0 /\ Cardinality(Unmet(ids, v)) = u - 1
    <3>1. Cardinality(Unmet(ids, w) \ {top}) = Cardinality(Unmet(ids, w)) - 1
      BY <1>2, <2>4, FS_RemoveElement
    <3>2. u # 0
      BY <1>2, <2>4, FS_EmptySet
    <3>3. QED
      BY <1>2, <2>4, <3>1, <3>2
  <2>6. c * (u - 1) = p - c
    <3>1. PICK k \in Nat : u = k + 1
      BY <2>5
    <3>2. c * u = c * k + c /\ u - 1 = k
      BY <3>1
    <3>3. QED
      BY <1>3, <3>2
  <2>7. ~ JustStarted(ids, v)
    <3> SUFFICES ASSUME m = 1, ~ v.stack[1].expanded PROVE FALSE
      BY <1>5 DEF JustStarted
    <3>1. n = 1
      BY <2>1
    <3>2. QED
      BY <2>1, <3>1
  <2>8. Left(ids, v) = (p - c) + m
    BY <1>1, <1>5, <2>5, <2>6, <2>7 DEF Left
  <2>9. JustStarted(ids, w) => n = 1
    BY <2>1 DEF JustStarted
  <2>10. m <= n + (c - 3)
    <3>1. Cardinality(ids) \in Nat
      BY FS_CardinalityType
    <3>2. QED
      BY <1>1, <2>1, <3>1
  <2>11. CASE JustStarted(ids, w)
    <3>1. Left(ids, w) = p - 1 /\ n = 1
      BY <1>4, <2>9, <2>11
    <3>2. QED
      BY <2>8, <2>10, <3>1
  <2>12. CASE ~ JustStarted(ids, w)
    <3>1. Left(ids, w) = p + n
      BY <1>4, <2>1, <2>12
    <3>2. QED
      BY <2>8, <2>10, <3>1
  <2>13. QED
    BY <2>11, <2>12
<1>12. QED
  BY <1>6, <1>8, <1>9, <1>10, <1>11, TurnIs

(* topologicalOrder has turns enough: what it returns is a walk that is    *)
(* over, and the invariant holds of it.                                    *)
LEMMA OrderEnds ==
    ASSUME NEW graph, NEW order, OrderOf(order), Distinct(order), NEW ids, ids \subseteq Elems(order),
           IsFiniteSet(ids)
    PROVE  /\ topologicalOrder(graph, order, ids) \in Walks(ids)
           /\ WalkInv(graph, ids, topologicalOrder(graph, order, ids))
           /\ Stopped(ids, topologicalOrder(graph, order, ids))
<1>1. PICK g : /\ Turns(graph, order, ids, g) /\ \A n \in Nat : g[n] \in Walks(ids)
               /\ WalkFuel(ids) \in Nat /\ topologicalOrder(graph, order, ids) = g[WalkFuel(ids)]
  BY WalkRuns
<1>2. PICK fuel \in Nat : fuel = WalkFuel(ids)
  BY <1>1
<1> DEFINE Q == {n \in Nat : /\ WalkInv(graph, ids, g[n])
                             /\ Stopped(ids, g[n]) \/ Left(ids, g[n]) + n <= fuel}
<1>3. 0 \in Q
  <2>1. g[0] = WalkStart
    BY <1>1 DEF Turns
  <2>2. PICK w \in Walks(ids) : w = WalkStart /\ w = g[0]
    BY <1>1, <2>1
  <2>3. w.stack = <<>> /\ w.ordered = <<>> /\ w.onStack = {} /\ w.cycle = FALSE
    BY <2>2 DEF WalkStart
  <2>4. Len(w.stack) = 0 /\ Elems(w.ordered) = {} /\ DOMAIN w.ordered = {}
    BY <2>3, EmptySeq DEF Elems
  <2>5. WalkInv(graph, ids, w)
    <3>1. PathHeld(w) /\ OncePerPath(w) /\ FollowsPath(graph, ids, w) /\ ParentsPending(graph, ids, w)
      BY <2>3, <2>4 DEF PathHeld, OncePerPath, FollowsPath, ParentsPending
    <3>2. ParentsFirst(graph, ids, w.ordered)
      BY <2>4 DEF ParentsFirst, Distinct
    <3>3. QED
      BY <2>3, <3>1, <3>2 DEF WalkInv
  <2>6. Left(ids, w) <= fuel
    <3>1. PICK k \in Nat : k = Cardinality(ids)
      BY FS_CardinalityType
    <3>2. Unmet(ids, w) = ids
      BY <2>3, <2>4 DEF Unmet
    <3>3. Left(ids, w) = (k + 3) * k
      <4>1. (k + 3) * k \in Int
        OBVIOUS
      <4>2. ~ JustStarted(ids, w)
        BY <2>4 DEF JustStarted
      <4>3. QED
        BY <2>4, <3>1, <3>2, <4>1, <4>2 DEF Left
    <3>4. fuel = 3 * (k + 1) * (k + 1)
      BY <1>2, <3>1 DEF WalkFuel
    <3>5. PICK q \in Nat : q = k * k
      OBVIOUS
    <3>6. (k + 3) * k = q + 3 * k
      BY <3>5
    <3>7. 3 * (k + 1) * (k + 1) = 3 * q + 6 * k + 3
      BY <3>5
    <3>8. QED
      BY <3>3, <3>4, <3>6, <3>7
  <2>7. Left(ids, w) \in Nat
    BY LeftIs
  <2>8. QED
    BY <2>2, <2>5, <2>6, <2>7
<1>4. ASSUME NEW n \in Nat \ {0}, n - 1 \in Q PROVE n \in Q
  <2>1. n - 1 \in Nat /\ n \in Nat
    OBVIOUS
  <2>2. PICK w \in Walks(ids) : w = g[n - 1]
    BY <1>1, <2>1
  <2>3. PICK v \in Walks(ids) : v = g[n]
    BY <1>1, <2>1
  <2>4. v = WalkStep(graph, order, ids, w)
    BY <1>1, <2>1, <2>2, <2>3 DEF Turns
  <2>5. WalkInv(graph, ids, w) /\ (Stopped(ids, w) \/ Left(ids, w) + (n - 1) <= fuel)
    BY <1>4, <2>2
  <2>6. WalkInv(graph, ids, v)
    BY <2>4, <2>5, WalkInvStep
  <2>7. Stopped(ids, v) \/ Left(ids, v) + n <= fuel
    <3>1. CASE Stopped(ids, w)
      <4>1. v = w
        BY <2>4, <3>1 DEF Stopped, WalkStep
      <4>2. QED
        BY <3>1, <4>1
    <3>2. CASE ~ Stopped(ids, w)
      <4>1. Stopped(ids, v) \/ Left(ids, v) < Left(ids, w)
        BY <2>4, <2>5, <3>2, LeftShrinks
      <4>2. Left(ids, v) \in Nat /\ Left(ids, w) \in Nat
        BY LeftIs
      <4>3. QED
        BY <2>1, <2>5, <3>2, <4>1, <4>2
    <3>3. QED
      BY <3>1, <3>2
  <2>8. QED
    BY <2>1, <2>3, <2>6, <2>7
<1>5. Q = Nat
  <2> HIDE DEF Q
  <2>1. Q \in SUBSET Nat
    BY DEF Q
  <2>2. QED
    BY <1>3, <1>4, <2>1, Counting
<1>6. PICK w \in Walks(ids) : w = g[fuel] /\ w = topologicalOrder(graph, order, ids)
  BY <1>1, <1>2
<1>7. WalkInv(graph, ids, w) /\ (Stopped(ids, w) \/ Left(ids, w) + fuel <= fuel)
  <2>1. fuel \in Q
    BY <1>5
  <2>2. QED
    BY <1>6, <2>1
<1>8. Stopped(ids, w)
  <2> SUFFICES ASSUME Left(ids, w) + fuel <= fuel PROVE Stopped(ids, w)
    BY <1>7
  <2>1. Left(ids, w) \in Nat
    BY LeftIs
  <2>2. Left(ids, w) = 0
    BY <2>1
  <2>3. QED
    BY <1>7, <2>2, LeftIs DEF WalkInv
<1>9. QED
  BY <1>6, <1>7, <1>8

(* Where parents come first there is no cycle: of any set the one listed   *)
(* first has no parent in it.                                              *)
LEMMA ListedNotCyclic ==
    ASSUME NEW graph, NEW ids, NEW listed \in Seq(ids), Elems(listed) = ids,
           ParentsFirst(graph, ids, listed)
    PROVE  ~ Cyclic(graph, ids)
<1> SUFFICES ASSUME NEW X \in SUBSET ids, X # {}, \A x \in X : \E p \in Inner(graph, ids, x) : p \in X
             PROVE  FALSE
  BY DEF Cyclic
<1> DEFINE P == {i \in DOMAIN listed : listed[i] \in X}
<1>1. DOMAIN listed \subseteq Nat
  BY LenProperties
<1>2. P \in SUBSET Nat /\ P # {}
  BY <1>1 DEF Elems
<1>3. PICK i \in P : \A j \in P : i <= j
  <2> HIDE DEF P
  <2>1. QED
    BY <1>2, LeastNumber
<1>4. PICK p \in Inner(graph, ids, listed[i]) : p \in X
  OBVIOUS
<1>5. PICK j \in DOMAIN listed : j < i /\ listed[j] = p
  BY <1>4 DEF ParentsFirst
<1>6. j \in P /\ i \in Nat /\ j \in Nat
  BY <1>1, <1>4, <1>5
<1>7. i <= j
  BY <1>3, <1>6
<1>8. QED
  BY <1>5, <1>6, <1>7

-----------------------------------------------------------------------------
(* Without a cycle among some of the ids there is none, and the other way  *)
(* round.                                                                  *)
LEMMA CyclicIs ==
    ASSUME NEW graph, NEW ids
    PROVE  /\ ~ Cyclic(graph, ids) <=> Acyclic([id \in ids |-> ParentsIn(graph, id) \cap ids])
           /\ Acyclic(graph) /\ ids \subseteq DOMAIN graph => ~ Cyclic(graph, ids)
           /\ ~ Cyclic(graph, DOMAIN graph) => Acyclic(graph)
<1> DEFINE inner == [id \in ids |-> ParentsIn(graph, id) \cap ids]
<1>1. ~ Cyclic(graph, ids) <=> Acyclic(inner)
  <2>1. DOMAIN inner = ids /\ \A id \in ids : inner[id] = Inner(graph, ids, id)
    BY DEF Inner
  <2> HIDE DEF inner
  <2>2. QED
    BY <2>1 DEF Cyclic, Acyclic
<1>2. Acyclic(graph) /\ ids \subseteq DOMAIN graph => ~ Cyclic(graph, ids)
  BY DEF Cyclic, Acyclic, Inner, ParentsIn
<1>3. ~ Cyclic(graph, DOMAIN graph) => Acyclic(graph)
  BY DEF Cyclic, Acyclic, Inner, ParentsIn
<1>4. QED
  BY <1>1, <1>2, <1>3

(* topologicalOrder is right on every finite set of ids of every graph,    *)
(* whatever the order in which the code's iterations meet them: the cycle  *)
(* assertion fires exactly when there is a cycle, and otherwise every id   *)
(* is listed once and after its parents.                                   *)
THEOREM TopologicalOrderRight ==
    ASSUME NEW graph, NEW order, OrderOf(order), Distinct(order), NEW ids, ids \subseteq Elems(order),
           IsFiniteSet(ids)
    PROVE  ParentsComeFirst(graph, order, ids)
<1> DEFINE inner == [id \in ids |-> ParentsIn(graph, id) \cap ids]
<1>1. PICK w \in Walks(ids) :
         w = topologicalOrder(graph, order, ids) /\ WalkInv(graph, ids, w) /\ Stopped(ids, w)
  BY OrderEnds
<1>2. PICK l \in Seq(ids) : l = w.ordered
  BY DEF Walks
<1>3. w.cycle \in BOOLEAN /\ (w.cycle => Cyclic(graph, ids)) /\ ParentsFirst(graph, ids, l)
  BY <1>1, <1>2 DEF WalkInv, Walks
<1>4. DOMAIN l = 1..Len(l) /\ Len(l) \in Nat /\ \A i \in 1..Len(l) : l[i] \in ids
  BY LenProperties, ElementOfSeq
<1>5. ~ w.cycle => Elems(l) = ids
  BY <1>1, <1>2, <1>4 DEF Stopped, Elems
<1>6. w.cycle <=> ~ Acyclic(inner)
  <2>1. ~ w.cycle => ~ Cyclic(graph, ids)
    BY <1>3, <1>5, ListedNotCyclic
  <2>2. ~ Cyclic(graph, ids) <=> Acyclic(inner)
    BY CyclicIs
  <2>3. QED
    BY <1>3, <2>1, <2>2
<1>7. ASSUME ~ w.cycle PROVE Len(l) = Cardinality(ids)
  <2>1. l \in Bijection(1..Len(l), ids)
    <3>1. l \in [1..Len(l) -> ids]
      BY LenProperties
    <3>2. \A i, j \in 1..Len(l) : l[i] = l[j] => i = j
      BY <1>3, <1>4 DEF ParentsFirst, Distinct
    <3>3. \A x \in ids : \E i \in 1..Len(l) : l[i] = x
      BY <1>4, <1>5, <1>7 DEF Elems
    <3>4. QED
      BY <3>1, <3>2, <3>3 DEF Bijection, Injection, Surjection, IsInjective
  <2>2. IsFiniteSet(1..Len(l)) /\ Cardinality(1..Len(l)) = Len(l)
    <3>1. IsFiniteSet(1..Len(l)) /\ Cardinality(1..Len(l)) = IF 1 > Len(l) THEN 0 ELSE Len(l) - 1 + 1
      BY <1>4, FS_Interval
    <3>2. QED
      BY <1>4, <3>1
  <2>3. QED
    BY <2>1, <2>2, FS_Bijection DEF ExistsBijection
<1>8. ASSUME ~ w.cycle, NEW id \in ids, NEW p \in inner[id]
      PROVE  (CHOOSE i \in DOMAIN l : l[i] = p) < (CHOOSE i \in DOMAIN l : l[i] = id)
  <2>1. p \in Inner(graph, ids, id) /\ p \in ids
    BY <1>8 DEF Inner
  <2>2. (\E i \in DOMAIN l : l[i] = p) /\ \E i \in DOMAIN l : l[i] = id
    BY <1>5, <1>8, <2>1 DEF Elems
  <2>3. PICK i \in DOMAIN l : i = (CHOOSE k \in DOMAIN l : l[k] = id) /\ l[i] = id
    BY <2>2
  <2>4. PICK j \in DOMAIN l : j = (CHOOSE k \in DOMAIN l : l[k] = p) /\ l[j] = p
    BY <2>2
  <2>5. PICK m \in DOMAIN l : m < i /\ l[m] = p
    BY <1>3, <2>1, <2>3 DEF ParentsFirst
  <2>6. m = j
    BY <1>3, <2>4, <2>5 DEF ParentsFirst, Distinct
  <2>7. QED
    BY <2>3, <2>4, <2>5, <2>6
<1>9. QED
  <2> HIDE DEF inner
  <2>1. \A id \in ids : \A p \in inner[id] : ~ w.cycle =>
           (CHOOSE i \in DOMAIN l : l[i] = p) < (CHOOSE i \in DOMAIN l : l[i] = id)
    BY <1>8
  <2>2. QED
    BY <1>1, <1>2, <1>5, <1>6, <1>7, <2>1 DEF ParentsComeFirst, inner

(* What a device requests installs the peer's head: whenever the peer's    *)
(* acyclic summary defines all of the head's history, storing what         *)
(* missingRevisions lists, in its order, never stores a revision before    *)
(* one of its parents and leaves nothing of that history out.              *)
THEOREM RequestInstalls ==
    ASSUME NEW graph, IsFiniteSet(DOMAIN graph), Acyclic(graph),
           NEW order, OrderOf(order), Distinct(order), DOMAIN graph \subseteq Elems(order),
           NEW head, Ancestry(graph, head) \subseteq DOMAIN graph, NEW held
    PROVE  Installs(graph, order, head, held)
<1> DEFINE ids == wanted(graph, head, held)
<1>1. ancestorsOf(graph, head) = Ancestry(graph, head) /\ ParentClosed(graph, Ancestry(graph, head))
  BY AncestorsOfRight, AncestorsClosed
<1>2. ids = Ancestry(graph, head) \ held /\ ids \subseteq DOMAIN graph /\ IsFiniteSet(ids)
  <2>1. ids = Ancestry(graph, head) \ held /\ ids \subseteq DOMAIN graph
    BY <1>1 DEF wanted
  <2> HIDE DEF ids
  <2>2. QED
    BY <2>1, FS_Subset
<1> HIDE DEF ids
<1>3. PICK w \in Walks(ids) :
         w = topologicalOrder(graph, order, ids) /\ WalkInv(graph, ids, w) /\ Stopped(ids, w)
  BY <1>2, OrderEnds
<1>4. w = missingRevisions(graph, order, head, held)
  BY <1>3 DEF missingRevisions, ids
<1>5. PICK l \in Seq(ids) : l = w.ordered
  BY DEF Walks
<1>6. DOMAIN l = 1..Len(l) /\ Len(l) \in Nat /\ \A i \in 1..Len(l) : l[i] \in ids
  BY LenProperties, ElementOfSeq
<1>7. ~ w.cycle
  BY <1>2, <1>3, CyclicIs DEF WalkInv
<1>8. Elems(l) = ids /\ ParentsFirst(graph, ids, l)
  BY <1>3, <1>5, <1>6, <1>7 DEF WalkInv, Stopped, Elems
<1>9. ASSUME NEW i \in DOMAIN l, NEW p \in graph[l[i]]
      PROVE  p \in held \/ \E j \in 1..(i - 1) : l[j] = p
  <2>1. l[i] \in ids /\ l[i] \in Ancestry(graph, head) /\ l[i] \in DOMAIN graph
    BY <1>2, <1>6
  <2>2. p \in Ancestry(graph, head) /\ p \in ParentsIn(graph, l[i])
    BY <1>1, <2>1 DEF ParentClosed, ParentsIn
  <2>3. CASE p \in ids
    <3>1. PICK j \in DOMAIN l : j < i /\ l[j] = p
      BY <1>8, <2>2, <2>3 DEF ParentsFirst, Inner
    <3>2. j \in 1..(i - 1)
      BY <1>6, <3>1
    <3>3. QED
      BY <3>1, <3>2
  <2>4. QED
    BY <1>2, <2>2, <2>3
<1>10. \A i \in DOMAIN l : graph[l[i]] \subseteq held \cup {l[j] : j \in 1..(i - 1)}
  BY <1>9
<1>11. Ancestry(graph, head) \subseteq held \cup Elems(l) /\ Elems(l) \cap held = {}
  BY <1>2, <1>8
<1>12. QED
  BY <1>4, <1>5, <1>10, <1>11 DEF Installs

(* The graph of a summary defines the ids its nodes name.                  *)
LEMMA GraphOfSummary ==
    ASSUME NEW S, NEW nodes \in Seq(S)
    PROVE  /\ DOMAIN buildGraph(nodes) = {nodes[i].id : i \in 1..Len(nodes)}
           /\ IsFiniteSet(DOMAIN buildGraph(nodes))
           /\ Cardinality(DOMAIN buildGraph(nodes)) = Len(nodes)
                <=> \A i, j \in DOMAIN nodes : nodes[i].id = nodes[j].id => i = j
<1>1. DOMAIN nodes = 1..Len(nodes) /\ Len(nodes) \in Nat
  BY LenProperties
<1>2. PICK D : D = DOMAIN buildGraph(nodes)
  OBVIOUS
<1>3. D = {nodes[i].id : i \in 1..Len(nodes)}
  <2>1. D = {node.id : node \in Elems(nodes)}
    BY <1>2 DEF buildGraph
  <2>2. QED
    BY <1>1, <2>1 DEF Elems
<1>4. PICK f \in [1..Len(nodes) -> D] : \A i \in 1..Len(nodes) : f[i] = nodes[i].id
  <2>1. [i \in 1..Len(nodes) |-> nodes[i].id] \in [1..Len(nodes) -> D]
    BY <1>3
  <2>2. QED
    BY <2>1
<1>5. f \in Surjection(1..Len(nodes), D)
  BY <1>3, <1>4 DEF Surjection
<1>6. IsFiniteSet(1..Len(nodes)) /\ Cardinality(1..Len(nodes)) = Len(nodes)
  <2>1. /\ IsFiniteSet(1..Len(nodes))
        /\ Cardinality(1..Len(nodes)) = IF 1 > Len(nodes) THEN 0 ELSE Len(nodes) - 1 + 1
    BY <1>1, FS_Interval
  <2>2. QED
    BY <1>1, <2>1
<1>7. IsFiniteSet(D) /\ (Cardinality(D) = Len(nodes) <=> f \in Injection(1..Len(nodes), D))
  BY <1>5, <1>6, FS_Surjection
<1>8. f \in Injection(1..Len(nodes), D)
        <=> \A i, j \in DOMAIN nodes : nodes[i].id = nodes[j].id => i = j
  BY <1>1, <1>4 DEF Injection, IsInjective
<1>9. QED
  BY <1>2, <1>3, <1>7, <1>8

(* validateRemoteGraph accepts a summary exactly when it is sound: no      *)
(* revision twice, no cycle.                                               *)
THEOREM ValidationRight ==
    ASSUME NEW S, NEW nodes \in Seq(S), NEW order, OrderOf(order), Distinct(order),
           DOMAIN buildGraph(nodes) \subseteq Elems(order)
    PROVE  validateRemoteGraph(nodes, order) <=> SoundSummary(nodes)
<1>1. PICK graph : graph = buildGraph(nodes)
  OBVIOUS
<1>2. IsFiniteSet(DOMAIN graph)
  BY <1>1, GraphOfSummary
<1>3. PICK w \in Walks(DOMAIN graph) :
         w = topologicalOrder(graph, order, DOMAIN graph)
         /\ WalkInv(graph, DOMAIN graph, w) /\ Stopped(DOMAIN graph, w)
  BY <1>1, <1>2, OrderEnds
<1>4. w.cycle <=> Cyclic(graph, DOMAIN graph)
  <2>1. w.ordered \in Seq(DOMAIN graph) /\ w.cycle \in BOOLEAN
    BY DEF Walks
  <2>2. ASSUME ~ w.cycle PROVE ~ Cyclic(graph, DOMAIN graph)
    <3>1. PICK l \in Seq(DOMAIN graph) : l = w.ordered
      BY <2>1
    <3>2. DOMAIN l = 1..Len(l) /\ \A i \in 1..Len(l) : l[i] \in DOMAIN graph
      BY LenProperties, ElementOfSeq
    <3>3. Elems(l) = DOMAIN graph
      <4>1. DOMAIN graph \subseteq Elems(l)
        BY <1>3, <2>2, <3>1 DEF Stopped
      <4>2. Elems(l) \subseteq DOMAIN graph
        BY <3>2 DEF Elems
      <4>3. QED
        BY <4>1, <4>2
    <3>4. QED
      BY <1>3, <3>1, <3>3, ListedNotCyclic DEF WalkInv
  <2>3. QED
    BY <1>3, <2>1, <2>2 DEF WalkInv
<1>5. Acyclic(graph) <=> ~ Cyclic(graph, DOMAIN graph)
  BY CyclicIs
<1>6. Cardinality(DOMAIN graph) = Len(nodes)
        <=> \A i, j \in DOMAIN nodes : nodes[i].id = nodes[j].id => i = j
  BY <1>1, GraphOfSummary
<1>7. QED
  BY <1>1, <1>3, <1>4, <1>5, <1>6 DEF validateRemoteGraph, SoundSummary

-----------------------------------------------------------------------------
(* The summaries of module Summaries: all of the above, in every state.    *)

SummaryNodes == [id : SummaryIds, parentIds : SUBSET SummaryIds]

(* What announced can hold: nodes over the ids of the model.               *)
SummaryTyped == announced \in Seq(SummaryNodes)

(* It starts that way and stays that way.                                  *)
LEMMA SummariesTyped == SummarySpec => []SummaryTyped
<1>1. SummaryInit => SummaryTyped
  BY EmptySeq DEF SummaryInit, SummaryTyped
<1>2. SummaryTyped /\ [SummaryNext]_announced => SummaryTyped'
  <2> SUFFICES ASSUME SummaryTyped, [SummaryNext]_announced PROVE SummaryTyped'
    OBVIOUS
  <2>1. PICK N : N = SummaryNodes
    OBVIOUS
  <2>2. CASE UNCHANGED announced
    BY <2>2 DEF SummaryTyped
  <2>3. CASE SummaryNext
    <3>1. PICK id \in SummaryIds, parentIds \in SUBSET SummaryIds : Announce(id, parentIds)
      BY <2>3 DEF SummaryNext
    <3>2. PICK node \in SummaryNodes : node = [id |-> id, parentIds |-> parentIds]
      BY DEF SummaryNodes
    <3>3. announced' = Append(announced, node)
      BY <3>1, <3>2 DEF Announce
    <3>4. announced \in Seq(N) /\ node \in N
      BY <2>1, <3>2 DEF SummaryTyped
    <3>5. announced' \in Seq(N)
      BY <3>3, <3>4, AppendProperties
    <3>6. QED
      BY <2>1, <3>5 DEF SummaryTyped
  <2>4. QED
    BY <2>2, <2>3
<1>3. QED
  BY <1>1, <1>2, PTL DEF SummarySpec

(* The order of the model lists every id once.                             *)
LEMMA SummaryOrderIs ==
    OrderOf(SummaryOrder) /\ Distinct(SummaryOrder) /\ Elems(SummaryOrder) = SummaryIds
<1>1. MaxId \in Nat
  BY SummaryAssumption
<1>2. SummaryOrder \in Seq(SummaryIds) /\ Len(SummaryOrder) = MaxId
  BY <1>1 DEF SummaryOrder, SummaryIds
<1>3. DOMAIN SummaryOrder = 1..MaxId /\ \A i \in 1..MaxId : SummaryOrder[i] = i
  BY DEF SummaryOrder, SummaryIds
<1>4. QED
  BY <1>1, <1>2, <1>3 DEF OrderOf, Distinct, Elems, SummaryIds

(* The graph of a summary is finite and defines ids of the model.          *)
LEMMA AnnouncedGraphIs ==
    ASSUME SummaryTyped
    PROVE  /\ IsFiniteSet(DOMAIN announcedGraph)
           /\ DOMAIN announcedGraph \subseteq Elems(SummaryOrder)
           /\ Elems(SummaryOrder) = SummaryIds
<1>1. PICK N : N = SummaryNodes
  OBVIOUS
<1>2. PICK s \in Seq(N) : s = announced
  BY <1>1 DEF SummaryTyped
<1>3. \A i \in 1..Len(s) : s[i].id \in SummaryIds
  <2>1. \A i \in 1..Len(s) : s[i] \in N
    BY ElementOfSeq
  <2>2. QED
    BY <1>1, <2>1 DEF SummaryNodes
<1>4. DOMAIN buildGraph(s) = {s[i].id : i \in 1..Len(s)} /\ IsFiniteSet(DOMAIN buildGraph(s))
  BY GraphOfSummary
<1>5. QED
  BY <1>2, <1>3, <1>4, SummaryOrderIs DEF announcedGraph

(* On every summary of any size the ancestry questions of dag.ts are       *)
(* answered right: ancestors, best common ancestors, verdicts.             *)
THEOREM AncestryRightInSummaries == SummarySpec => []AncestryRight
<1>1. SummaryTyped => AncestryRight
  <2> SUFFICES ASSUME SummaryTyped PROVE AncestryRight
    OBVIOUS
  <2>1. IsFiniteSet(DOMAIN announcedGraph)
    BY AnnouncedGraphIs
  <2>2. SoundSummary(announced) => Acyclic(announcedGraph)
    BY DEF SoundSummary, announcedGraph
  <2>3. AncestorsExact(announcedGraph, SummaryIds)
    BY <2>1, AncestryRightAlways
  <2>4. Acyclic(announcedGraph) => /\ MergeBasesMaximal(announcedGraph, SummaryIds)
                                   /\ VerdictsAgree(announcedGraph, SummaryIds)
    BY <2>1, AncestryRightAlways
  <2>5. QED
    BY <2>2, <2>3, <2>4 DEF AncestryRight
<1>2. QED
  BY <1>1, SummariesTyped, PTL

(* Whatever summary a peer sends, of any size: it is refused exactly when  *)
(* it has a cycle or a duplicate, what is requested on its word can be     *)
(* served, and storing that in the order requested installs its head.      *)
THEOREM RequestsServableInSummaries == SummarySpec => []RequestsServable
<1>1. SummaryTyped => RequestsServable
  <2> SUFFICES ASSUME SummaryTyped PROVE RequestsServable
    OBVIOUS
  <2>1. PICK graph : graph = announcedGraph
    OBVIOUS
  <2>2. PICK order : order = SummaryOrder
    OBVIOUS
  <2>3. OrderOf(order) /\ Distinct(order) /\ Elems(order) = SummaryIds
    BY <2>2, SummaryOrderIs
  <2>4. IsFiniteSet(DOMAIN graph) /\ DOMAIN graph \subseteq Elems(order)
    BY <2>1, <2>2, AnnouncedGraphIs
  <2>5. SummaryAccepted
    <3>1. PICK N : N = SummaryNodes
      OBVIOUS
    <3>2. PICK s \in Seq(N) : s = announced
      BY <3>1 DEF SummaryTyped
    <3>3. DOMAIN buildGraph(s) \subseteq Elems(order)
      BY <2>1, <2>4, <3>2 DEF announcedGraph
    <3>4. validateRemoteGraph(s, order) <=> SoundSummary(s)
      BY <2>3, <3>3, ValidationRight
    <3>5. QED
      BY <2>2, <3>2, <3>4 DEF SummaryAccepted
  <2>6. OrderIsParentsFirst
    <3> SUFFICES ASSUME NEW ids \in SUBSET DOMAIN graph PROVE ParentsComeFirst(graph, order, ids)
      BY <2>1, <2>2 DEF OrderIsParentsFirst
    <3>1. ids \subseteq Elems(order) /\ IsFiniteSet(ids)
      BY <2>4, FS_Subset
    <3>2. QED
      BY <2>3, <3>1, TopologicalOrderRight
  <2>7. RequestsAnswerable
    <3> SUFFICES ASSUME NEW head \in SummaryIds, NEW held \in SUBSET SummaryIds
                 PROVE  Elems(missingRevisions(graph, order, head, held).ordered) \subseteq DOMAIN graph
      BY <2>1, <2>2 DEF RequestsAnswerable
    <3>1. PICK l : l = missingRevisions(graph, order, head, held).ordered
      OBVIOUS
    <3>2. PICK free : free = DOMAIN graph \ held
      OBVIOUS
    <3>3. l \in Seq(free)
      BY <2>3, <2>4, <3>1, <3>2, MissingWithin
    <3>4. DOMAIN l = 1..Len(l) /\ \A i \in 1..Len(l) : l[i] \in free
      BY <3>3, LenProperties, ElementOfSeq
    <3>5. QED
      BY <3>1, <3>2, <3>4 DEF Elems
  <2>8. RequestInstallsHead
    <3> SUFFICES ASSUME SoundSummary(announced), NEW head \in DOMAIN graph,
                        Ancestry(graph, head) \subseteq DOMAIN graph,
                        NEW held \in SUBSET DOMAIN graph
                 PROVE  Installs(graph, order, head, held)
      BY <2>1, <2>2 DEF RequestInstallsHead
    <3>1. Acyclic(graph)
      BY <2>1 DEF SoundSummary, announcedGraph
    <3>2. QED
      BY <2>3, <2>4, <3>1, RequestInstalls
  <2>9. QED
    BY <2>5, <2>6, <2>7, <2>8 DEF RequestsServable
<1>2. QED
  BY <1>1, SummariesTyped, PTL
===============================================================================
