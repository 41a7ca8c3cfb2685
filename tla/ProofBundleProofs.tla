-------------------------- MODULE ProofBundleProofs -------------------------
(***************************************************************************)
(* For any number of events, chains, calls and transactions: every         *)
(* transaction is accounted for once, whoever is told that something is    *)
(* anchored is told so of a transaction that carries it, and a verified    *)
(* record stays verified while no two passes overlap.                      *)
(***************************************************************************)
EXTENDS ProofBundle, FiniteSetTheorems, TraceLogProofs

LEMMA FirstIsIn ==
  ASSUME NEW S, S \subseteq Nat, S # {}
  PROVE  First(S) \in S
BY LeastExists DEF First

-----------------------------------------------------------------------------
(* A list of n hashes. *)
List(s, n) == n \in Nat /\ s = [i \in 1..n |-> s[i]]

LEMMA ListLength ==
  ASSUME NEW s, NEW n, List(s, n)
  PROVE  Len(s) = n /\ DOMAIN s = 1..n
<1>1. PICK S : S = {s[i] : i \in 1..n}
  OBVIOUS
<1>2. s \in [1..n -> S] /\ n \in Nat
  BY <1>1 DEF List
<1>3. s \in Seq(S)
  BY <1>2
<1> QED
  BY <1>2, <1>3

LEMMA SeqIsList ==
  ASSUME NEW S, NEW s \in Seq(S)
  PROVE  List(s, Len(s))
BY DEF List

Half(n) == (n + 1) \div 2

LEMMA Halves ==
  ASSUME NEW n \in Nat, n # 0
  PROVE  /\ Half(n) \in Nat /\ Half(n) # 0
         /\ n # 1 => Half(n) < n
         /\ n = 1 => Half(n) = 1
BY SMT DEF Half

LEMMA ParentsList ==
  ASSUME NEW s, NEW n, List(s, n), n # 0
  PROVE  List(Parents(s), Half(n))
<1>1. Len(s) = n /\ Half(n) \in Nat
  BY ListLength, Halves DEF List
<1>2. DOMAIN Parents(s) = 1..Half(n)
  BY <1>1 DEF Parents, Half
<1>3. Parents(s) = [i \in 1..Half(n) |-> Parents(s)[i]]
  BY <1>1, <1>2 DEF Parents, Half
<1> QED
  BY <1>1, <1>3 DEF List

(* Two lists of the same length have the same parents only if they are the *)
(* same.                                                                   *)
LEMMA ParentsTell ==
  ASSUME NEW s, NEW t, NEW n, List(s, n), List(t, n), Parents(s) = Parents(t)
  PROVE  s = t
<1>1. Len(s) = n /\ Len(t) = n /\ n \in Nat
  BY ListLength DEF List
<1>2. ASSUME NEW i \in 1..Half(n), n # 0
      PROVE  /\ Parents(s)[i] = Node(s[2 * i - 1], IF 2 * i <= n THEN s[2 * i] ELSE s[2 * i - 1])
             /\ Parents(t)[i] = Node(t[2 * i - 1], IF 2 * i <= n THEN t[2 * i] ELSE t[2 * i - 1])
  BY <1>1, <1>2 DEF Parents, Half
<1>3. ASSUME NEW i \in 1..Half(n), n # 0
      PROVE  s[2 * i - 1] = t[2 * i - 1] /\ (2 * i <= n => s[2 * i] = t[2 * i])
  BY <1>2, <1>3 DEF Node
<1>4. ASSUME NEW j \in 1..n PROVE s[j] = t[j]
  <2>1. n # 0
    BY <1>1
  <2>2. PICK i \in 1..Half(n) : j = 2 * i - 1 \/ (j = 2 * i /\ 2 * i <= n)
    <3>1. (j + 1) \div 2 \in 1..Half(n) /\ (j = 2 * ((j + 1) \div 2) - 1 \/ (j = 2 * ((j + 1) \div 2)))
      BY <1>1, SMT DEF Half
    <3> QED
      BY <3>1, <1>1
  <2> QED
    BY <1>3, <2>1, <2>2
<1> QED
  BY <1>4 DEF List

-----------------------------------------------------------------------------
(* The functions the tree is built and read with are defined by recursion: *)
(* the layers, the index on the way up, and the hash on the way up.        *)
Step(what, path, k, x) ==
    IF what = "layer" THEN Parents(x)
    ELSE IF what = "index" THEN x \div 2
    ELSE Climb(x, path[k])

Approx(f, what, path, first, n) ==
    f = [k \in 0..n |-> IF k = 0 THEN first ELSE Step(what, path, k, f[k - 1])]

LEMMA ApproxExists ==
  ASSUME NEW what, NEW path, NEW first, NEW n \in Nat
  PROVE  \E f : Approx(f, what, path, first, n)
<1> DEFINE T == {m \in Nat : ~ \E f : Approx(f, what, path, first, m)}
<1> SUFFICES ASSUME T # {} PROVE FALSE
  OBVIOUS
<1>1. PICK m \in T : \A y \in T : m <= y
  BY LeastExists
<1>2. CASE m = 0
  <2>1. PICK f : f = [k \in 0..0 |-> first]
    OBVIOUS
  <2>2. Approx(f, what, path, first, 0)
    BY <2>1 DEF Approx
  <2> QED
    BY <1>1, <1>2, <2>2
<1>3. CASE m # 0
  <2>1. m - 1 \in Nat /\ m - 1 \notin T
    BY <1>1, <1>3
  <2>2. PICK g : Approx(g, what, path, first, m - 1)
    BY <2>1
  <2>3. PICK f : f = [k \in 0..m |-> IF k = m THEN Step(what, path, m, g[m - 1]) ELSE g[k]]
    OBVIOUS
  <2>4. ASSUME NEW k \in 0..m PROVE f[k] = IF k = 0 THEN first ELSE Step(what, path, k, f[k - 1])
    <3>1. CASE k = m
      BY <1>1, <1>3, <2>3, <3>1
    <3>2. CASE k # m
      <4>1. k \in 0..(m - 1) /\ (k # 0 => k - 1 \in 0..m /\ k - 1 # m)
        BY <1>1, <3>2
      <4>2. g[k] = IF k = 0 THEN first ELSE Step(what, path, k, g[k - 1])
        BY <2>2, <4>1 DEF Approx
      <4> QED
        BY <2>3, <3>2, <4>1, <4>2
    <3> QED
      BY <3>1, <3>2
  <2>5. DOMAIN f = 0..m /\ f = [k \in 0..m |-> f[k]]
    BY <2>3
  <2>6. Approx(f, what, path, first, m)
    BY <2>4, <2>5 DEF Approx
  <2> QED
    BY <1>1, <2>6
<1> QED
  BY <1>2, <1>3

LEMMA ApproxAgree ==
  ASSUME NEW what, NEW path, NEW first, NEW n \in Nat, NEW m \in Nat, NEW f, NEW g,
         Approx(f, what, path, first, n), Approx(g, what, path, first, m), NEW k \in Nat, k <= n, k <= m
  PROVE  f[k] = g[k]
<1> DEFINE T == {j \in Nat : j <= n /\ j <= m /\ f[j] # g[j]}
<1> SUFFICES ASSUME T # {} PROVE FALSE
  OBVIOUS
<1>1. PICK j \in T : \A y \in T : j <= y
  BY LeastExists
<1>2. j \in 0..n /\ j \in 0..m
  BY <1>1
<1>3. /\ f[j] = IF j = 0 THEN first ELSE Step(what, path, j, f[j - 1])
      /\ g[j] = IF j = 0 THEN first ELSE Step(what, path, j, g[j - 1])
  BY <1>2 DEF Approx
<1>4. j # 0 => j - 1 \in Nat /\ j - 1 <= n /\ j - 1 <= m /\ j - 1 \notin T
  BY <1>1
<1> QED
  BY <1>1, <1>3, <1>4

Recurs(h, what, path, first) ==
    h = [k \in Nat |-> IF k = 0 THEN first ELSE Step(what, path, k, h[k - 1])]

LEMMA RecursionExists ==
  ASSUME NEW what, NEW path, NEW first
  PROVE  \E h : Recurs(h, what, path, first)
<1> DEFINE Stage(k) == CHOOSE f : Approx(f, what, path, first, k)
<1>1. PICK h : h = [k \in Nat |-> Stage(k)[k]]
  OBVIOUS
<1>2. ASSUME NEW k \in Nat PROVE Approx(Stage(k), what, path, first, k)
  BY ApproxExists
<1> HIDE DEF Stage
<1>3. ASSUME NEW k \in Nat PROVE h[k] = IF k = 0 THEN first ELSE Step(what, path, k, h[k - 1])
  <2>1. h[k] = IF k = 0 THEN first ELSE Step(what, path, k, Stage(k)[k - 1])
    <3>1. k \in 0..k
      OBVIOUS
    <3> QED
      BY <1>1, <1>2, <3>1 DEF Approx
  <2>2. CASE k # 0
    <3>1. k - 1 \in Nat /\ k - 1 <= k
      BY <2>2
    <3>2. Stage(k)[k - 1] = Stage(k - 1)[k - 1]
      BY <1>2, <3>1, ApproxAgree
    <3> QED
      BY <1>1, <2>1, <3>1, <3>2
  <2> QED
    BY <2>1, <2>2
<1> QED
  BY <1>1, <1>3 DEF Recurs

LEMMA LayersAre ==
  ASSUME NEW leaves
  PROVE  \A k \in Nat : Layers(leaves)[k] = IF k = 0 THEN leaves ELSE Parents(Layers(leaves)[k - 1])
<1>1. \E h : h = [k \in Nat |-> IF k = 0 THEN leaves ELSE Parents(h[k - 1])]
  <2>1. \A k, x : Step("layer", <<>>, k, x) = Parents(x)
    BY DEF Step
  <2>2. PICK h : Recurs(h, "layer", <<>>, leaves)
    BY RecursionExists
  <2> QED
    BY <2>1, <2>2 DEF Recurs
<1> DEFINE L == CHOOSE layer : layer = [k \in Nat |-> IF k = 0 THEN leaves ELSE Parents(layer[k - 1])]
<1>2. L = [k \in Nat |-> IF k = 0 THEN leaves ELSE Parents(L[k - 1])]
  BY <1>1
<1>3. Layers(leaves) = L
  BY DEF Layers
<1> HIDE DEF L
<1> QED
  BY <1>2, <1>3

(* How long each layer is, and that they get shorter until one hash is     *)
(* left.                                                                   *)
LEMMA LayersShrink ==
  ASSUME NEW leaves, NEW n, List(leaves, n), n # 0, NEW k \in Nat
  PROVE  \E m : /\ List(Layers(leaves)[k], m) /\ m # 0
                /\ m = 1 \/ m + k <= n
<1> DEFINE Fine(j) == \E m : List(Layers(leaves)[j], m) /\ m # 0 /\ (m = 1 \/ m + j <= n)
           T == {j \in Nat : ~ Fine(j)}
<1> SUFFICES ASSUME T # {} PROVE FALSE
  OBVIOUS
<1>1. PICK j \in T : \A y \in T : j <= y
  BY LeastExists
<1>2. CASE j = 0
  <2>1. Layers(leaves)[j] = leaves
    BY <1>1, <1>2, LayersAre
  <2>2. n + 0 <= n
    BY DEF List
  <2> QED
    BY <1>1, <1>2, <2>1, <2>2
<1>3. CASE j # 0
  <2>1. j - 1 \in Nat /\ j - 1 \notin T
    BY <1>1, <1>3
  <2>2. PICK m : List(Layers(leaves)[j - 1], m) /\ m # 0 /\ (m = 1 \/ m + (j - 1) <= n)
    BY <2>1
  <2>3. Layers(leaves)[j] = Parents(Layers(leaves)[j - 1])
    BY <1>1, <1>3, LayersAre
  <2>4. List(Layers(leaves)[j], Half(m))
    BY <2>2, <2>3, ParentsList
  <2>5. m \in Nat /\ n \in Nat
    BY <2>2 DEF List
  <2>6. Half(m) # 0 /\ (Half(m) = 1 \/ Half(m) + j <= n)
    <3>1. PICK h : h = Half(m)
      OBVIOUS
    <3>2. h \in Nat /\ h # 0 /\ (m # 1 => h < m) /\ (m = 1 => h = 1)
      BY <2>2, <2>5, <3>1, Halves
    <3>3. h = 1 \/ h + j <= n
      BY <1>1, <2>2, <2>5, <3>2
    <3> QED
      BY <3>1, <3>2, <3>3
  <2> QED
    BY <1>1, <2>4, <2>6
<1> QED
  BY <1>2, <1>3

LEMMA TopIs ==
  ASSUME NEW leaves, NEW n, List(leaves, n), n # 0
  PROVE  /\ Top(leaves) \in Nat /\ Len(Layers(leaves)[Top(leaves)]) = 1
         /\ \A j \in Nat : j < Top(leaves) => Len(Layers(leaves)[j]) > 1
<1> DEFINE L == Layers(leaves)
           Ends(k) == Len(L[k]) = 1 /\ \A j \in 0..(k - 1) : Len(L[j]) > 1
           T == {k \in Nat : Len(L[k]) = 1}
<1>1. n \in Nat /\ Len(leaves) = n
  BY ListLength DEF List
<1>2. n \in T
  <2>1. PICK m : List(L[n], m) /\ m # 0 /\ (m = 1 \/ m + n <= n)
    BY <1>1, LayersShrink
  <2>2. m \in Nat
    BY <2>1 DEF List
  <2>3. m = 1
    BY <1>1, <2>1, <2>2
  <2> QED
    BY <1>1, <2>1, <2>3, ListLength
<1>3. PICK k \in T : \A y \in T : k <= y
  BY <1>2, LeastExists
<1>4. k \in 0..n
  BY <1>1, <1>2, <1>3
<1>5. Ends(k)
  <2>1. ASSUME NEW j \in 0..(k - 1) PROVE Len(L[j]) > 1
    <3>1. j \in Nat /\ j \notin T
      BY <1>3, <1>4, <2>1
    <3>2. PICK m : List(L[j], m) /\ m # 0
      BY <3>1, LayersShrink
    <3>3. Len(L[j]) = m /\ m \in Nat
      BY <3>2, ListLength DEF List
    <3>4. m # 1
      BY <3>1, <3>3
    <3>5. m > 1
      BY <3>2, <3>3, <3>4
    <3> QED
      BY <3>3, <3>5
  <2> QED
    BY <1>3, <2>1
<1>6. Top(leaves) = CHOOSE i \in 0..n : Ends(i)
  BY <1>1 DEF Top
<1>7. Top(leaves) \in 0..n /\ Ends(Top(leaves))
  BY <1>4, <1>5, <1>6
<1>8. \A j \in Nat : j < Top(leaves) => j \in 0..(Top(leaves) - 1)
  BY <1>1, <1>7
<1> QED
  BY <1>1, <1>7, <1>8

(* Lists of the same length have layers of the same lengths ...            *)
LEMMA LayersAlike ==
  ASSUME NEW a, NEW b, NEW n, List(a, n), List(b, n), n # 0, NEW k \in Nat
  PROVE  \E m : List(Layers(a)[k], m) /\ List(Layers(b)[k], m)
<1> DEFINE T == {j \in Nat : ~ \E m : m # 0 /\ List(Layers(a)[j], m) /\ List(Layers(b)[j], m)}
<1> SUFFICES ASSUME T # {} PROVE FALSE
  OBVIOUS
<1>1. PICK j \in T : \A y \in T : j <= y
  BY LeastExists
<1>2. CASE j = 0
  BY <1>1, <1>2, LayersAre
<1>3. CASE j # 0
  <2>1. j - 1 \in Nat /\ j - 1 \notin T
    BY <1>1, <1>3
  <2>2. PICK m : m # 0 /\ List(Layers(a)[j - 1], m) /\ List(Layers(b)[j - 1], m)
    BY <2>1
  <2>3. /\ Layers(a)[j] = Parents(Layers(a)[j - 1])
        /\ Layers(b)[j] = Parents(Layers(b)[j - 1])
    BY <1>1, <1>3, LayersAre
  <2>4. List(Layers(a)[j], Half(m)) /\ List(Layers(b)[j], Half(m))
    BY <2>2, <2>3, ParentsList
  <2>5. Half(m) # 0
    BY <2>2, Halves DEF List
  <2> QED
    BY <1>1, <2>4, <2>5
<1> QED
  BY <1>2, <1>3

(* ... and the same root only if they are the same: the root of a trace    *)
(* commits to its events (MerkleTree.getRoot).                             *)
THEOREM RootTells ==
  ASSUME NEW a, NEW b, NEW n, List(a, n), List(b, n), n # 0, Root(a) = Root(b)
  PROVE  a = b
<1> DEFINE La == Layers(a)  Lb == Layers(b)
<1>1. \A k \in Nat : Len(La[k]) = Len(Lb[k])
  <2>1. ASSUME NEW k \in Nat PROVE Len(La[k]) = Len(Lb[k])
    <3>1. PICK m : List(La[k], m) /\ List(Lb[k], m)
      BY LayersAlike
    <3> QED
      BY <3>1, ListLength
  <2> QED
    BY <2>1
<1>2. PICK t : t = Top(a)
  OBVIOUS
<1>3. PICK u : u = Top(b)
  OBVIOUS
<1>4. /\ t \in Nat /\ Len(La[t]) = 1 /\ \A j \in Nat : j < t => Len(La[j]) > 1
      /\ u \in Nat /\ Len(Lb[u]) = 1 /\ \A j \in Nat : j < u => Len(Lb[j]) > 1
  BY <1>2, <1>3, TopIs
<1>5. t = u
  <2>1. ~(t < u)
    <3>1. t < u => 1 > 1
      BY <1>1, <1>4
    <3> QED
      BY <3>1
  <2>2. ~(u < t)
    <3>1. u < t => 1 > 1
      BY <1>1, <1>4
    <3> QED
      BY <3>1
  <2> QED
    BY <1>4, <2>1, <2>2
<1>6. La[t][1] = Lb[t][1]
  BY <1>2, <1>3, <1>5 DEF Root
<1>7. La[t] = Lb[t]
  <2>1. PICK m : List(La[t], m) /\ List(Lb[t], m)
    BY <1>4, LayersAlike
  <2>2. m = 1
    BY <1>4, <2>1, ListLength
  <2>3. PICK x, y : x = La[t] /\ y = Lb[t]
    OBVIOUS
  <2>4. x = [i \in 1..1 |-> x[i]] /\ y = [i \in 1..1 |-> y[i]] /\ x[1] = y[1]
    BY <1>6, <2>1, <2>2, <2>3 DEF List
  <2>5. \A i \in 1..1 : i = 1
    OBVIOUS
  <2>6. x = y
    BY <2>4, <2>5
  <2> QED
    BY <2>3, <2>6
<1> DEFINE T == {k \in Nat : La[k] = Lb[k]}
<1>8. PICK k \in T : \A y \in T : k <= y
  BY <1>4, <1>7, LeastExists
<1>9. k = 0
  <2>1. ASSUME k # 0 PROVE FALSE
    <3>1. k - 1 \in Nat /\ k - 1 \notin T
      BY <1>8, <2>1
    <3>2. La[k] = Parents(La[k - 1]) /\ Lb[k] = Parents(Lb[k - 1])
      BY <1>8, <2>1, LayersAre
    <3>3. PICK m : List(La[k - 1], m) /\ List(Lb[k - 1], m)
      BY <3>1, LayersAlike
    <3>4. La[k - 1] = Lb[k - 1]
      BY <1>8, <3>2, <3>3, ParentsTell
    <3> QED
      BY <3>1, <3>4
  <2> QED
    BY <2>1
<1> QED
  BY <1>8, <1>9, LayersAre

(* Lists of different hashes may have different lengths. *)
Distinct(s, n) == \A i, j \in 1..n : s[i] = s[j] => i = j

LEMMA ParentsAt ==
  ASSUME NEW s, NEW n, List(s, n), NEW i \in 1..Half(n), n # 0
  PROVE  Parents(s)[i] = Node(s[2 * i - 1], IF 2 * i <= n THEN s[2 * i] ELSE s[2 * i - 1])
BY ListLength DEF Parents, Half

LEMMA NodeTells ==
  ASSUME NEW l, NEW r, NEW m, NEW s, Node(l, r) = Node(m, s)
  PROVE  l = m /\ r = s
BY DEF Node

LEMMA ParentsDistinct ==
  ASSUME NEW s, NEW n, List(s, n), n # 0, Distinct(s, n)
  PROVE  Distinct(Parents(s), Half(n))
<1> SUFFICES ASSUME NEW i \in 1..Half(n), NEW j \in 1..Half(n), Parents(s)[i] = Parents(s)[j]
             PROVE  i = j
  BY DEF Distinct
<1>1. s[2 * i - 1] = s[2 * j - 1]
  BY ParentsAt, NodeTells
<1>2. 2 * i - 1 \in 1..n /\ 2 * j - 1 \in 1..n
  BY SMT DEF List, Half
<1>3. 2 * i - 1 = 2 * j - 1
  BY <1>1, <1>2 DEF Distinct
<1> QED
  BY <1>3

(* The last hash of an odd layer counts twice, and so it may not follow     *)
(* itself.                                                                  *)
LEMMA NotShorter ==
  ASSUME NEW s, NEW n, NEW t, NEW m, List(s, n), List(t, m), n # 0, m # 0, Distinct(t, m),
         Parents(s) = Parents(t), n < m
  PROVE  FALSE
<1>1. n \in Nat /\ m \in Nat
  BY DEF List
<1>2. Half(n) = Half(m)
  <2>1. Len(Parents(s)) = Half(n) /\ Len(Parents(t)) = Half(m)
    BY ParentsList, ListLength
  <2> QED
    BY <2>1
<1>3. PICK h : h = Half(n) /\ h \in 1..Half(n) /\ 2 * h - 1 = n /\ 2 * h = m
  <2>1. m = n + 1 /\ 2 * Half(n) = n + 1 /\ Half(n) \in 1..Half(n)
    BY <1>1, <1>2, SMT DEF Half
  <2> QED
    BY <1>1, <2>1
<1>4. Parents(s)[h] = Node(s[n], s[n])
  <2>1. ~(2 * h <= n)
    BY <1>1, <1>3
  <2> QED
    BY <1>3, <2>1, ParentsAt
<1>5. Parents(t)[h] = Node(t[n], t[m])
  <2>1. 2 * h <= m /\ h \in 1..Half(m)
    BY <1>1, <1>2, <1>3
  <2> QED
    BY <1>3, <2>1, ParentsAt
<1>6. t[n] = t[m]
  BY <1>4, <1>5, NodeTells
<1>7. n \in 1..m /\ m \in 1..m /\ n # m
  BY <1>1
<1> QED
  BY <1>6, <1>7 DEF Distinct

LEMMA DistinctParentsTell ==
  ASSUME NEW s, NEW n, NEW t, NEW m, List(s, n), List(t, m), n # 0, m # 0,
         Distinct(s, n), Distinct(t, m), Parents(s) = Parents(t)
  PROVE  s = t
<1>1. ~(n < m) /\ ~(m < n)
  BY NotShorter
<1>2. n = m
  BY <1>1 DEF List
<1> QED
  BY <1>2, ParentsTell

LEMMA LayersDistinct ==
  ASSUME NEW leaves, NEW n, List(leaves, n), n # 0, Distinct(leaves, n), NEW k \in Nat
  PROVE  \E m : m # 0 /\ List(Layers(leaves)[k], m) /\ Distinct(Layers(leaves)[k], m)
<1> DEFINE Fine(j) == \E m : m # 0 /\ List(Layers(leaves)[j], m) /\ Distinct(Layers(leaves)[j], m)
           T == {j \in Nat : ~ Fine(j)}
<1> SUFFICES ASSUME T # {} PROVE FALSE
  OBVIOUS
<1>1. PICK j \in T : \A y \in T : j <= y
  BY LeastExists
<1>2. CASE j = 0
  BY <1>1, <1>2, LayersAre
<1>3. CASE j # 0
  <2>1. j - 1 \in Nat /\ j - 1 \notin T
    BY <1>1, <1>3
  <2>2. PICK m : m # 0 /\ List(Layers(leaves)[j - 1], m) /\ Distinct(Layers(leaves)[j - 1], m)
    BY <2>1
  <2>3. Layers(leaves)[j] = Parents(Layers(leaves)[j - 1])
    BY <1>1, <1>3, LayersAre
  <2>4. List(Layers(leaves)[j], Half(m)) /\ Distinct(Layers(leaves)[j], Half(m))
    BY <2>2, <2>3, ParentsList, ParentsDistinct
  <2>5. Half(m) # 0
    BY <2>2, Halves DEF List
  <2> QED
    BY <1>1, <2>4, <2>5
<1> QED
  BY <1>2, <1>3

(* A layer above the leaves is made of nodes. *)
LEMMA FirstOfLayer ==
  ASSUME NEW leaves, NEW n, List(leaves, n), n # 0, NEW k \in Nat, k # 0
  PROVE  \E r : Layers(leaves)[k][1] = Node(Layers(leaves)[k - 1][1], r)
<1>1. k - 1 \in Nat
  OBVIOUS
<1>2. PICK m : List(Layers(leaves)[k - 1], m) /\ m # 0
  BY <1>1, LayersShrink
<1>3. Layers(leaves)[k] = Parents(Layers(leaves)[k - 1])
  BY LayersAre
<1>4. 1 \in 1..Half(m) /\ 2 * 1 - 1 = 1
  BY <1>2, Halves, SMT DEF List
<1> QED
  BY <1>2, <1>3, <1>4, ParentsAt

Leaf(x) == \E h : x = <<"event", h>>

(* Trees of different heights have different roots. *)
LEMMA NotHigher ==
  ASSUME NEW a, NEW n, NEW b, NEW m, List(a, n), List(b, m), n # 0, m # 0,
         Leaf(a[1]), Root(a) = Root(b), Top(a) < Top(b)
  PROVE  FALSE
<1> DEFINE La == Layers(a)  Lb == Layers(b)
<1>1. PICK t \in Nat, u \in Nat : t = Top(a) /\ u = Top(b) /\ t < u
  BY TopIs
<1>2. PICK d \in Nat : d = u - t /\ d # 0
  BY <1>1
<1> DEFINE T == {k \in Nat : La[k][1] = Lb[k + d][1]}
<1>3. t \in T
  <2>1. t + d = u
    BY <1>2
  <2> QED
    BY <1>1, <2>1 DEF Root
<1>4. PICK k \in T : \A y \in T : k <= y
  BY <1>3, LeastExists
<1>5. k = 0
  <2>1. ASSUME k # 0 PROVE FALSE
    <3>1. k - 1 \in Nat /\ k + d \in Nat /\ k + d # 0 /\ (k + d) - 1 = (k - 1) + d
      BY <2>1
    <3>2. PICK x : La[k][1] = Node(La[k - 1][1], x)
      BY <2>1, FirstOfLayer
    <3>3. PICK y : Lb[k + d][1] = Node(Lb[(k - 1) + d][1], y)
      BY <3>1, FirstOfLayer
    <3>4. La[k - 1][1] = Lb[(k - 1) + d][1]
      BY <1>4, <3>2, <3>3, NodeTells
    <3>5. k - 1 \in T
      BY <3>1, <3>4
    <3>6. k <= k - 1
      BY <1>4, <3>5
    <3> QED
      BY <3>6
  <2> QED
    BY <2>1
<1>6. PICK y : Lb[d][1] = Node(Lb[d - 1][1], y)
  BY <1>2, FirstOfLayer
<1>7. La[0] = a /\ 0 + d = d
  BY LayersAre
<1>8. a[1] = Node(Lb[d - 1][1], y)
  BY <1>4, <1>5, <1>6, <1>7
<1> QED
  BY <1>8 DEF Leaf, Node

(* Lists of different events, however long, have the same root only if     *)
(* they are the same.                                                      *)
THEOREM RootTellsAll ==
  ASSUME NEW a, NEW n, NEW b, NEW m, List(a, n), List(b, m), n # 0, m # 0,
         Distinct(a, n), Distinct(b, m), Leaf(a[1]), Leaf(b[1]), Root(a) = Root(b)
  PROVE  a = b
<1> DEFINE La == Layers(a)  Lb == Layers(b)
           T == {k \in Nat : La[k] = Lb[k]}
<1>1. Top(a) \in Nat /\ Top(b) \in Nat
  BY TopIs
<1>2. ~(Top(a) < Top(b)) /\ ~(Top(b) < Top(a))
  BY NotHigher
<1>3. PICK t \in Nat : t = Top(a) /\ t = Top(b)
  BY <1>1, <1>2
<1>4. La[t] = Lb[t]
  <2>1. Len(La[t]) = 1 /\ Len(Lb[t]) = 1 /\ La[t][1] = Lb[t][1]
    BY <1>3, TopIs DEF Root
  <2>2. PICK x, y, p, q : List(x, p) /\ List(y, q) /\ x = La[t] /\ y = Lb[t]
    BY LayersShrink
  <2>3. p = 1 /\ q = 1
    BY <2>1, <2>2, ListLength
  <2>4. x = [i \in 1..1 |-> x[i]] /\ y = [i \in 1..1 |-> y[i]] /\ x[1] = y[1]
    BY <2>1, <2>2, <2>3 DEF List
  <2>5. \A i \in 1..1 : i = 1
    OBVIOUS
  <2> QED
    BY <2>2, <2>4, <2>5
<1>5. PICK k \in T : \A y \in T : k <= y
  BY <1>4, LeastExists
<1>6. k = 0
  <2>1. ASSUME k # 0 PROVE FALSE
    <3>1. k - 1 \in Nat
      BY <2>1
    <3>2. La[k] = Parents(La[k - 1]) /\ Lb[k] = Parents(Lb[k - 1])
      BY <2>1, LayersAre
    <3>3. PICK p : p # 0 /\ List(La[k - 1], p) /\ Distinct(La[k - 1], p)
      BY <3>1, LayersDistinct
    <3>4. PICK q : q # 0 /\ List(Lb[k - 1], q) /\ Distinct(Lb[k - 1], q)
      BY <3>1, LayersDistinct
    <3>5. La[k - 1] = Lb[k - 1]
      BY <1>5, <3>2, <3>3, <3>4, DistinctParentsTell
    <3>6. k <= k - 1
      BY <1>5, <3>1, <3>5
    <3> QED
      BY <3>6
  <2> QED
    BY <2>1
<1> QED
  BY <1>5, <1>6, LayersAre

-----------------------------------------------------------------------------
(* Paths. *)
Indexes(index) == CHOOSE h : h = [k \in Nat |-> IF k = 0 THEN index ELSE h[k - 1] \div 2]

Hashes(leaf, path) == CHOOSE h : h = [k \in Nat |-> IF k = 0 THEN leaf ELSE Climb(h[k - 1], path[k])]

LEMMA IndexesAre ==
  ASSUME NEW index
  PROVE  \A k \in Nat : Indexes(index)[k] = IF k = 0 THEN index ELSE Indexes(index)[k - 1] \div 2
<1>1. \A k, x : Step("index", <<>>, k, x) = x \div 2
  BY DEF Step
<1>2. PICK h : Recurs(h, "index", <<>>, index)
  BY RecursionExists
<1>3. h = [k \in Nat |-> IF k = 0 THEN index ELSE h[k - 1] \div 2]
  BY <1>1, <1>2 DEF Recurs
<1>4. Indexes(index) = [k \in Nat |-> IF k = 0 THEN index ELSE Indexes(index)[k - 1] \div 2]
  BY <1>3 DEF Indexes
<1> QED
  BY <1>4

LEMMA HashesAre ==
  ASSUME NEW leaf, NEW path
  PROVE  \A k \in Nat : Hashes(leaf, path)[k] = IF k = 0 THEN leaf ELSE Climb(Hashes(leaf, path)[k - 1], path[k])
<1>1. \A k, x : Step("hash", path, k, x) = Climb(x, path[k])
  BY DEF Step
<1>2. PICK h : Recurs(h, "hash", path, leaf)
  BY RecursionExists
<1>3. h = [k \in Nat |-> IF k = 0 THEN leaf ELSE Climb(h[k - 1], path[k])]
  BY <1>1, <1>2 DEF Recurs
<1>4. Hashes(leaf, path) = [k \in Nat |-> IF k = 0 THEN leaf ELSE Climb(Hashes(leaf, path)[k - 1], path[k])]
  BY <1>3 DEF Hashes
<1> QED
  BY <1>4

LEMMA VerifyIs ==
  ASSUME NEW leaf, NEW path, NEW root
  PROVE  VerifyPath(leaf, path, root) <=> Hashes(leaf, path)[Len(path)] = root
BY DEF VerifyPath, Hashes

LEMMA ProofIs ==
  ASSUME NEW leaves, NEW n, List(leaves, n), n # 0, NEW index
  PROVE  /\ Len(GetProof(leaves, index)) = Top(leaves)
         /\ \A k \in 1..Top(leaves) :
              GetProof(leaves, index)[k] = Sibling(Layers(leaves)[k - 1], Indexes(index)[k - 1])
<1> DEFINE top == Top(leaves)
<1>1. PICK p : p = GetProof(leaves, index)
  OBVIOUS
<1>2. p = [k \in 1..top |-> Sibling(Layers(leaves)[k - 1], Indexes(index)[k - 1])]
  BY <1>1 DEF GetProof, Indexes
<1>3. top \in Nat
  BY TopIs
<1> HIDE DEF top
<1>4. List(p, top)
  BY <1>2, <1>3 DEF List
<1>5. Len(p) = top
  BY <1>4, ListLength
<1> QED
  BY <1>1, <1>2, <1>5 DEF top

(* One step up, from where a hash stands. *)
LEMMA ClimbsRight ==
  ASSUME NEW s, NEW n, List(s, n), n # 0, NEW x \in Nat, x < n
  PROVE  /\ x \div 2 \in Nat /\ x \div 2 < Half(n)
         /\ Climb(s[x + 1], Sibling(s, x)) = Parents(s)[(x \div 2) + 1]
<1>1. n \in Nat /\ Len(s) = n
  BY ListLength DEF List
<1>2. x \div 2 \in Nat /\ x \div 2 < Half(n) /\ (x \div 2) + 1 \in 1..Half(n)
  BY <1>1, SMT DEF Half
<1>3. PICK y \in Nat : y = x \div 2
  BY <1>2
<1>4. Parents(s)[y + 1] = Node(s[2 * (y + 1) - 1], IF 2 * (y + 1) <= n THEN s[2 * (y + 1)] ELSE s[2 * (y + 1) - 1])
  BY <1>2, <1>3, ParentsAt
<1>5. CASE x % 2 = 1
  <2>1. x = 2 * y + 1
    BY <1>3, <1>5, SMT
  <2>2. 2 * (y + 1) - 1 = x /\ 2 * (y + 1) = x + 1 /\ x + 1 <= n /\ x - 1 < n /\ (x - 1) + 1 = x
    BY <1>1, <2>1
  <2>3. Sibling(s, x) = [hash |-> s[x], position |-> "left"]
    BY <1>1, <1>5, <2>2 DEF Sibling
  <2>4. Climb(s[x + 1], Sibling(s, x)) = Node(s[x], s[x + 1])
    BY <2>3 DEF Climb
  <2> QED
    BY <1>2, <1>3, <1>4, <2>2, <2>4
<1>6. CASE x % 2 # 1
  <2>1. x = 2 * y
    BY <1>3, <1>6, SMT
  <2>2. 2 * (y + 1) - 1 = x + 1 /\ 2 * (y + 1) = (x + 1) + 1 /\ ((x + 1) + 1 <= n <=> x + 1 < n)
    BY <1>1, <2>1
  <2>3. Sibling(s, x) = [hash |-> IF x + 1 < n THEN s[(x + 1) + 1] ELSE s[x + 1], position |-> "right"]
    BY <1>1, <1>6 DEF Sibling
  <2>4. Climb(s[x + 1], Sibling(s, x)) = Node(s[x + 1], IF x + 1 < n THEN s[(x + 1) + 1] ELSE s[x + 1])
    BY <2>3 DEF Climb
  <2> QED
    BY <1>2, <1>3, <1>4, <2>2, <2>4
<1> QED
  BY <1>5, <1>6

LEMMA ClimbTells ==
  ASSUME NEW x, NEW y, NEW step, Climb(x, step) = Climb(y, step)
  PROVE  x = y
BY NodeTells DEF Climb

(* The path of an index leads its leaf to the root ... *)
LEMMA PathLeads ==
  ASSUME NEW leaves, NEW n, List(leaves, n), n # 0, NEW index \in 0..(n - 1),
         NEW leaf, leaf = leaves[index + 1], NEW path, path = GetProof(leaves, index)
  PROVE  VerifyPath(leaf, path, Root(leaves))
<1> DEFINE L == Layers(leaves)
           idx == Indexes(index)
           h == Hashes(leaf, path)
           top == Top(leaves)
           Leads(k) == /\ idx[k] \in Nat /\ h[k] = L[k][idx[k] + 1]
                       /\ \E m : m # 0 /\ List(L[k], m) /\ idx[k] < m
           T == {k \in Nat : k <= top /\ ~ Leads(k)}
<1>1. top \in Nat /\ Len(L[top]) = 1 /\ n \in Nat
  BY TopIs DEF List
<1>9. \A k \in Nat : idx[k] = IF k = 0 THEN index ELSE idx[k - 1] \div 2
  BY IndexesAre
<1>10. \A k \in Nat : h[k] = IF k = 0 THEN leaf ELSE Climb(h[k - 1], path[k])
  BY HashesAre
<1>11. \A k \in Nat : L[k] = IF k = 0 THEN leaves ELSE Parents(L[k - 1])
  BY LayersAre
<1>3. Len(path) = top /\ \A k \in 1..top : path[k] = Sibling(L[k - 1], idx[k - 1])
  BY ProofIs
<1> HIDE DEF L, idx, h, top
<1>4. ASSUME T # {} PROVE FALSE
  <2>1. PICK k \in T : \A y \in T : k <= y
    BY <1>4, LeastExists
  <2>2. CASE k = 0
    <3>1. idx[0] = index /\ h[0] = leaves[index + 1] /\ L[0] = leaves
      BY <1>9, <1>10, <1>11
    <3>2. index \in Nat /\ index < n
      BY <1>1
    <3>3. Leads(0)
      BY <3>1, <3>2
    <3> QED
      BY <2>1, <2>2, <3>3
  <2>3. CASE k # 0
    <3>1. k \in Nat /\ k <= top /\ ~ Leads(k) /\ k - 1 \in Nat /\ k - 1 <= top /\ k \in 1..top /\ ~(k <= k - 1)
      BY <1>1, <2>1, <2>3
    <3>2. Leads(k - 1)
      <4>1. k - 1 \notin T
        BY <2>1, <3>1
      <4> QED
        BY <3>1, <4>1
    <3>3. PICK m : m # 0 /\ List(L[k - 1], m) /\ idx[k - 1] < m
      BY <3>2
    <3>9. PICK s : s = L[k - 1]
      OBVIOUS
    <3>10. PICK x \in Nat : x = idx[k - 1]
      BY <3>2
    <3>4. s = L[k - 1] /\ x = idx[k - 1]
      BY <3>9, <3>10
    <3>5. /\ x \div 2 \in Nat /\ x \div 2 < Half(m)
          /\ Climb(s[x + 1], Sibling(s, x)) = Parents(s)[(x \div 2) + 1]
      BY <3>3, <3>4, ClimbsRight
    <3>6. idx[k] = x \div 2 /\ L[k] = Parents(s) /\ h[k] = Climb(s[x + 1], Sibling(s, x))
      BY <1>3, <1>9, <1>10, <1>11, <2>3, <3>1, <3>2, <3>4
    <3>7. List(Parents(s), Half(m)) /\ Half(m) # 0
      BY <3>3, <3>4, ParentsList, Halves DEF List
    <3>8. Leads(k)
      BY <3>5, <3>6, <3>7
    <3> QED
      BY <3>1, <3>8
  <2> QED
    BY <2>2, <2>3
<1>5. Leads(top)
  <2>1. top \notin T
    BY <1>4
  <2> QED
    BY <1>1, <2>1
<1>6. idx[top] = 0
  <2>1. PICK m : m # 0 /\ List(L[top], m) /\ idx[top] < m
    BY <1>5
  <2>2. m = 1
    BY <1>1, <2>1, ListLength
  <2> QED
    BY <1>5, <2>1, <2>2
<1>7. h[top] = L[top][1]
  BY <1>5, <1>6
<1>8. Root(leaves) = L[top][1]
  BY DEF Root, L, top
<1> QED
  BY <1>3, <1>7, <1>8, VerifyIs DEF h

(* ... and no other hash (MerkleTree.getProof, verify). *)
THEOREM PathTells ==
  ASSUME NEW leaves, NEW n, List(leaves, n), n # 0, NEW index \in 0..(n - 1), NEW leaf
  PROVE  VerifyPath(leaf, GetProof(leaves, index), Root(leaves)) <=> leaf = leaves[index + 1]
<1>1. PICK path : path = GetProof(leaves, index)
  OBVIOUS
<1>2. PICK own : own = leaves[index + 1]
  OBVIOUS
<1>3. VerifyPath(own, path, Root(leaves))
  BY <1>1, <1>2, PathLeads
<1>4. ASSUME VerifyPath(leaf, path, Root(leaves)) PROVE leaf = own
  <2> DEFINE g == Hashes(leaf, path)
             h == Hashes(own, path)
             T == {k \in Nat : g[k] = h[k]}
  <2>1. \A k \in Nat : g[k] = IF k = 0 THEN leaf ELSE Climb(g[k - 1], path[k])
    BY HashesAre
  <2>2. \A k \in Nat : h[k] = IF k = 0 THEN own ELSE Climb(h[k - 1], path[k])
    BY HashesAre
  <2>3. Len(path) \in Nat
    BY <1>1, ProofIs, TopIs
  <2>4. g[Len(path)] = h[Len(path)]
    BY <1>3, <1>4, VerifyIs
  <2> HIDE DEF g, h
  <2>5. PICK k \in T : \A y \in T : k <= y
    BY <2>3, <2>4, LeastExists
  <2>6. ASSUME k # 0 PROVE FALSE
    <3>1. k - 1 \in Nat /\ ~(k <= k - 1)
      BY <2>6
    <3>2. Climb(g[k - 1], path[k]) = Climb(h[k - 1], path[k])
      BY <2>1, <2>2, <2>5, <2>6
    <3>3. g[k - 1] = h[k - 1]
      BY <3>2, ClimbTells
    <3> QED
      BY <2>5, <3>1, <3>3
  <2> QED
    BY <2>1, <2>2, <2>5, <2>6
<1> QED
  BY <1>1, <1>2, <1>3, <1>4

-----------------------------------------------------------------------------
(* Sequences that grow. *)
Log(s) == \E S : s \in Seq(S)

LEMMA LogLength == ASSUME NEW s, Log(s) PROVE Len(s) \in Nat
BY DEF Log

LEMMA AppendLog ==
  ASSUME NEW s, NEW e, Log(s)
  PROVE  /\ Log(Append(s, e))
         /\ Len(Append(s, e)) = Len(s) + 1 /\ Append(s, e)[Len(s) + 1] = e
         /\ \A i \in 1..Len(s) : Append(s, e)[i] = s[i]
<1>1. PICK S : s \in Seq(S)
  BY DEF Log
<1>2. s \in Seq(S \cup {e}) /\ e \in S \cup {e}
  BY <1>1
<1>3. Append(s, e) \in Seq(S \cup {e})
  BY <1>2
<1> QED
  BY <1>2, <1>3 DEF Log

LEMMA ExceptLog ==
  ASSUME NEW s, NEW i \in 1..Len(s), NEW e, Log(s), NEW t, t = [s EXCEPT ![i] = e]
  PROVE  /\ Log(t) /\ Len(t) = Len(s) /\ t[i] = e
         /\ \A j \in 1..Len(s) \ {i} : t[j] = s[j]
<1>1. PICK S : s \in Seq(S)
  BY DEF Log
<1>2. s \in Seq(S \cup {e}) /\ e \in S \cup {e}
  BY <1>1
<1>3. t \in Seq(S \cup {e}) /\ Len(t) = Len(s)
  BY <1>2
<1> QED
  BY <1>2, <1>3 DEF Log

-----------------------------------------------------------------------------
(* What a call can be, and what it may claim. *)
Wait(op, hash, i, n) == [op |-> op, hash |-> hash, at |-> i, tx |-> n]

Asks(p, es, ch, n) == [op |-> "asks", bundle |-> p, events |-> es, on |-> ch, tx |-> n]

Anchorings == {"anchor", "all", "event"}

WaitProper(c) ==
    \E op \in Anchorings, i \in 1..Len(Chains), n \in 0..Len(tx) : \E hash :
        c = Wait(op, hash, i, n) /\ (n # 0 => Holds(n, Chains[i], hash))

AcceptsProper(c) ==
    \E p, es, ch : /\ c = Accepts(p, es, ch)
                   /\ ch # None => \E n \in 1..Len(tx) : Holds(n, ch, p.content.root)

ConfirmsProper(c) ==
    \E r : c = [op |-> "confirms", record |-> r] /\ Holds(r.tx, r.chain, r.hash)

Proper(c) ==
    \/ c = Idle
    \/ WaitProper(c) \/ AcceptsProper(c) \/ ConfirmsProper(c)
    \/ \E p, es, ch, n : c = Asks(p, es, ch, n)
    \/ \E r : c = [op |-> "checks", record |-> r]
    \/ \E i \in 1..Len(store) : c = [op |-> "pass", at |-> i]

LEMMA OpOf ==
  ASSUME NEW c, Proper(c)
  PROVE  /\ c.op \in Anchorings => WaitProper(c)
         /\ c.op = "asks" => \E p, es, ch, n : c = Asks(p, es, ch, n)
         /\ c.op = "checks" => \E r : c = [op |-> "checks", record |-> r]
         /\ c.op = "accepts" => AcceptsProper(c)
         /\ c.op = "confirms" => ConfirmsProper(c)
         /\ c.op = "pass" => \E i \in 1..Len(store) : c = [op |-> "pass", at |-> i]
<1>1. c = Idle => c.op = "idle"
  BY DEF Idle
<1>2. WaitProper(c) => c.op \in Anchorings
  BY DEF WaitProper, Wait
<1>3. AcceptsProper(c) => c.op = "accepts"
  BY DEF AcceptsProper, Accepts
<1>4. ConfirmsProper(c) => c.op = "confirms"
  BY DEF ConfirmsProper
<1>5. (\E p, es, ch, n : c = Asks(p, es, ch, n)) => c.op = "asks"
  BY DEF Asks
<1>6. (\E r : c = [op |-> "checks", record |-> r]) => c.op = "checks"
  OBVIOUS
<1>7. (\E i \in 1..Len(store) : c = [op |-> "pass", at |-> i]) => c.op = "pass"
  OBVIOUS
<1> QED
  BY <1>1, <1>2, <1>3, <1>4, <1>5, <1>6, <1>7 DEF Proper, Anchorings

CallsProper == DOMAIN call = Calls /\ \A k \in Calls : Proper(call[k])

Logs == Log(tx) /\ Log(records) /\ Log(collab) /\ Log(store)

Transactions == \A n \in 1..Len(tx) : tx[n] = [on |-> tx[n].on, data |-> tx[n].data]

RecordsHold == \A i \in 1..Len(records) : Holds(records[i].tx, records[i].chain, records[i].hash)

CollabRecorded == \A i \in 1..Len(collab) : \E j \in 1..Len(records) : collab[i].anchor = records[j]

Stored(r) ==
    /\ r = [tx |-> r.tx, root |-> r.root, verified |-> r.verified, from |-> r.from]
    /\ r.verified \in BOOLEAN

(* What a record that counts as verified stands on. *)
Founded(r) ==
    /\ r.verified /\ r.from = "reported" => Holds(r.tx, ScoreChain, r.root)
    /\ r.from = "own" => Carries(r.tx, r.root)

StoreHolds == \A i \in 1..Len(store) : Stored(store[i]) /\ Founded(store[i])

(* A transaction has a record, or waits for its answer, or lost it. *)
OneOf(n) ==
    \/ (\E i \in 1..Len(records) : RecordsOf(n) = {i}) /\ AwaitedBy(n) = {} /\ n \notin lost
    \/ RecordsOf(n) = {} /\ (\E k \in Calls : AwaitedBy(n) = {k}) /\ n \notin lost
    \/ RecordsOf(n) = {} /\ AwaitedBy(n) = {} /\ n \in lost

OnceEach == lost \subseteq 1..Len(tx) /\ \A n \in 1..Len(tx) : OneOf(n)

AInv == CallsProper /\ Logs /\ Transactions /\ RecordsHold /\ CollabRecorded /\ StoreHolds /\ OnceEach

Lengths == Len(tx) \in Nat /\ Len(records) \in Nat /\ Len(collab) \in Nat /\ Len(store) \in Nat /\ Len(Chains) \in Nat

LEMMA LengthsType == AInv => Lengths
BY LogLength, ChainAssumption DEF AInv, Logs, Lengths

(* Chains only grow, so what holds of them goes on to hold. *)
Grows == /\ Len(tx) <= Len(tx') /\ \A n \in 1..Len(tx) : tx'[n] = tx[n]
         /\ Len(store) <= Len(store')

LEMMA HoldsStays ==
  ASSUME Lengths, Lengths', Grows, NEW n, NEW on, NEW data, Holds(n, on, data)
  PROVE  Holds(n, on, data)'
BY DEF Holds, Grows, Lengths

LEMMA CarriesStays ==
  ASSUME Lengths, Lengths', Grows, NEW n, NEW data, Carries(n, data)
  PROVE  Carries(n, data)'
BY DEF Carries, Grows, Lengths

LEMMA ProperStays ==
  ASSUME Lengths, Lengths', Grows, NEW c, Proper(c)
  PROVE  Proper(c)'
<1>1. CASE c = Idle \/ (\E p, es, ch, n : c = Asks(p, es, ch, n)) \/ \E r : c = [op |-> "checks", record |-> r]
  BY <1>1 DEF Proper
<1>2. CASE \E i \in 1..Len(store) : c = [op |-> "pass", at |-> i]
  <2>1. PICK i \in 1..Len(store) : c = [op |-> "pass", at |-> i]
    BY <1>2
  <2>2. i \in 1..Len(store')
    BY DEF Grows, Lengths
  <2> QED
    BY <2>1, <2>2 DEF Proper
<1>3. CASE WaitProper(c)
  <2>1. PICK op, i, n, hash :
          /\ op \in Anchorings /\ i \in 1..Len(Chains) /\ n \in 0..Len(tx)
          /\ c = Wait(op, hash, i, n) /\ (n # 0 => Holds(n, Chains[i], hash))
    BY <1>3 DEF WaitProper
  <2>2. n \in 0..Len(tx') /\ (n # 0 => Holds(n, Chains[i], hash)')
    BY <2>1, HoldsStays DEF Grows, Lengths
  <2>3. WaitProper(c)'
    BY <2>1, <2>2 DEF WaitProper
  <2> QED
    BY <2>3 DEF Proper
<1>4. CASE AcceptsProper(c)
  <2>1. PICK p, es, ch : /\ c = Accepts(p, es, ch)
                         /\ ch # None => \E n \in 1..Len(tx) : Holds(n, ch, p.content.root)
    BY <1>4 DEF AcceptsProper
  <2>2. ASSUME NEW n \in 1..Len(tx), Holds(n, ch, p.content.root)
        PROVE  n \in 1..Len(tx') /\ Holds(n, ch, p.content.root)'
    BY <2>2, HoldsStays DEF Grows, Lengths
  <2>3. AcceptsProper(c)'
    BY <2>1, <2>2 DEF AcceptsProper
  <2> QED
    BY <2>3 DEF Proper
<1>5. CASE ConfirmsProper(c)
  <2>1. PICK r : c = [op |-> "confirms", record |-> r] /\ Holds(r.tx, r.chain, r.hash)
    BY <1>5 DEF ConfirmsProper
  <2>2. Holds(r.tx, r.chain, r.hash)'
    BY <2>1, HoldsStays
  <2>3. ConfirmsProper(c)'
    BY <2>1, <2>2 DEF ConfirmsProper
  <2> QED
    BY <2>3 DEF Proper
<1> QED
  BY <1>1, <1>2, <1>3, <1>4, <1>5 DEF Proper

LEMMA ProperOf ==
  ASSUME NEW l, NEW c, call'[l] = c, Proper(c)'
  PROVE  Proper(call[l])'
BY DEF Proper, WaitProper, AcceptsProper, ConfirmsProper, Holds

LEMMA CallsMove ==
  ASSUME CallsProper, Lengths, Lengths', Grows, NEW k \in Calls, NEW v,
         call' = [call EXCEPT ![k] = v], Proper(v)'
  PROVE  CallsProper'
<1>1. \A l \in Calls : call'[l] = IF l = k THEN v ELSE call[l]
  BY DEF CallsProper
<1>2. ASSUME NEW l \in Calls PROVE Proper(call[l])'
  <2>1. CASE l = k
    <3>1. call'[l] = v
      BY <1>1, <2>1
    <3> QED
      BY <3>1, ProperOf
  <2>2. CASE l # k
    <3>1. PICK c : c = call[l]
      OBVIOUS
    <3>2. Proper(c)'
      BY <3>1, ProperStays DEF CallsProper
    <3>3. call'[l] = c
      BY <1>1, <2>2, <3>1
    <3> QED
      BY <3>2, <3>3, ProperOf
  <2> QED
    BY <2>1, <2>2
<1>3. DOMAIN call' = Calls
  BY DEF CallsProper
<1> QED
  BY <1>2, <1>3 DEF CallsProper

(* Neither the old nor the new call has a transaction it waits for. *)
NoTx(c) == c.op \in Anchorings => c.tx = 0

LEMMA OnceStays ==
  ASSUME OnceEach, CallsProper, Lengths, NEW k \in Calls, NEW v,
         call' = [call EXCEPT ![k] = v], NoTx(call[k]), NoTx(v),
         UNCHANGED <<tx, records, lost>>
  PROVE  OnceEach'
<1>1. ASSUME NEW n \in 1..Len(tx) PROVE AwaitedBy(n)' = AwaitedBy(n)
  <2>1. n # 0
    BY DEF Lengths
  <2>2. \A l \in Calls : call'[l] = IF l = k THEN v ELSE call[l]
    BY DEF CallsProper
  <2> QED
    BY <2>1, <2>2 DEF AwaitedBy, Anchors, NoTx, Anchorings
<1>2. \A n \in 1..Len(tx) : RecordsOf(n)' = RecordsOf(n)
  BY DEF RecordsOf
<1>3. ASSUME NEW n \in 1..Len(tx) PROVE OneOf(n)'
  <2>1. OneOf(n)
    BY DEF OnceEach
  <2>2. AwaitedBy(n)' = AwaitedBy(n) /\ RecordsOf(n)' = RecordsOf(n)
    BY <1>1, <1>2
  <2> QED
    BY <2>1, <2>2 DEF OneOf
<1> QED
  BY <1>3 DEF OnceEach

(* The steps that do not touch the chain and what is recorded of it. *)
LEMMA CallOnly ==
  ASSUME AInv, NEW k \in Calls, NEW v, call' = [call EXCEPT ![k] = v],
         NoTx(call[k]), NoTx(v), Proper(v),
         UNCHANGED <<tx, records, collab, store, lost>>
  PROVE  AInv'
<1>1. Lengths /\ Lengths' /\ Grows
  BY LengthsType DEF Lengths, Grows
<1>2. Proper(v)'
  BY <1>1, ProperStays
<1>3. CallsProper'
  BY <1>1, <1>2, CallsMove DEF AInv
<1>4. OnceEach'
  BY <1>1, OnceStays DEF AInv
<1>5. Logs' /\ Transactions' /\ RecordsHold' /\ CollabRecorded'
  BY DEF AInv, Logs, Transactions, RecordsHold, CollabRecorded, Holds
<1>6. StoreHolds'
  BY DEF AInv, StoreHolds, Founded, Stored, Holds, Carries
<1> QED
  BY <1>3, <1>4, <1>5, <1>6 DEF AInv

LEMMA BeginKeeps ==
  ASSUME AInv, NEW k \in Calls, NEW c, Begin(k, c), NoTx(c), Proper(c)
  PROVE  AInv'
<1>1. call[k] = Idle /\ NoTx(Idle)
  BY DEF Begin, NoTx, Idle, Anchorings
<1> QED
  BY <1>1, CallOnly DEF Begin

LEMMA AnchoringProper ==
  ASSUME Lengths, NEW op \in Anchorings, NEW hash, NEW i \in 1..Len(Chains)
  PROVE  Proper(Anchoring(op, hash, i)) /\ NoTx(Anchoring(op, hash, i))
<1>1. Anchoring(op, hash, i) = Wait(op, hash, i, 0) /\ 0 \in 0..Len(tx)
  BY DEF Anchoring, Wait, Lengths
<1>2. WaitProper(Anchoring(op, hash, i))
  BY <1>1 DEF WaitProper
<1> QED
  BY <1>2 DEF Proper, NoTx, Anchoring

LEMMA AInvAnchorings ==
  ASSUME AInv, NEW k \in Calls, NEW b, NEW i \in 1..Len(Chains),
         Anchor(k, b, i) \/ AnchorAll(k, b) \/ AnchorEvent(k, i)
  PROVE  AInv'
<1>1. Lengths
  BY LengthsType
<1>2. 1 \in 1..Len(Chains)
  BY <1>1 DEF Lengths
<1>3. CASE Anchor(k, b, i)
  <2>1. PICK c : c = Anchoring("anchor", bundle[b].content.root, i)
    OBVIOUS
  <2>2. Begin(k, c) /\ Proper(c) /\ NoTx(c)
    BY <1>1, <1>3, <2>1, AnchoringProper DEF Anchor, Anchorings
  <2> QED
    BY <2>2, BeginKeeps
<1>4. CASE AnchorAll(k, b)
  <2>1. PICK c : c = Anchoring("all", bundle[b].content.root, 1)
    OBVIOUS
  <2>2. Begin(k, c) /\ Proper(c) /\ NoTx(c)
    BY <1>1, <1>2, <1>4, <2>1, AnchoringProper DEF AnchorAll, Anchorings
  <2> QED
    BY <2>2, BeginKeeps
<1>5. CASE AnchorEvent(k, i)
  <2>1. PICK d \in EventDigests : Begin(k, Anchoring("event", d, i))
    BY <1>5 DEF AnchorEvent
  <2>2. PICK c : c = Anchoring("event", d, i)
    OBVIOUS
  <2>3. Begin(k, c) /\ Proper(c) /\ NoTx(c)
    BY <1>1, <2>1, <2>2, AnchoringProper DEF Anchorings
  <2> QED
    BY <2>3, BeginKeeps
<1> QED
  BY <1>3, <1>4, <1>5

LEMMA AInvVerifying ==
  ASSUME AInv, NEW k \in Calls, NEW p, NEW es, NEW i,
         VerifyExecution(k, p, es) \/ VerifyAnchor(k, i) \/ VerifyAllRecords(k)
  PROVE  AInv'
<1>1. Lengths
  BY LengthsType
<1>2. CASE VerifyExecution(k, p, es)
  <2>1. CASE Begin(k, Accepts(p, es, None))
    <3>1. PICK c : c = Accepts(p, es, None)
      OBVIOUS
    <3>2. AcceptsProper(c)
      BY <3>1 DEF AcceptsProper
    <3>3. Begin(k, c) /\ Proper(c) /\ NoTx(c)
      BY <2>1, <3>1, <3>2 DEF Proper, NoTx, Accepts, Anchorings
    <3> QED
      BY <3>3, BeginKeeps
  <2>2. CASE \E ch \in ChainSet : \E n : Begin(k, Asks(p, es, ch, n))
    <3>1. PICK ch, n :
            /\ ch \in ChainSet
            /\ Begin(k, Asks(p, es, ch, n))
      BY <2>2
    <3>2. PICK c : c = Asks(p, es, ch, n)
      OBVIOUS
    <3>3. Begin(k, c) /\ Proper(c) /\ NoTx(c)
      BY <3>1, <3>2 DEF Proper, NoTx, Asks, Anchorings
    <3> QED
      BY <3>3, BeginKeeps
  <2> QED
    BY <1>2, <2>1, <2>2 DEF VerifyExecution, Asks
<1>3. CASE VerifyAnchor(k, i)
  <2>1. PICK c : c = [op |-> "checks", record |-> collab[i].anchor]
    OBVIOUS
  <2>2. Begin(k, c) /\ Proper(c) /\ NoTx(c)
    BY <1>3, <2>1 DEF VerifyAnchor, Proper, NoTx, Anchorings
  <2> QED
    BY <2>2, BeginKeeps
<1>4. CASE VerifyAllRecords(k)
  <2>1. PICK c : c = [op |-> "pass", at |-> First(Pending(0))]
    OBVIOUS
  <2>2. First(Pending(0)) \in 1..Len(store)
    <3>1. Pending(0) \subseteq 1..Len(store) /\ Pending(0) # {}
      BY <1>4 DEF VerifyAllRecords, Pending
    <3>2. Pending(0) \subseteq Nat
      BY <1>1, <3>1 DEF Lengths
    <3> QED
      BY <3>1, <3>2, FirstIsIn
  <2>3. Begin(k, c) /\ Proper(c) /\ NoTx(c)
    BY <1>4, <2>1, <2>2 DEF VerifyAllRecords, Proper, NoTx, Anchorings
  <2> QED
    BY <2>3, BeginKeeps
<1> QED
  BY <1>2, <1>3, <1>4

(* A chain says yes of what a transaction carries. *)
LEMMA SaysHolds ==
  ASSUME AInv, NEW ch, NEW hash, NEW n, NEW ok \in Answers(ch, hash, n), ok
  PROVE  Holds(n, ch, hash)
<1>1. Says(ch, hash, n)
  BY DEF Answers
<1> QED
  BY <1>1 DEF Says, Holds, AInv, Transactions

LEMMA AInvAnswers ==
  ASSUME AInv, NEW k \in Calls, ChainAnswers(k) \/ AnchorAnswers(k) \/ Return(k)
  PROVE  AInv'
<1>1. Proper(call[k]) /\ Proper(Idle) /\ NoTx(Idle)
  BY DEF AInv, CallsProper, Proper, NoTx, Idle, Anchorings
<1>2. NoTx(call[k])
  BY DEF ChainAnswers, AnchorAnswers, Return, NoTx, Anchorings
<1>3. UNCHANGED <<tx, records, collab, store, lost>>
  BY DEF ChainAnswers, AnchorAnswers, Return
<1>4. CASE call' = [call EXCEPT ![k] = Idle]
  BY <1>1, <1>2, <1>3, <1>4, CallOnly
<1>5. CASE ChainAnswers(k)
  <2>1. PICK p, es, ch, n : call[k] = Asks(p, es, ch, n)
    BY <1>1, <1>5, OpOf DEF ChainAnswers
  <2>2. /\ call[k].on = ch /\ call[k].bundle = p /\ call[k].events = es /\ call[k].tx = n
    BY <2>1 DEF Asks
  <2>3. PICK ok \in Answers(ch, p.content.root, n) :
           call' = [call EXCEPT ![k] = IF ok THEN Accepts(p, es, ch) ELSE Idle]
    BY <1>5, <2>2 DEF ChainAnswers
  <2>4. CASE ok
    <3>1. PICK v : v = Accepts(p, es, ch)
      OBVIOUS
    <3>2. Holds(n, ch, p.content.root) /\ n \in 1..Len(tx)
      BY <2>3, <2>4, SaysHolds DEF Holds
    <3>3. AcceptsProper(v)
      BY <3>1, <3>2 DEF AcceptsProper
    <3>4. Proper(v) /\ NoTx(v) /\ call' = [call EXCEPT ![k] = v]
      BY <2>3, <2>4, <3>1, <3>3 DEF Proper, NoTx, Accepts, Anchorings
    <3> QED
      BY <1>2, <1>3, <3>4, CallOnly
  <2>5. CASE ~ok
    BY <1>4, <2>3, <2>5
  <2> QED
    BY <2>4, <2>5
<1>6. CASE AnchorAnswers(k)
  <2>1. PICK r : call[k] = [op |-> "checks", record |-> r]
    BY <1>1, <1>6, OpOf DEF AnchorAnswers
  <2>2. call[k].record = r
    BY <2>1
  <2>3. PICK ok \in Answers(r.chain, r.hash, r.tx) :
           call' = [call EXCEPT ![k] = IF ok THEN [op |-> "confirms", record |-> r] ELSE Idle]
    BY <1>6, <2>2 DEF AnchorAnswers
  <2>4. CASE ok
    <3>1. PICK v : v = [op |-> "confirms", record |-> r]
      OBVIOUS
    <3>2. Holds(r.tx, r.chain, r.hash)
      BY <2>3, <2>4, SaysHolds
    <3>3. ConfirmsProper(v)
      BY <3>1, <3>2 DEF ConfirmsProper
    <3>4. Proper(v) /\ NoTx(v) /\ call' = [call EXCEPT ![k] = v]
      BY <2>3, <2>4, <3>1, <3>3 DEF Proper, NoTx, Anchorings
    <3> QED
      BY <1>2, <1>3, <3>4, CallOnly
  <2>5. CASE ~ok
    BY <1>4, <2>3, <2>5
  <2> QED
    BY <2>4, <2>5
<1> QED
  BY <1>4, <1>5, <1>6 DEF Return

-----------------------------------------------------------------------------
(* A call that waits for a transaction. *)
LEMMA WaitShape ==
  ASSUME AInv, NEW k \in Calls, Anchors(k)
  PROVE  /\ \E op \in Anchorings, i \in 1..Len(Chains), n \in 0..Len(tx) : \E hash :
               call[k] = Wait(op, hash, i, n) /\ (n # 0 => Holds(n, Chains[i], hash))
         /\ call[k].tx \in 0..Len(tx)
<1>1. Proper(call[k]) /\ call[k].op \in Anchorings
  BY DEF AInv, CallsProper, Anchors, Anchorings
<1>2. WaitProper(call[k])
  BY <1>1, OpOf
<1>3. PICK op, i, n, hash :
        /\ op \in Anchorings /\ i \in 1..Len(Chains) /\ n \in 0..Len(tx)
        /\ call[k] = Wait(op, hash, i, n) /\ (n # 0 => Holds(n, Chains[i], hash))
  BY <1>2 DEF WaitProper
<1>4. call[k].tx = n
  BY <1>3 DEF Wait
<1> QED
  BY <1>3, <1>4

LEMMA AInvLand ==
  ASSUME AInv, NEW k \in Calls, Land(k)
  PROVE  AInv'
<1>1. PICK op, i, hash :
        /\ op \in Anchorings /\ i \in 1..Len(Chains)
        /\ call[k] = Wait(op, hash, i, 0)
  <2>1. Anchors(k) /\ call[k].tx = 0
    BY DEF Land
  <2>2. PICK op, i, n, hash :
          /\ op \in Anchorings /\ i \in 1..Len(Chains) /\ n \in 0..Len(tx)
          /\ call[k] = Wait(op, hash, i, n)
    BY <2>1, WaitShape
  <2>3. n = 0
    BY <2>1, <2>2 DEF Wait
  <2> QED
    BY <2>2, <2>3
<1>2. PICK m : m = Len(tx) + 1
  OBVIOUS
<1>3. PICK e : e = [on |-> Chains[i], data |-> hash]
  OBVIOUS
<1>4. PICK v : v = Wait(op, hash, i, m)
  OBVIOUS
<1>5. /\ tx' = Append(tx, e) /\ call' = [call EXCEPT ![k] = v]
      /\ UNCHANGED <<records, collab, store, lost>>
  <2>1. call[k].at = i /\ call[k].hash = hash
    BY <1>1 DEF Wait
  <2>2. [call[k] EXCEPT !.tx = m] = v
    BY <1>1, <1>4 DEF Wait
  <2>3. call' = [call EXCEPT ![k] = [call[k] EXCEPT !.tx = m]]
    BY <1>2 DEF Land
  <2> QED
    BY <1>3, <2>1, <2>2, <2>3 DEF Land
<1>6. Lengths
  BY LengthsType
<1>7. /\ Log(tx') /\ Len(tx') = m /\ tx'[m] = e /\ \A n \in 1..Len(tx) : tx'[n] = tx[n]
  BY <1>2, <1>5, AppendLog DEF AInv, Logs
<1>8. Lengths' /\ Grows
  BY <1>2, <1>5, <1>6, <1>7 DEF Lengths, Grows
<1>9. m \in 1..Len(tx') /\ m \in 0..Len(tx') /\ m # 0 /\ \A n \in 1..Len(tx') : n \in 1..Len(tx) \/ n = m
  BY <1>2, <1>6, <1>7 DEF Lengths
<1>10. CallsProper'
  <2>1. Holds(m, Chains[i], hash)'
    BY <1>3, <1>7, <1>9 DEF Holds
  <2>2. WaitProper(v)'
    BY <1>1, <1>4, <1>9, <2>1 DEF WaitProper
  <2>3. Proper(v)'
    BY <2>2 DEF Proper
  <2> QED
    BY <1>5, <1>6, <1>8, <2>3, CallsMove DEF AInv
<1>11. Logs' /\ CollabRecorded'
  BY <1>5, <1>7 DEF AInv, Logs, CollabRecorded
<1>12. Transactions'
  BY <1>3, <1>7, <1>9 DEF AInv, Transactions
<1>13. RecordsHold'
  BY <1>5, <1>6, <1>8, HoldsStays DEF AInv, RecordsHold
<1>14. StoreHolds'
  BY <1>5, <1>6, <1>8, HoldsStays, CarriesStays DEF AInv, StoreHolds, Founded, Stored
<1>15. OnceEach'
  <2>1. \A l \in Calls : call'[l] = IF l = k THEN v ELSE call[l]
    BY <1>5 DEF AInv, CallsProper
  <2>2. v.op \in Anchorings /\ v.tx = m /\ call[k].tx = 0
    BY <1>1, <1>4 DEF Wait
  <2>3. ASSUME NEW n \in 1..Len(tx) PROVE OneOf(n)'
    <3>1. n # 0 /\ n # m
      BY <1>2, <1>6 DEF Lengths
    <3>2. AwaitedBy(n)' = AwaitedBy(n)
      BY <2>1, <2>2, <3>1 DEF AwaitedBy, Anchors, Anchorings
    <3>3. RecordsOf(n)' = RecordsOf(n) /\ OneOf(n)
      BY <1>5 DEF RecordsOf, AInv, OnceEach
    <3> QED
      BY <1>5, <3>2, <3>3 DEF OneOf
  <2>4. OneOf(m)'
    <3>1. ASSUME NEW l \in Calls, l # k, Anchors(l) PROVE call[l].tx # m
      <4>1. call[l].tx \in 0..Len(tx)
        BY <3>1, WaitShape
      <4> QED
        BY <1>2, <1>6, <4>1 DEF Lengths
    <3>2. AwaitedBy(m)' = {k}
      BY <2>1, <2>2, <3>1 DEF AwaitedBy, Anchors, Anchorings
    <3>3. \A j \in 1..Len(records) : records[j].tx # m
      <4>1. \A j \in 1..Len(records) : records[j].tx \in 1..Len(tx)
        BY DEF AInv, RecordsHold, Holds
      <4> QED
        BY <1>2, <1>6, <4>1 DEF Lengths
    <3>4. RecordsOf(m)' = {}
      BY <1>5, <3>3 DEF RecordsOf
    <3>5. m \notin lost
      BY <1>2, <1>6 DEF AInv, OnceEach, Lengths
    <3> QED
      BY <1>5, <3>2, <3>4, <3>5 DEF OneOf
  <2>5. lost' \subseteq 1..Len(tx')
    BY <1>5, <1>6, <1>8 DEF AInv, OnceEach, Lengths, Grows
  <2> QED
    BY <1>9, <2>3, <2>4, <2>5 DEF OnceEach
<1> QED
  BY <1>10, <1>11, <1>12, <1>13, <1>14, <1>15 DEF AInv

LEMMA OnwardShape ==
  ASSUME AInv, NEW k \in Calls, Anchors(k), Onward(k)
  PROVE  \E v : call' = [call EXCEPT ![k] = v] /\ Proper(v) /\ NoTx(v)
<1>1. PICK op, i, n, hash :
        /\ op \in Anchorings /\ i \in 1..Len(Chains) /\ n \in 0..Len(tx)
        /\ call[k] = Wait(op, hash, i, n)
  BY WaitShape
<1>2. Lengths
  BY LengthsType
<1>3. CASE op = "all" /\ i < Len(Chains)
  <2>1. PICK v : v = Anchoring("all", hash, i + 1)
    OBVIOUS
  <2>2. i + 1 \in 1..Len(Chains)
    BY <1>1, <1>2, <1>3 DEF Lengths
  <2>3. call' = [call EXCEPT ![k] = v]
    BY <1>1, <1>3, <2>1 DEF Onward, Wait
  <2>4. Proper(v) /\ NoTx(v)
    BY <1>2, <2>1, <2>2, AnchoringProper DEF Anchorings
  <2> QED
    BY <2>3, <2>4
<1>4. CASE ~(op = "all" /\ i < Len(Chains))
  <2>3. call[k].op = op /\ call[k].at = i
    BY <1>1 DEF Wait
  <2>4. ~(call[k].op = "all" /\ call[k].at < Len(Chains))
    BY <1>4, <2>3
  <2>1. call' = [call EXCEPT ![k] = Idle]
    BY <2>4 DEF Onward
  <2>2. Proper(Idle) /\ NoTx(Idle)
    BY DEF Proper, NoTx, Idle, Anchorings
  <2> QED
    BY <2>1, <2>2
<1> QED
  BY <1>3, <1>4

(* The transaction a call waited for is the only one it touches. *)
LEMMA OthersAwaited ==
  ASSUME AInv, NEW k \in Calls, NEW v, call' = [call EXCEPT ![k] = v], NoTx(v),
         NEW n \in 1..Len(tx)
  PROVE  /\ ~(Anchors(k) /\ call[k].tx = n) => AwaitedBy(n)' = AwaitedBy(n)
         /\ AwaitedBy(n) = {k} => AwaitedBy(n)' = {}
<1>1. n # 0
  BY LengthsType DEF Lengths
<1>2. \A l \in Calls : call'[l] = IF l = k THEN v ELSE call[l]
  BY DEF AInv, CallsProper
<1>3. k \notin AwaitedBy(n)'
  BY <1>1, <1>2 DEF AwaitedBy, Anchors, NoTx, Anchorings
<1>4. \A l \in Calls \ {k} : l \in AwaitedBy(n)' <=> l \in AwaitedBy(n)
  BY <1>2 DEF AwaitedBy, Anchors
<1>5. AwaitedBy(n) \subseteq Calls /\ AwaitedBy(n)' \subseteq Calls
  BY DEF AwaitedBy
<1>6. ~(Anchors(k) /\ call[k].tx = n) => k \notin AwaitedBy(n)
  BY DEF AwaitedBy
<1>7. PICK A, B : A = AwaitedBy(n) /\ B = AwaitedBy(n)'
  OBVIOUS
<1>8. k \notin B /\ A \subseteq Calls /\ B \subseteq Calls /\ \A l \in Calls \ {k} : l \in B <=> l \in A
  BY <1>3, <1>4, <1>5, <1>7
<1>9. k \notin A => B = A
  BY <1>8
<1>10. A = {k} => B = {}
  BY <1>8
<1> QED
  BY <1>6, <1>7, <1>9, <1>10

LEMMA AwaitedOnce ==
  ASSUME AInv, NEW k \in Calls, Anchors(k), call[k].tx # 0
  PROVE  /\ call[k].tx \in 1..Len(tx)
         /\ RecordsOf(call[k].tx) = {} /\ AwaitedBy(call[k].tx) = {k} /\ call[k].tx \notin lost
<1>1. call[k].tx \in 1..Len(tx)
  BY WaitShape, LengthsType DEF Lengths
<1>2. k \in AwaitedBy(call[k].tx)
  BY DEF AwaitedBy
<1>3. OneOf(call[k].tx)
  BY <1>1 DEF AInv, OnceEach
<1> QED
  BY <1>1, <1>2, <1>3 DEF OneOf

LEMMA AInvReceipt ==
  ASSUME AInv, NEW k \in Calls, Receipt(k)
  PROVE  AInv'
<1>1. PICK v : call' = [call EXCEPT ![k] = v] /\ Proper(v) /\ NoTx(v)
  BY OnwardShape DEF Receipt
<1>2. PICK m : m = call[k].tx
  OBVIOUS
<1>3. PICK r : r = RecordOf(call[k])
  OBVIOUS
<1>4. PICK last : last = Len(records) + 1
  OBVIOUS
<1>5. Lengths
  BY LengthsType
<1>6. /\ records' = Append(records, r) /\ UNCHANGED <<tx, store, lost>>
      /\ Anchors(k) /\ m # 0
      /\ \/ UNCHANGED collab
         \/ \E type : collab' = Append(collab, [type |-> type, anchor |-> r])
  BY <1>2, <1>3 DEF Receipt, Pushed
<1>7. /\ Log(records') /\ Len(records') = last /\ records'[last] = r
      /\ \A i \in 1..Len(records) : records'[i] = records[i]
  BY <1>4, <1>6, AppendLog DEF AInv, Logs
<1>8. last \in 1..Len(records') /\ \A i \in 1..Len(records') : i \in 1..Len(records) \/ i = last
  BY <1>4, <1>5, <1>7 DEF Lengths
<1>9. \A i \in 1..Len(records) : i \in 1..Len(records') /\ i # last
  BY <1>4, <1>5, <1>7 DEF Lengths
<1>10. r.tx = m /\ Holds(m, r.chain, r.hash)
  <2>1. PICK op, i, n, hash :
          /\ op \in Anchorings /\ i \in 1..Len(Chains) /\ n \in 0..Len(tx)
          /\ call[k] = Wait(op, hash, i, n) /\ (n # 0 => Holds(n, Chains[i], hash))
    BY <1>6, WaitShape
  <2>2. n = m /\ r = [hash |-> hash, tx |-> m, chain |-> Chains[i]]
    BY <1>2, <1>3, <2>1 DEF RecordOf, Wait
  <2> QED
    BY <1>6, <2>1, <2>2
<1>11. Log(collab')
  <2>1. ASSUME NEW type, collab' = Append(collab, [type |-> type, anchor |-> r]) PROVE Log(collab')
    BY <2>1, AppendLog DEF AInv, Logs
  <2> QED
    BY <1>6, <2>1 DEF AInv, Logs
<1>12. Logs'
  BY <1>6, <1>7, <1>11 DEF AInv, Logs
<1>13. Lengths' /\ Grows
  BY <1>5, <1>6, <1>12, LogLength DEF Lengths, Grows, Logs
<1>14. Proper(v)'
  BY <1>1, <1>5, <1>13, ProperStays
<1>15. CallsProper'
  BY <1>1, <1>5, <1>13, <1>14, CallsMove DEF AInv
<1>16. Transactions' /\ StoreHolds'
  BY <1>6 DEF AInv, Transactions, StoreHolds, Founded, Stored, Holds, Carries
<1>17. RecordsHold'
  BY <1>6, <1>7, <1>8, <1>10 DEF AInv, RecordsHold, Holds
<1>18. CollabRecorded'
  <2>1. ASSUME NEW i \in 1..Len(collab)
        PROVE  \E j \in 1..Len(records') : collab[i].anchor = records'[j]
    BY <1>7, <1>9 DEF AInv, CollabRecorded
  <2>2. CASE UNCHANGED collab
    BY <2>1, <2>2 DEF CollabRecorded
  <2>3. ASSUME NEW type, collab' = Append(collab, [type |-> type, anchor |-> r]) PROVE CollabRecorded'
    <3>1. PICK e : e = [type |-> type, anchor |-> r]
      OBVIOUS
    <3>2. /\ Len(collab') = Len(collab) + 1 /\ collab'[Len(collab) + 1] = e
          /\ \A i \in 1..Len(collab) : collab'[i] = collab[i]
      BY <2>3, <3>1, AppendLog DEF AInv, Logs
    <3>3. \A i \in 1..Len(collab') : i \in 1..Len(collab) \/ i = Len(collab) + 1
      BY <1>5, <3>2 DEF Lengths
    <3> QED
      BY <1>7, <1>8, <2>1, <3>1, <3>2, <3>3 DEF CollabRecorded
  <2> QED
    BY <1>6, <2>2, <2>3
<1>19. OnceEach'
  <2>1. ASSUME NEW n \in 1..Len(tx) PROVE OneOf(n)'
    <3>1. CASE n = m
      <4>1. RecordsOf(n) = {} /\ AwaitedBy(n) = {k} /\ n \notin lost
        BY <1>2, <1>6, <3>1, AwaitedOnce
      <4>2. AwaitedBy(n)' = {}
        BY <1>1, <4>1, OthersAwaited
      <4>3. \A i \in 1..Len(records) : records'[i].tx # n
        BY <1>7, <4>1 DEF RecordsOf
      <4>4. RecordsOf(n)' = {last}
        BY <1>7, <1>8, <1>10, <3>1, <4>3 DEF RecordsOf
      <4> QED
        BY <1>6, <1>8, <4>1, <4>2, <4>4 DEF OneOf
    <3>2. CASE n # m
      <4>1. AwaitedBy(n)' = AwaitedBy(n)
        BY <1>1, <1>2, <3>2, OthersAwaited
      <4>2. RecordsOf(n)' = RecordsOf(n)
        BY <1>7, <1>8, <1>9, <1>10, <3>2 DEF RecordsOf
      <4>3. OneOf(n)
        BY DEF AInv, OnceEach
      <4> QED
        BY <1>6, <1>9, <4>1, <4>2, <4>3 DEF OneOf
    <3> QED
      BY <3>1, <3>2
  <2> QED
    BY <1>6, <2>1 DEF AInv, OnceEach
<1> QED
  BY <1>12, <1>15, <1>16, <1>17, <1>18, <1>19 DEF AInv

LEMMA AInvFails ==
  ASSUME AInv, NEW k \in Calls, AnchorFails(k)
  PROVE  AInv'
<1>1. PICK v : call' = [call EXCEPT ![k] = v] /\ Proper(v) /\ NoTx(v)
  BY OnwardShape DEF AnchorFails
<1>2. CASE call[k].tx = 0
  <2>1. NoTx(call[k]) /\ UNCHANGED <<tx, records, collab, store, lost>>
    BY <1>2 DEF AnchorFails, NoTx
  <2> QED
    BY <1>1, <2>1, CallOnly
<1>3. CASE call[k].tx # 0
  <2>1. PICK m : m = call[k].tx
    OBVIOUS
  <2>2. /\ Anchors(k) /\ lost' = lost \cup {m} /\ UNCHANGED <<tx, records, collab, store>>
    BY <1>3, <2>1 DEF AnchorFails
  <2>3. m \in 1..Len(tx) /\ RecordsOf(m) = {} /\ AwaitedBy(m) = {k}
    BY <1>3, <2>1, <2>2, AwaitedOnce
  <2>4. Lengths /\ Lengths' /\ Grows
    BY <2>2, LengthsType DEF Lengths, Grows
  <2>5. CallsProper'
    BY <1>1, <2>4, ProperStays, CallsMove DEF AInv
  <2>6. Logs' /\ Transactions' /\ RecordsHold' /\ CollabRecorded'
    BY <2>2 DEF AInv, Logs, Transactions, RecordsHold, CollabRecorded, Holds
  <2>7. StoreHolds'
    BY <2>2 DEF AInv, StoreHolds, Founded, Stored, Holds, Carries
  <2>8. ASSUME NEW n \in 1..Len(tx) PROVE OneOf(n)'
    <3>1. RecordsOf(n)' = RecordsOf(n) /\ OneOf(n)
      BY <2>2 DEF RecordsOf, AInv, OnceEach
    <3>2. CASE n = m
      <4>1. AwaitedBy(n)' = {}
        BY <1>1, <2>3, <3>2, OthersAwaited
      <4> QED
        BY <2>2, <2>3, <3>1, <3>2, <4>1 DEF OneOf
    <3>3. CASE n # m
      <4>1. AwaitedBy(n)' = AwaitedBy(n)
        BY <1>1, <2>1, <3>3, OthersAwaited
      <4> QED
        BY <2>2, <3>1, <3>3, <4>1 DEF OneOf
    <3> QED
      BY <3>2, <3>3
  <2>9. OnceEach'
    BY <2>2, <2>3, <2>8 DEF AInv, OnceEach
  <2> QED
    BY <2>5, <2>6, <2>7, <2>9 DEF AInv
<1> QED
  BY <1>2, <1>3

(* A step of the pass over the proof records. *)
LEMMA PassShape ==
  ASSUME AInv, NEW k \in Calls, RecordAnswers(k)
  PROVE  \E i \in 1..Len(store) :
           /\ call[k] = [op |-> "pass", at |-> i]
           /\ \E ok \in Answers(ScoreChain, store[i].root, store[i].tx) :
                store' = [store EXCEPT ![i] = [tx |-> store[i].tx, root |-> store[i].root, verified |-> ok, from |-> store[i].from]]
           /\ \/ call' = [call EXCEPT ![k] = Idle]
              \/ \E j \in Pending(i) : call' = [call EXCEPT ![k] = [op |-> "pass", at |-> j]]
<1>1. Proper(call[k])
  BY DEF AInv, CallsProper
<1>2. PICK i \in 1..Len(store) : call[k] = [op |-> "pass", at |-> i]
  BY <1>1, OpOf DEF RecordAnswers
<1>3. call[k].at = i
  BY <1>2
<1>4. PICK ok \in Answers(ScoreChain, store[i].root, store[i].tx) :
         store' = [store EXCEPT ![i].verified = ok]
  BY <1>3 DEF RecordAnswers
<1>5. store' = [store EXCEPT ![i] = [tx |-> store[i].tx, root |-> store[i].root, verified |-> ok, from |-> store[i].from]]
  <2>1. Stored(store[i])
    BY DEF AInv, StoreHolds
  <2>2. [store[i] EXCEPT !.verified = ok] = [tx |-> store[i].tx, root |-> store[i].root, verified |-> ok, from |-> store[i].from]
    BY <2>1 DEF Stored
  <2>3. store' = [store EXCEPT ![i] = [store[i] EXCEPT !.verified = ok]]
    BY <1>4
  <2> QED
    BY <2>2, <2>3
<1>6. Pending(i) \subseteq Nat
  BY LengthsType DEF Pending, Lengths
<1>7. CASE Pending(i) = {}
  BY <1>2, <1>3, <1>4, <1>5, <1>7 DEF RecordAnswers
<1>8. CASE Pending(i) # {}
  <2>1. PICK j \in Pending(i) : j = First(Pending(i))
    BY <1>6, <1>8, FirstIsIn
  <2>2. call' = [call EXCEPT ![k] = [op |-> "pass", at |-> j]]
    BY <1>3, <1>8, <2>1 DEF RecordAnswers
  <2> QED
    BY <1>2, <1>4, <1>5, <2>2
<1> QED
  BY <1>7, <1>8

LEMMA AInvRecordAnswers ==
  ASSUME AInv, NEW k \in Calls, RecordAnswers(k)
  PROVE  AInv'
<1>1. PICK i \in 1..Len(store) :
         /\ call[k] = [op |-> "pass", at |-> i]
         /\ \E ok \in Answers(ScoreChain, store[i].root, store[i].tx) :
              store' = [store EXCEPT ![i] = [tx |-> store[i].tx, root |-> store[i].root, verified |-> ok, from |-> store[i].from]]
         /\ \/ call' = [call EXCEPT ![k] = Idle]
            \/ \E j \in Pending(i) : call' = [call EXCEPT ![k] = [op |-> "pass", at |-> j]]
  BY PassShape
<1>2. PICK ok \in Answers(ScoreChain, store[i].root, store[i].tx) :
         store' = [store EXCEPT ![i] = [tx |-> store[i].tx, root |-> store[i].root, verified |-> ok, from |-> store[i].from]]
  BY <1>1
<1>3. PICK e : e = [tx |-> store[i].tx, root |-> store[i].root, verified |-> ok, from |-> store[i].from]
  OBVIOUS
<1>4. /\ Log(store') /\ Len(store') = Len(store) /\ store'[i] = e
      /\ \A j \in 1..Len(store) \ {i} : store'[j] = store[j]
  <2>1. store' = [store EXCEPT ![i] = e] /\ Log(store)
    BY <1>2, <1>3 DEF AInv, Logs
  <2>2. PICK t : t = store'
    OBVIOUS
  <2>3. t = [store EXCEPT ![i] = e]
    BY <2>1, <2>2
  <2>4. /\ Log(t) /\ Len(t) = Len(store) /\ t[i] = e
        /\ \A j \in 1..Len(store) \ {i} : t[j] = store[j]
    <3>1. PICK S : store \in Seq(S)
      BY <2>1 DEF Log
    <3>2. store \in Seq(S \cup {e}) /\ e \in S \cup {e}
      BY <3>1
    <3>3. t \in Seq(S \cup {e}) /\ Len(t) = Len(store)
      BY <2>3, <3>2
    <3> QED
      BY <2>3, <3>2, <3>3 DEF Log
  <2> QED
    BY <2>2, <2>4
<1>5. UNCHANGED <<tx, records, collab, lost>>
  BY DEF RecordAnswers
<1>6. Lengths /\ Lengths' /\ Grows
  BY <1>4, <1>5, LengthsType DEF Lengths, Grows
<1>7. PICK v : call' = [call EXCEPT ![k] = v] /\ Proper(v) /\ NoTx(v)
  <2>1. Proper(Idle) /\ NoTx(Idle)
    BY DEF Proper, NoTx, Idle, Anchorings
  <2>2. ASSUME NEW j \in Pending(i)
        PROVE  Proper([op |-> "pass", at |-> j]) /\ NoTx([op |-> "pass", at |-> j])
    BY DEF Proper, NoTx, Pending, Anchorings
  <2> QED
    BY <1>1, <2>1, <2>2
<1>8. CallsProper'
  BY <1>6, <1>7, ProperStays, CallsMove DEF AInv
<1>9. NoTx(call[k])
  BY <1>1 DEF NoTx, Anchorings
<1>10. OnceEach'
  BY <1>5, <1>6, <1>7, <1>9, OnceStays DEF AInv
<1>11. Logs' /\ Transactions' /\ RecordsHold' /\ CollabRecorded'
  BY <1>4, <1>5 DEF AInv, Logs, Transactions, RecordsHold, CollabRecorded, Holds
<1>12. Stored(e) /\ Founded(e)
  <2>1. ok \in BOOLEAN
    BY DEF Answers, Says
  <2>2. e.tx = store[i].tx /\ e.root = store[i].root /\ e.verified = ok /\ e.from = store[i].from
    BY <1>3
  <2>3. Stored(e)
    BY <1>3, <2>1, <2>2 DEF Stored
  <2>4. ok => Holds(store[i].tx, ScoreChain, store[i].root)
    BY SaysHolds
  <2>5. Founded(store[i])
    BY DEF AInv, StoreHolds
  <2> QED
    BY <2>2, <2>3, <2>4, <2>5 DEF Founded
<1>13. StoreHolds'
  <2>1. ASSUME NEW j \in 1..Len(store)
        PROVE  Stored(store'[j]) /\ Founded(store'[j])
    <3>1. CASE j = i
      BY <1>4, <1>12, <3>1
    <3>2. CASE j # i
      BY <1>4, <3>2 DEF AInv, StoreHolds
    <3> QED
      BY <3>1, <3>2
  <2> QED
    BY <1>4, <1>5, <2>1 DEF StoreHolds, Founded, Stored, Holds, Carries
<1> QED
  BY <1>8, <1>10, <1>11, <1>13 DEF AInv

(* What happens while no call moves. *)
LEMMA AInvStill ==
  ASSUME AInv, UNCHANGED <<tx, records, collab, call, lost>>, Log(store'), Len(store) <= Len(store'), StoreHolds'
  PROVE  AInv'
<1>1. Lengths /\ Lengths' /\ Grows
  BY LengthsType, LogLength DEF Lengths, Grows
<1>2. CallsProper'
  <2>1. ASSUME NEW l \in Calls PROVE Proper(call[l])'
    <3>1. PICK c : c = call[l]
      OBVIOUS
    <3>2. Proper(c)'
      BY <1>1, <3>1, ProperStays DEF AInv, CallsProper
    <3> QED
      BY <3>1, <3>2, ProperOf
  <2> QED
    BY <2>1 DEF AInv, CallsProper
<1>3. Logs' /\ Transactions' /\ RecordsHold' /\ CollabRecorded'
  BY DEF AInv, Logs, Transactions, RecordsHold, CollabRecorded, Holds
<1>4. ASSUME NEW n \in 1..Len(tx) PROVE OneOf(n)'
  <2>1. RecordsOf(n)' = RecordsOf(n) /\ AwaitedBy(n)' = AwaitedBy(n) /\ OneOf(n)
    BY DEF RecordsOf, AwaitedBy, Anchors, AInv, OnceEach
  <2> QED
    BY <2>1 DEF OneOf
<1>5. OnceEach'
  BY <1>4 DEF AInv, OnceEach
<1> QED
  BY <1>2, <1>3, <1>5 DEF AInv

Adds == AddReported \/ AddOwn

Enters(n, root, flag, from) ==
    /\ AddProofRecord(n, root, flag, from) /\ flag \in BOOLEAN
    /\ from = "own" => Carries(n, root)
    /\ from = "reported" => ~flag

LEMMA AddedRecord ==
  ASSUME AInv, Adds
  PROVE  \E e : /\ Stored(e) /\ Founded(e)
                /\ Log(store') /\ Len(store') = Len(store) + 1 /\ store'[Len(store) + 1] = e
                /\ \A i \in 1..Len(store) : store'[i] = store[i]
<1>1. PICK n, root, flag, from : Enters(n, root, flag, from)
  <2>1. CASE AddReported
    <3>1. PICK n, root, flag :
             /\ flag \in BOOLEAN
             /\ AddProofRecord(n, root, flag, IF flag THEN "vouched" ELSE "reported")
      BY <2>1 DEF AddReported
    <3>2. CASE flag
      <4>1. Enters(n, root, flag, "vouched")
        BY <3>1, <3>2 DEF Enters
      <4> QED
        BY <4>1
    <3>3. CASE ~flag
      <4>1. Enters(n, root, flag, "reported")
        BY <3>1, <3>3 DEF Enters
      <4> QED
        BY <4>1
    <3> QED
      BY <3>2, <3>3
  <2>2. CASE AddOwn
    <3>1. PICK i \in 1..Len(records) : AddProofRecord(records[i].tx, records[i].hash, TRUE, "own")
      BY <2>2 DEF AddOwn
    <3>2. Holds(records[i].tx, records[i].chain, records[i].hash)
      BY DEF AInv, RecordsHold
    <3>3. Carries(records[i].tx, records[i].hash)
      BY <3>2 DEF Holds, Carries
    <3>4. Enters(records[i].tx, records[i].hash, TRUE, "own")
      BY <3>1, <3>3 DEF Enters
    <3> QED
      BY <3>4
  <2> QED
    BY <2>1, <2>2 DEF Adds
<1>2. PICK e : e = [tx |-> n, root |-> root, verified |-> flag, from |-> from]
  OBVIOUS
<1>3. Stored(e) /\ Founded(e)
  BY <1>1, <1>2 DEF Enters, Stored, Founded
<1>4. store' = Append(store, e) /\ Log(store)
  BY <1>1, <1>2 DEF Enters, AddProofRecord, AInv, Logs
<1> QED
  BY <1>3, <1>4, AppendLog

LEMMA AddUnchanged ==
  ASSUME Adds
  PROVE  UNCHANGED <<trace, bundle, tx, records, collab, call, begun, lost, overlapped>>
BY DEF Adds, AddReported, AddOwn, AddProofRecord

LEMMA AInvAdd ==
  ASSUME AInv, Adds
  PROVE  AInv'
<1>1. PICK e : /\ Stored(e) /\ Founded(e)
               /\ Log(store') /\ Len(store') = Len(store) + 1 /\ store'[Len(store) + 1] = e
               /\ \A i \in 1..Len(store) : store'[i] = store[i]
  BY AddedRecord
<1>2. PICK last : last = Len(store) + 1
  OBVIOUS
<1>3. Lengths
  BY LengthsType
<1>4. /\ \A i \in 1..Len(store') : i \in 1..Len(store) \/ i = last
      /\ Len(store) <= Len(store')
  BY <1>1, <1>2, <1>3 DEF Lengths
<1>5. Stored(store'[last]) /\ Founded(store'[last])
  BY <1>1, <1>2
<1>6. UNCHANGED <<tx, records, collab, call, lost>>
  BY AddUnchanged
<1>7. StoreHolds'
  BY <1>1, <1>4, <1>5, <1>6 DEF AInv, StoreHolds, Founded, Stored, Holds, Carries
<1> QED
  BY <1>1, <1>4, <1>6, <1>7, AInvStill

LEMMA AInvOwn ==
  ASSUME AInv, UNCHANGED <<tx, records, collab, store, call, lost>>
  PROVE  AInv'
<1>1. Log(store') /\ Len(store) <= Len(store') /\ StoreHolds'
  BY LengthsType DEF AInv, Logs, StoreHolds, Founded, Stored, Holds, Carries, Lengths
<1> QED
  BY <1>1, AInvStill

LEMMA AInvInit == Init => AInv
<1> SUFFICES ASSUME Init PROVE AInv
  OBVIOUS
<1>1. tx = <<>> /\ records = <<>> /\ collab = <<>> /\ store = <<>> /\ lost = {}
  BY DEF Init
<1>2. Logs /\ Len(tx) = 0 /\ Len(records) = 0 /\ Len(collab) = 0 /\ Len(store) = 0
  BY <1>1 DEF Logs, Log
<1>3. CallsProper
  BY DEF Init, CallsProper, Proper
<1>4. Transactions /\ RecordsHold /\ CollabRecorded /\ StoreHolds /\ OnceEach
  BY <1>1, <1>2 DEF Transactions, RecordsHold, CollabRecorded, StoreHolds, OnceEach
<1> QED
  BY <1>2, <1>3, <1>4 DEF AInv

LEMMA AInvNext == AInv /\ [Next]_vars => AInv'
<1> SUFFICES ASSUME AInv, [Next]_vars PROVE AInv'
  OBVIOUS
<1>1. CASE Record \/ Seal \/ (\E b \in Bundles : Generate(b)) \/ UNCHANGED vars
  BY <1>1, AInvOwn DEF Record, Seal, Generate, vars
<1>2. CASE Adds
  BY <1>2, AInvAdd
<1>3. ASSUME NEW k \in Calls, Land(k) \/ Receipt(k) \/ AnchorFails(k) \/ RecordAnswers(k)
      PROVE  AInv'
  BY <1>3, AInvLand, AInvReceipt, AInvFails, AInvRecordAnswers
<1>4. ASSUME NEW k \in Calls, ChainAnswers(k) \/ AnchorAnswers(k) \/ Return(k)
      PROVE  AInv'
  BY <1>4, AInvAnswers
<1>5. ASSUME NEW k \in Calls, NEW p, NEW es, NEW i,
             VerifyExecution(k, p, es) \/ VerifyAnchor(k, i) \/ VerifyAllRecords(k)
      PROVE  AInv'
  BY <1>5, AInvVerifying
<1>6. ASSUME NEW k \in Calls, NEW b, AnchorAll(k, b) PROVE AInv'
  <2>1. 1 \in 1..Len(Chains)
    BY <1>6, ChainAssumption DEF AnchorAll
  <2> QED
    BY <1>6, <2>1, AInvAnchorings
<1>7. ASSUME NEW k \in Calls, NEW b, NEW i \in 1..Len(Chains), AnchorEvent(k, i) \/ Anchor(k, b, i)
      PROVE  AInv'
  BY <1>7, AInvAnchorings
<1> QED
  BY <1>1, <1>2, <1>3, <1>4, <1>5, <1>6, <1>7 DEF Next, Adds

THEOREM AlwaysAInv == Spec => []AInv
BY AInvInit, AInvNext, PTL DEF Spec

-----------------------------------------------------------------------------
(* Every transaction of a chain is accounted for once - by a record, by a  *)
(* call that waits, or as lost - and records say what is on the chain      *)
(* (AnchorManager.anchor, anchorAll, CollaborationAnchor).                 *)
THEOREM TransactionsAccounted == Spec => []Accounted
<1>1. AInv => Accounted
  <2> SUFFICES ASSUME AInv PROVE Accounted
    OBVIOUS
  <2>1. ASSUME NEW n \in 1..Len(tx)
        PROVE  Cardinality(RecordsOf(n)) + Cardinality(AwaitedBy(n)) + (IF n \in lost THEN 1 ELSE 0) = 1
    <3>1. OneOf(n)
      BY DEF AInv, OnceEach
    <3>2. Cardinality({}) = 0
      BY FS_EmptySet
    <3>3. \A x : Cardinality({x}) = 1
      BY FS_Singleton
    <3>4. PICK R, A : R = Cardinality(RecordsOf(n)) /\ A = Cardinality(AwaitedBy(n))
      OBVIOUS
    <3>5. \/ R = 1 /\ A = 0 /\ n \notin lost
          \/ R = 0 /\ A = 1 /\ n \notin lost
          \/ R = 0 /\ A = 0 /\ n \in lost
      <4>1. CASE (\E i \in 1..Len(records) : RecordsOf(n) = {i}) /\ AwaitedBy(n) = {} /\ n \notin lost
        BY <3>2, <3>3, <3>4, <4>1
      <4>2. CASE RecordsOf(n) = {} /\ (\E k \in Calls : AwaitedBy(n) = {k}) /\ n \notin lost
        BY <3>2, <3>3, <3>4, <4>2
      <4>3. CASE RecordsOf(n) = {} /\ AwaitedBy(n) = {} /\ n \in lost
        BY <3>2, <3>4, <4>3
      <4> QED
        BY <3>1, <4>1, <4>2, <4>3 DEF OneOf
    <3>6. R + A + (IF n \in lost THEN 1 ELSE 0) = 1
      BY <3>5
    <3> QED
      BY <3>4, <3>6
  <2> QED
    BY <2>1 DEF Accounted, AInv, RecordsHold, CollabRecorded
<1> QED
  BY <1>1, AlwaysAInv, PTL

(* Whoever is told that something is anchored is told so of a transaction  *)
(* on that chain that carries that very hash, and a proof record that      *)
(* counts as verified has such a transaction on the chain of scores, or    *)
(* was vouched for by the caller that entered it, or is the program's own  *)
(* and its transaction carries its root (verifyExecution, verifyAnchor,    *)
(* addProofRecord, verifyProofRecord).                                     *)
THEOREM ClaimsHold == Spec => []AnchoredAsClaimed
<1>1. AInv => AnchoredAsClaimed
  <2> SUFFICES ASSUME AInv PROVE AnchoredAsClaimed
    OBVIOUS
  <2>1. ASSUME NEW k \in Calls, call[k].op = "accepts", call[k].on # None
        PROVE  \E n \in 1..Len(tx) : Holds(n, call[k].on, call[k].bundle.content.root)
    <3>1. AcceptsProper(call[k])
      BY <2>1, OpOf DEF AInv, CallsProper
    <3>2. PICK p, es, ch : /\ call[k] = Accepts(p, es, ch)
                           /\ ch # None => \E n \in 1..Len(tx) : Holds(n, ch, p.content.root)
      BY <3>1 DEF AcceptsProper
    <3>3. call[k].on = ch /\ call[k].bundle = p
      BY <3>2 DEF Accepts
    <3> QED
      BY <2>1, <3>2, <3>3
  <2>2. ASSUME NEW k \in Calls, call[k].op = "confirms"
        PROVE  Holds(call[k].record.tx, call[k].record.chain, call[k].record.hash)
    <3>1. ConfirmsProper(call[k])
      BY <2>2, OpOf DEF AInv, CallsProper
    <3>2. PICK r : call[k] = [op |-> "confirms", record |-> r] /\ Holds(r.tx, r.chain, r.hash)
      BY <3>1 DEF ConfirmsProper
    <3>3. call[k].record = r
      BY <3>2
    <3> QED
      BY <3>2, <3>3
  <2> QED
    BY <2>1, <2>2 DEF AnchoredAsClaimed, AInv, StoreHolds, Founded
<1> QED
  BY <1>1, AlwaysAInv, PTL

-----------------------------------------------------------------------------
(* While no two passes over the proof records overlap, the one under way   *)
(* stands at a record that is not verified.                                *)
InPass(k) == call[k].op = "pass"

Passes ==
    ~overlapped =>
      /\ \A k, l \in Calls : InPass(k) /\ InPass(l) => k = l
      /\ \A k \in Calls : InPass(k) => call[k].at \in 1..Len(store) /\ ~store[call[k].at].verified

(* A call takes a turn, to none of the states in ops. *)
StartsNo(ops) == \E k \in Calls : \E v : call' = [call EXCEPT ![k] = v] /\ v.op \notin ops

LEMMA PassesStay ==
  ASSUME AInv, Passes, UNCHANGED <<store, overlapped>>, UNCHANGED call \/ StartsNo({"pass"})
  PROVE  Passes'
<1>1. ASSUME NEW l \in Calls, InPass(l)' PROVE InPass(l) /\ call'[l] = call[l]
  <2>1. CASE UNCHANGED call
    BY <1>1, <2>1 DEF InPass
  <2>2. CASE StartsNo({"pass"})
    <3>1. PICK k, v :
            /\ k \in Calls
            /\ call' = [call EXCEPT ![k] = v] /\ v.op # "pass"
      BY <2>2 DEF StartsNo
    <3>2. call'[l] = IF l = k THEN v ELSE call[l]
      BY <3>1 DEF AInv, CallsProper
    <3> QED
      BY <1>1, <3>1, <3>2 DEF InPass
  <2> QED
    BY <2>1, <2>2
<1> QED
  BY <1>1 DEF Passes

Other == {"pass", "asks", "accepts"}

LEMMA BeginNone ==
  ASSUME NEW k \in Calls, NEW c, Begin(k, c), NEW ops, c.op \notin ops
  PROVE  StartsNo(ops) /\ UNCHANGED <<store, bundle, trace>>
BY DEF Begin, StartsNo

(* The steps of anchoring, and of asking about a record. *)
LEMMA AnchoringTurns ==
  ASSUME NEW k \in Calls, NEW b, NEW i,
         \/ Land(k) \/ Receipt(k) \/ AnchorFails(k) \/ AnchorAnswers(k) \/ Return(k)
         \/ AnchorAll(k, b) \/ VerifyAnchor(k, i) \/ AnchorEvent(k, i) \/ Anchor(k, b, i),
         AInv
  PROVE  StartsNo(Other) /\ UNCHANGED <<store, overlapped, bundle, trace>>
<1>1. Idle.op \notin Other
  BY DEF Idle, Other
<1>2. \A op, hash, j : Anchoring(op, hash, j).op = op
  BY DEF Anchoring
<1>3. CASE AnchorAll(k, b) \/ AnchorEvent(k, i) \/ Anchor(k, b, i)
  <2>1. PICK op, hash, j :
          /\ op \in Anchorings
          /\ Begin(k, Anchoring(op, hash, j))
    BY <1>3 DEF AnchorAll, AnchorEvent, Anchor, Anchorings
  <2>2. PICK c : c = Anchoring(op, hash, j)
    OBVIOUS
  <2>3. c.op \notin Other
    BY <1>2, <2>1, <2>2 DEF Anchorings, Other
  <2>4. StartsNo(Other) /\ UNCHANGED <<store, bundle, trace>>
    BY <2>1, <2>2, <2>3, BeginNone
  <2> QED
    BY <1>3, <2>4 DEF AnchorAll, AnchorEvent, Anchor
<1>4. CASE VerifyAnchor(k, i)
  <2>1. PICK c : c = [op |-> "checks", record |-> collab[i].anchor]
    OBVIOUS
  <2>2. Begin(k, c) /\ c.op \notin Other
    BY <1>4, <2>1 DEF VerifyAnchor, Other
  <2> QED
    BY <1>4, <2>2, BeginNone DEF VerifyAnchor
<1>6. CASE Receipt(k) \/ AnchorFails(k)
  <2>1. Onward(k) /\ UNCHANGED <<store, overlapped, bundle, trace>>
    BY <1>6 DEF Receipt, AnchorFails
  <2>2. PICK c : c = Anchoring("all", call[k].hash, call[k].at + 1)
    OBVIOUS
  <2>3. call' = [call EXCEPT ![k] = c] \/ call' = [call EXCEPT ![k] = Idle]
    BY <2>1, <2>2 DEF Onward
  <2>4. c.op \notin Other
    BY <2>2 DEF Anchoring, Other
  <2> QED
    BY <1>1, <2>1, <2>3, <2>4 DEF StartsNo
<1>7. CASE Land(k)
  <2>1. PICK op, j, n, hash :
          /\ op \in Anchorings /\ j \in 1..Len(Chains) /\ n \in 0..Len(tx)
          /\ call[k] = Wait(op, hash, j, n)
    BY <1>7, WaitShape DEF Land
  <2>2. PICK m : m = Len(tx) + 1
    OBVIOUS
  <2>3. PICK v : v = Wait(op, hash, j, m)
    OBVIOUS
  <2>4. [call[k] EXCEPT !.tx = m] = v
    BY <2>1, <2>3 DEF Wait
  <2>5. call' = [call EXCEPT ![k] = [call[k] EXCEPT !.tx = m]]
    BY <1>7, <2>2 DEF Land
  <2>6. v.op \notin Other
    BY <2>1, <2>3 DEF Wait, Anchorings, Other
  <2> QED
    BY <1>7, <2>4, <2>5, <2>6 DEF StartsNo, Land
<1>8. CASE Return(k)
  BY <1>1, <1>8 DEF Return, StartsNo
<1>9. CASE AnchorAnswers(k)
  <2>1. UNCHANGED <<store, overlapped, bundle, trace>>
    BY <1>9 DEF AnchorAnswers
  <2>2. PICK c : c = [op |-> "confirms", record |-> call[k].record]
    OBVIOUS
  <2>3. \E ok : call' = [call EXCEPT ![k] = IF ok THEN [op |-> "confirms", record |-> call[k].record] ELSE Idle]
    BY <1>9 DEF AnchorAnswers
  <2>4. call' = [call EXCEPT ![k] = c] \/ call' = [call EXCEPT ![k] = Idle]
    BY <2>2, <2>3
  <2>5. c.op \notin Other
    BY <2>2 DEF Other
  <2> QED
    BY <1>1, <2>1, <2>4, <2>5 DEF StartsNo
<1> QED
  BY <1>3, <1>4, <1>6, <1>7, <1>8, <1>9

(* The steps of verifyExecution. *)
LEMMA VerifyingTurns ==
  ASSUME NEW k \in Calls, NEW p, NEW es, VerifyExecution(k, p, es) \/ ChainAnswers(k)
  PROVE  StartsNo({"pass"}) /\ UNCHANGED <<store, overlapped>>
<1>1. Idle.op # "pass" /\ \A q, fs, ch : Accepts(q, fs, ch).op # "pass"
  BY DEF Idle, Accepts
<1>2. CASE VerifyExecution(k, p, es)
  <2>1. \E c : Begin(k, c) /\ c.op \notin {"pass"}
    <3>1. CASE Begin(k, Accepts(p, es, None))
      BY <1>1, <3>1
    <3>2. CASE \E ch \in ChainSet : \E n : Begin(k, Asks(p, es, ch, n))
      BY <3>2 DEF Asks
    <3> QED
      BY <1>2, <3>1, <3>2 DEF VerifyExecution, Asks
  <2> QED
    BY <1>2, <2>1, BeginNone DEF VerifyExecution
<1>3. CASE ChainAnswers(k)
  <2>1. UNCHANGED <<store, overlapped>>
    BY <1>3 DEF ChainAnswers
  <2>2. PICK c : c = Accepts(call[k].bundle, call[k].events, call[k].on)
    OBVIOUS
  <2>3. \E ok : call' = [call EXCEPT ![k] = IF ok THEN Accepts(call[k].bundle, call[k].events, call[k].on) ELSE Idle]
    BY <1>3 DEF ChainAnswers
  <2>4. call' = [call EXCEPT ![k] = c] \/ call' = [call EXCEPT ![k] = Idle]
    BY <2>2, <2>3
  <2>5. c.op # "pass"
    BY <2>2 DEF Accepts
  <2> QED
    BY <1>1, <2>1, <2>4, <2>5 DEF StartsNo
<1> QED
  BY <1>2, <1>3

LEMMA PassesBegin ==
  ASSUME AInv, Passes, NEW k \in Calls, VerifyAllRecords(k)
  PROVE  Passes'
<1> SUFFICES ASSUME ~overlapped'
             PROVE  /\ \A l, m \in Calls : InPass(l)' /\ InPass(m)' => l = m
                    /\ \A l \in Calls : InPass(l)' => call'[l].at \in 1..Len(store') /\ ~store'[call'[l].at].verified
  BY DEF Passes
<1>1. Pending(0) \subseteq Nat /\ Pending(0) # {}
  BY LengthsType DEF VerifyAllRecords, Pending, Lengths
<1>2. PICK j \in Pending(0) : j = First(Pending(0))
  BY <1>1, FirstIsIn
<1>3. PICK v : v = [op |-> "pass", at |-> j]
  OBVIOUS
<1>4. /\ call' = [call EXCEPT ![k] = v] /\ UNCHANGED store
      /\ \A l \in Calls : ~InPass(l)
  BY <1>2, <1>3 DEF VerifyAllRecords, Begin, PassUnderWay, InPass
<1>5. \A l \in Calls : call'[l] = IF l = k THEN v ELSE call[l]
  BY <1>4 DEF AInv, CallsProper
<1>6. \A l \in Calls : InPass(l)' => l = k
  BY <1>4, <1>5 DEF InPass
<1>7. call'[k].at = j /\ j \in 1..Len(store) /\ ~store[j].verified
  BY <1>3, <1>5 DEF Pending
<1> QED
  BY <1>4, <1>6, <1>7

(* What a step of a pass does to the records. *)
LEMMA PassWrites ==
  ASSUME AInv, Passes, NEW k \in Calls, RecordAnswers(k), ~overlapped
  PROVE  \E i \in 1..Len(store) :
           /\ call[k].at = i /\ ~store[i].verified /\ Len(store') = Len(store)
           /\ \A j \in 1..Len(store) \ {i} : store'[j] = store[j]
           /\ \E v : /\ call' = [call EXCEPT ![k] = v]
                     /\ v.op = "pass" => v.at \in Pending(i)
<1>1. PICK i \in 1..Len(store) :
         /\ call[k] = [op |-> "pass", at |-> i]
         /\ \E ok \in Answers(ScoreChain, store[i].root, store[i].tx) :
              store' = [store EXCEPT ![i] = [tx |-> store[i].tx, root |-> store[i].root, verified |-> ok, from |-> store[i].from]]
         /\ \/ call' = [call EXCEPT ![k] = Idle]
            \/ \E j \in Pending(i) : call' = [call EXCEPT ![k] = [op |-> "pass", at |-> j]]
  BY PassShape
<1>2. PICK e : store' = [store EXCEPT ![i] = e]
  BY <1>1
<1>3. Len(store') = Len(store) /\ \A j \in 1..Len(store) \ {i} : store'[j] = store[j]
  BY <1>2, ExceptLog DEF AInv, Logs
<1>4. call[k].at = i /\ ~store[i].verified
  BY <1>1 DEF Passes, InPass
<1>5. \E v : call' = [call EXCEPT ![k] = v] /\ (v.op = "pass" => v.at \in Pending(i))
  <2>1. CASE call' = [call EXCEPT ![k] = Idle]
    <3>1. Idle.op # "pass"
      BY DEF Idle
    <3> QED
      BY <2>1, <3>1
  <2>2. CASE \E j \in Pending(i) : call' = [call EXCEPT ![k] = [op |-> "pass", at |-> j]]
    <3>1. PICK j \in Pending(i) : call' = [call EXCEPT ![k] = [op |-> "pass", at |-> j]]
      BY <2>2
    <3>2. PICK v : v = [op |-> "pass", at |-> j]
      OBVIOUS
    <3>3. v.at = j
      BY <3>2
    <3> QED
      BY <3>1, <3>2, <3>3
  <2> QED
    BY <1>1, <2>1, <2>2
<1> QED
  BY <1>3, <1>4, <1>5

LEMMA PassesAnswer ==
  ASSUME AInv, Passes, NEW k \in Calls, RecordAnswers(k)
  PROVE  Passes'
<1> SUFFICES ASSUME ~overlapped'
             PROVE  /\ \A l, m \in Calls : InPass(l)' /\ InPass(m)' => l = m
                    /\ \A l \in Calls : InPass(l)' => call'[l].at \in 1..Len(store') /\ ~store'[call'[l].at].verified
  BY DEF Passes
<1>1. ~overlapped
  BY DEF RecordAnswers
<1>2. PICK i, v :
        /\ i \in 1..Len(store)
        /\ call[k].at = i /\ ~store[i].verified /\ Len(store') = Len(store)
        /\ \A j \in 1..Len(store) \ {i} : store'[j] = store[j]
        /\ call' = [call EXCEPT ![k] = v]
        /\ v.op = "pass" => v.at \in Pending(i)
  BY <1>1, PassWrites
<1>3. \A l \in Calls : call'[l] = IF l = k THEN v ELSE call[l]
  BY <1>2 DEF AInv, CallsProper
<1>4. InPass(k) /\ \A l \in Calls : InPass(l) => l = k
  BY <1>1 DEF Passes, RecordAnswers, InPass
<1>5. \A l \in Calls : InPass(l)' => l = k /\ v.op = "pass"
  BY <1>3, <1>4 DEF InPass
<1>6. ASSUME v.op = "pass" PROVE v.at \in 1..Len(store) \ {i} /\ ~store[v.at].verified
  <2>1. v.at \in 1..Len(store) /\ i < v.at /\ ~store[v.at].verified
    BY <1>2, <1>6 DEF Pending
  <2> QED
    BY <2>1, LengthsType DEF Lengths
<1> QED
  BY <1>2, <1>3, <1>5, <1>6

LEMMA PassesAdd ==
  ASSUME AInv, Passes, Adds
  PROVE  Passes'
<1>1. Len(store') = Len(store) + 1 /\ \A i \in 1..Len(store) : store'[i] = store[i]
  BY AddedRecord
<1>2. UNCHANGED <<call, overlapped>>
  BY AddUnchanged
<1>3. \A i \in 1..Len(store) : i \in 1..Len(store')
  BY <1>1, LengthsType DEF Lengths
<1> QED
  BY <1>1, <1>2, <1>3 DEF Passes, InPass

(* Each step is one of the two passes', the new record's, or none of them. *)
LEMMA PassSteps ==
  ASSUME AInv, [Next]_vars
  PROVE  \/ UNCHANGED <<store, overlapped>> /\ (UNCHANGED call \/ StartsNo({"pass"}))
         \/ Adds
         \/ \E k \in Calls : VerifyAllRecords(k) \/ RecordAnswers(k)
<1>1. CASE Record \/ Seal \/ (\E b \in Bundles : Generate(b)) \/ UNCHANGED vars
  BY <1>1 DEF Record, Seal, Generate, vars
<1>2. ASSUME NEW k \in Calls, NEW b, NEW i,
             \/ Land(k) \/ Receipt(k) \/ AnchorFails(k) \/ AnchorAnswers(k) \/ Return(k)
             \/ AnchorAll(k, b) \/ VerifyAnchor(k, i) \/ AnchorEvent(k, i) \/ Anchor(k, b, i)
      PROVE  UNCHANGED <<store, overlapped>> /\ StartsNo({"pass"})
  BY <1>2, AnchoringTurns DEF StartsNo, Other
<1>3. ASSUME NEW k \in Calls, NEW p, NEW es, VerifyExecution(k, p, es) \/ ChainAnswers(k)
      PROVE  UNCHANGED <<store, overlapped>> /\ StartsNo({"pass"})
  BY <1>3, VerifyingTurns
<1> QED
  BY <1>1, <1>2, <1>3 DEF Next, Adds

THEOREM AlwaysPasses == Spec => [](AInv /\ Passes)
<1>1. Init => Passes
  BY DEF Init, Passes, InPass, Idle
<1>2. AInv /\ Passes /\ [Next]_vars => Passes'
  BY PassSteps, PassesStay, PassesAdd, PassesBegin, PassesAnswer
<1> QED
  BY <1>1, <1>2, AInvInit, AInvNext, PTL DEF Spec

(* A proof record that was verified stays verified while no two passes     *)
(* overlap, whatever a chain that cannot be reached answers                *)
(* (verifyAllRecords, verifyProofRecord).                                  *)
THEOREM VerifiedStays == Spec => VerifiedKept
<1>1. AInv /\ Passes /\ [Next]_vars =>
        (~overlapped' => \A i \in 1..Len(store) : store[i].verified => store'[i].verified)
  <2> SUFFICES ASSUME AInv, Passes, [Next]_vars, ~overlapped', NEW i \in 1..Len(store), store[i].verified
               PROVE  store'[i].verified
    OBVIOUS
  <2>1. CASE UNCHANGED store
    BY <2>1
  <2>2. CASE Adds
    BY <2>2, AddedRecord
  <2>3. ASSUME NEW k \in Calls, VerifyAllRecords(k) PROVE UNCHANGED store
    BY <2>3 DEF VerifyAllRecords, Begin
  <2>4. ASSUME NEW k \in Calls, RecordAnswers(k) PROVE store'[i].verified
    <3>1. ~overlapped
      BY <2>4 DEF RecordAnswers
    <3>2. PICK j \in 1..Len(store) :
             ~store[j].verified /\ \A m \in 1..Len(store) \ {j} : store'[m] = store[m]
      BY <2>4, <3>1, PassWrites
    <3> QED
      BY <3>2
  <2> QED
    BY <2>1, <2>2, <2>3, <2>4, PassSteps
<1>2. (AInv /\ Passes) /\ [Next]_vars =>
        [~overlapped' => \A i \in 1..Len(store) : store[i].verified => store'[i].verified]_vars
  BY <1>1
<1> QED
  BY <1>2, AlwaysPasses, PTL DEF Spec, VerifiedKept

-----------------------------------------------------------------------------
(* A part of a trace. *)
LEMMA PartIs ==
  ASSUME NEW S, NEW es \in Seq(S), NEW n \in 0..Len(es)
  PROVE  /\ SubSeq(es, 1, n) \in Seq(S) /\ Len(SubSeq(es, 1, n)) = n
         /\ \A i \in 1..n : SubSeq(es, 1, n)[i] = es[i]
OBVIOUS

LEMMA SameSeq ==
  ASSUME NEW S, NEW s \in Seq(S), NEW t \in Seq(S), Len(s) = Len(t),
         \A i \in 1..Len(s) : s[i] = t[i]
  PROVE  s = t
OBVIOUS

LEMMA LeavesList ==
  ASSUME NEW es \in Seq(Event)
  PROVE  List(Leaves(es), Len(es)) /\ \A i \in 1..Len(es) : Leaves(es)[i] = <<"event", es[i].hash>>
<1>1. Len(es) \in Nat
  OBVIOUS
<1> QED
  BY <1>1 DEF List, Leaves

LEMMA HashTells ==
  ASSUME NEW e \in Event, NEW f \in Event, HashOK(e), HashOK(f), e.hash = f.hash
  PROVE  e = f
<1>1. /\ e = [seq |-> e.seq, type |-> e.type, data |-> e.data, prev |-> e.prev, hash |-> e.hash]
      /\ f = [seq |-> f.seq, type |-> f.type, data |-> f.data, prev |-> f.prev, hash |-> f.hash]
  BY DEF Event
<1>2. /\ e.prev \in Hash /\ <<e.seq, e.type, e.data>> \in Nat \X EventTypes \X Data
      /\ f.prev \in Hash /\ <<f.seq, f.type, f.data>> \in Nat \X EventTypes \X Data
  BY DEF Event
<1>3. Append(e.prev, <<e.seq, e.type, e.data>>) = Append(f.prev, <<f.seq, f.type, f.data>>)
  BY DEF HashOK, EventHash
<1>4. e.prev = f.prev /\ <<e.seq, e.type, e.data>> = <<f.seq, f.type, f.data>>
  <2>1. PICK S : S = Nat \X EventTypes \X Data
    OBVIOUS
  <2>2. PICK x \in S, y \in S : x = <<e.seq, e.type, e.data>> /\ y = <<f.seq, f.type, f.data>>
    BY <1>2, <2>1
  <2>3. e.prev \in Seq(S) /\ f.prev \in Seq(S) /\ Append(e.prev, x) = Append(f.prev, y)
    BY <1>2, <1>3, <2>1, <2>2 DEF Hash
  <2>4. e.prev = f.prev /\ x = y
    <3>1. PICK s \in Seq(S), r \in Seq(S) : s = e.prev /\ r = f.prev
      BY <2>3
    <3>2. Append(s, x) = Append(r, y)
      BY <2>3, <3>1
    <3>3. s = r /\ x = y
      BY <3>2, AppendInjective, SMT
    <3> QED
      BY <3>1, <3>3
  <2> QED
    BY <2>2, <2>4
<1> QED
  BY <1>1, <1>4

(* Two lists of events that verify have the same root only if they are the *)
(* same: the root vouches for every event and all that is in it.           *)
THEOREM RootVouches ==
  ASSUME NEW es \in Seq(Event), NEW fs \in Seq(Event), es # <<>>, Len(es) = Len(fs),
         Verify(es), Verify(fs), Root(Leaves(es)) = Root(Leaves(fs))
  PROVE  es = fs
<1>1. PICK n : n = Len(es) /\ n \in Nat /\ n # 0
  BY EmptySeq
<1>2. List(Leaves(es), n) /\ List(Leaves(fs), n)
  BY <1>1, LeavesList
<1>3. Leaves(es) = Leaves(fs)
  BY <1>1, <1>2, RootTells
<1>4. ASSUME NEW i \in 1..n PROVE es[i] = fs[i]
  <2>1. <<"event", es[i].hash>> = <<"event", fs[i].hash>>
    BY <1>1, <1>3, <1>4, LeavesList
  <2>2. es[i].hash = fs[i].hash
    BY <2>1
  <2>3. es[i] \in Event /\ fs[i] \in Event /\ HashOK(es[i]) /\ HashOK(fs[i])
    BY <1>1, ElementType DEF Verify
  <2> QED
    BY <2>2, <2>3, HashTells
<1> QED
  BY <1>1, <1>4, SameSeq

(* Recording anew gives events again. *)
LEMMA RehashedType ==
  ASSUME NEW es \in Seq(Event), NEW d \in Data
  PROVE  Rehashed(es, d) \in Seq(Event)
<1> DEFINE Part(f, n) == f = [i \in 0..n |-> IF i = 0 THEN NewTrace(Interval)
                                 ELSE Push(f[i - 1], es[i].type, IF i = 1 THEN d ELSE es[i].data)]
           T == {n \in 0..Len(es) : ~ \E f : Part(f, n) /\ f[n] \in Trace}
<1>1. Len(es) \in Nat
  OBVIOUS
<1>2. T = {}
  <2> SUFFICES ASSUME T # {} PROVE FALSE
    OBVIOUS
  <2>1. T \subseteq Nat
    BY <1>1
  <2>2. PICK n \in T : \A y \in T : n <= y
    BY <2>1, LeastExists
  <2>3. CASE n = 0
    <3>1. PICK f : f = [i \in 0..0 |-> NewTrace(Interval)]
      OBVIOUS
    <3>2. Part(f, 0) /\ f[0] = NewTrace(Interval)
      BY <3>1
    <3>3. NewTrace(Interval) \in Trace
      BY BoundAssumption DEF NewTrace, Trace
    <3> QED
      BY <2>2, <2>3, <3>2, <3>3
  <2>4. CASE n # 0
    <3>9. n \in 0..Len(es)
      BY <2>2
    <3>10. n \in Nat /\ n - 1 \in 0..Len(es) /\ n \in 1..Len(es) /\ ~(n <= n - 1)
      BY <1>1, <2>4, <3>9
    <3>11. n - 1 \notin T
      <4> HIDE DEF T
      <4> QED
        BY <2>2, <3>10
    <3>1. n \in Nat /\ n - 1 \in 0..Len(es) /\ n \in 1..Len(es) /\ n - 1 \notin T
      BY <3>10, <3>11
    <3>2. PICK g : Part(g, n - 1) /\ g[n - 1] \in Trace
      BY <3>1
    <3>3. PICK v : v = Push(g[n - 1], es[n].type, IF n = 1 THEN d ELSE es[n].data)
      OBVIOUS
    <3>4. v \in Trace
      <4>1. es[n] \in Event
        BY <3>1, ElementType
      <4>2. es[n].type \in EventTypes /\ es[n].data \in Data
        BY <4>1 DEF Event
      <4> QED
        BY <3>2, <3>3, <4>2, PushType
    <3>5. PICK f : f = [i \in 0..n |-> IF i = n THEN v ELSE g[i]]
      OBVIOUS
    <3>6. ASSUME NEW i \in 0..n
          PROVE  f[i] = IF i = 0 THEN NewTrace(Interval)
                        ELSE Push(f[i - 1], es[i].type, IF i = 1 THEN d ELSE es[i].data)
      <4>1. CASE i = n
        BY <2>4, <3>1, <3>3, <3>5, <4>1
      <4>2. CASE i # n
        <5>1. i \in 0..(n - 1) /\ (i # 0 => i - 1 \in 0..n /\ i - 1 # n)
          BY <3>1, <4>2
        <5>2. g[i] = IF i = 0 THEN NewTrace(Interval)
                     ELSE Push(g[i - 1], es[i].type, IF i = 1 THEN d ELSE es[i].data)
          BY <3>2, <5>1
        <5> QED
          BY <3>5, <4>2, <5>1, <5>2
      <4> QED
        BY <4>1, <4>2
    <3>7. f = [i \in 0..n |-> f[i]] /\ f[n] = v
      BY <3>1, <3>5
    <3>8. Part(f, n)
      BY <3>6, <3>7
    <3> QED
      BY <2>2, <3>4, <3>7, <3>8
  <2> QED
    BY <2>3, <2>4
<1>3. PICK f : Part(f, Len(es)) /\ f[Len(es)] \in Trace
  BY <1>1, <1>2
<1> DEFINE again == CHOOSE h : Part(h, Len(es))
<1>4. Part(again, Len(es))
  BY <1>3
<1>5. Rehashed(es, d) = again[Len(es)].events
  BY DEF Rehashed
<1> HIDE DEF again
<1>6. ASSUME NEW i \in 0..Len(es) PROVE again[i] = f[i]
  <2> DEFINE U == {j \in 0..Len(es) : again[j] # f[j]}
  <2> SUFFICES ASSUME U # {} PROVE FALSE
    OBVIOUS
  <2>1. U \subseteq Nat
    BY <1>1
  <2>2. PICK j \in U : \A y \in U : j <= y
    BY <2>1, LeastExists
  <2>3. /\ again[j] = IF j = 0 THEN NewTrace(Interval)
                      ELSE Push(again[j - 1], es[j].type, IF j = 1 THEN d ELSE es[j].data)
        /\ f[j] = IF j = 0 THEN NewTrace(Interval)
                  ELSE Push(f[j - 1], es[j].type, IF j = 1 THEN d ELSE es[j].data)
    BY <1>3, <1>4, <2>2
  <2>4. j # 0 => j - 1 \in 0..Len(es) /\ j - 1 \notin U
    BY <1>1, <2>2
  <2> QED
    BY <2>2, <2>3, <2>4
<1>7. again[Len(es)] \in Trace
  <2>1. Len(es) \in 0..Len(es)
    BY <1>1
  <2>2. again[Len(es)] = f[Len(es)]
    BY <1>6, <2>1
  <2> QED
    BY <1>3, <2>2
<1> QED
  BY <1>5, <1>7 DEF Trace

LEMMA ShownType ==
  ASSUME trace.events \in Seq(Event), NEW es \in Shown, es # None
  PROVE  es \in Seq(Event)
<1>1. \A n \in 0..Len(trace.events) : SubSeq(trace.events, 1, n) \in Seq(Event)
  BY PartIs
<1>2. ASSUME NEW i \in 1..Len(trace.events)
      PROVE  [trace.events EXCEPT ![i].data = Summary] \in Seq(Event)
  <2>1. PICK e : e = [trace.events[i] EXCEPT !.data = Summary]
    OBVIOUS
  <2>2. e \in Event
    BY <2>1, ElementType, SummaryAssumption DEF Event
  <2>3. [trace.events EXCEPT ![i] = e] \in Seq(Event)
    BY <2>2
  <2> QED
    BY <2>1, <2>3
<1>3. \A n \in 1..Len(trace.events) : Rehashed(SubSeq(trace.events, 1, n), Summary) \in Seq(Event)
  <2>1. \A n \in 1..Len(trace.events) : SubSeq(trace.events, 1, n) \in Seq(Event)
    BY <1>1
  <2> QED
    BY <2>1, RehashedType, SummaryAssumption
<1> QED
  BY <1>1, <1>2, <1>3 DEF Shown

-----------------------------------------------------------------------------
(* The trace links up, and each bundle is of what had been recorded.       *)
TraceTrue == trace \in Trace /\ Verify(trace.events)

BundleTrue(p) ==
    \E u : /\ p = Signed(u, Executor)
           /\ u.length \in 1..Len(trace.events)
           /\ u.root = Root(Leaves(SubSeq(trace.events, 1, u.length)))

BundlesTrue ==
    DOMAIN bundle = Bundles /\ \A b \in Bundles : bundle[b] # None => BundleTrue(bundle[b])

GInv == TraceTrue /\ BundlesTrue /\ AcceptedIsGenuine

(* All that was recorded is there in the next state. *)
Longer == /\ Len(trace.events) <= Len(trace'.events)
          /\ \A i \in 1..Len(trace.events) : trace'.events[i] = trace.events[i]

LEMMA PartStays ==
  ASSUME TraceTrue, TraceTrue', Longer, NEW n \in 0..Len(trace.events)
  PROVE  SubSeq(trace'.events, 1, n) = SubSeq(trace.events, 1, n) /\ n \in 0..Len(trace'.events)
<1>1. trace.events \in Seq(Event) /\ trace'.events \in Seq(Event)
  BY DEF TraceTrue, Trace
<1>2. n \in 0..Len(trace'.events)
  BY <1>1 DEF Longer
<1>3. PICK s, t : s = SubSeq(trace'.events, 1, n) /\ t = SubSeq(trace.events, 1, n)
  OBVIOUS
<1>4. /\ s \in Seq(Event) /\ Len(s) = n /\ \A i \in 1..n : s[i] = trace'.events[i]
      /\ t \in Seq(Event) /\ Len(t) = n /\ \A i \in 1..n : t[i] = trace.events[i]
  BY <1>1, <1>2, <1>3, PartIs
<1>5. \A i \in 1..n : s[i] = t[i]
  BY <1>1, <1>4 DEF Longer
<1>6. s = t
  BY <1>4, <1>5, SameSeq
<1> QED
  BY <1>2, <1>3, <1>6

LEMMA BundleStays ==
  ASSUME TraceTrue, TraceTrue', Longer, NEW p, BundleTrue(p)
  PROVE  BundleTrue(p)'
<1>1. PICK u : /\ p = Signed(u, Executor)
               /\ u.length \in 1..Len(trace.events)
               /\ u.root = Root(Leaves(SubSeq(trace.events, 1, u.length)))
  BY DEF BundleTrue
<1>2. PICK n : n = u.length
  OBVIOUS
<1>3. Len(trace.events) \in Nat /\ Len(trace'.events) \in Nat
  BY DEF TraceTrue, Trace
<1>4. n \in 0..Len(trace.events) /\ n \in 1..Len(trace'.events)
  BY <1>1, <1>2, <1>3 DEF Longer
<1>5. SubSeq(trace'.events, 1, n) = SubSeq(trace.events, 1, n)
  BY <1>4, PartStays
<1> QED
  BY <1>1, <1>2, <1>4, <1>5 DEF BundleTrue

LEMMA BuiltTrue ==
  ASSUME BundlesTrue, NEW p \in Built
  PROVE  BundleTrue(p)
BY DEF Built, BundlesTrue

(* What was true of a call goes on to be. *)
Genuine(c) ==
    c.op \in {"asks", "accepts"} =>
        /\ c.bundle \in Built
        /\ c.events # None => c.events = SubSeq(trace.events, 1, c.bundle.content.length)

LEMMA GenuineIs == AcceptedIsGenuine <=> \A k \in Calls : Genuine(call[k])
BY DEF AcceptedIsGenuine, Genuine

LEMMA GenuineStays ==
  ASSUME TraceTrue, TraceTrue', Longer, BundlesTrue, Built \subseteq Built', NEW c, Genuine(c)
  PROVE  Genuine(c)'
<1> SUFFICES ASSUME c.op \in {"asks", "accepts"}
             PROVE  /\ c.bundle \in Built'
                    /\ c.events # None => c.events = SubSeq(trace'.events, 1, c.bundle.content.length)
  BY DEF Genuine
<1>1. c.bundle \in Built /\ (c.events # None => c.events = SubSeq(trace.events, 1, c.bundle.content.length))
  BY DEF Genuine
<1>2. PICK u : c.bundle = Signed(u, Executor) /\ u.length \in 1..Len(trace.events)
  BY <1>1, BuiltTrue DEF BundleTrue
<1>3. PICK n : n = c.bundle.content.length
  OBVIOUS
<1>4. n \in 0..Len(trace.events)
  <2>1. c.bundle.content = u
    BY <1>2 DEF Signed
  <2>2. Len(trace.events) \in Nat
    BY DEF TraceTrue, Trace
  <2> QED
    BY <1>2, <1>3, <2>1, <2>2
<1>5. SubSeq(trace'.events, 1, n) = SubSeq(trace.events, 1, n)
  BY <1>4, PartStays
<1> QED
  BY <1>1, <1>3, <1>5

LEMMA GenuineCall ==
  ASSUME NEW k, NEW c, call'[k] = c, Genuine(c)'
  PROVE  Genuine(call[k])'
BY DEF Genuine

(* While the trace and the bundles stay as they are. *)
LEMMA GInvTurns ==
  ASSUME GInv, AInv, UNCHANGED <<trace, bundle>>, NEW k \in Calls, NEW v,
         call' = [call EXCEPT ![k] = v], Genuine(v)
  PROVE  GInv'
<1>1. TraceTrue' /\ BundlesTrue' /\ Longer /\ Built' = Built
  BY DEF GInv, TraceTrue, BundlesTrue, BundleTrue, Longer, Built, Trace
<1>2. ASSUME NEW l \in Calls PROVE Genuine(call[l])'
  <2>1. PICK c : call'[l] = c /\ Genuine(c)
    <3>1. call'[l] = v \/ call'[l] = call[l]
      BY DEF AInv, CallsProper
    <3>2. Genuine(call[l])
      BY GenuineIs DEF GInv
    <3> QED
      BY <3>1, <3>2
  <2>2. Genuine(c)'
    BY <1>1, <2>1, GenuineStays DEF GInv
  <2> QED
    BY <2>1, <2>2, GenuineCall
<1>3. AcceptedIsGenuine'
  BY <1>2 DEF AcceptedIsGenuine, Genuine
<1> QED
  BY <1>1, <1>3 DEF GInv

LEMMA GInvNoTurn ==
  ASSUME GInv, TraceTrue', BundlesTrue', Longer, Built \subseteq Built', UNCHANGED call
  PROVE  GInv'
<1>1. ASSUME NEW l \in Calls PROVE Genuine(call[l])'
  <2>1. PICK c : c = call[l]
    OBVIOUS
  <2>2. Genuine(c)
    BY <2>1, GenuineIs DEF GInv
  <2>3. Genuine(c)'
    BY <2>2, GenuineStays DEF GInv
  <2> QED
    BY <2>1, <2>3, GenuineCall
<1>2. AcceptedIsGenuine'
  BY <1>1 DEF AcceptedIsGenuine, Genuine
<1> QED
  BY <1>2 DEF GInv

LEMMA GInvRecords ==
  ASSUME GInv, Record \/ Seal
  PROVE  GInv'
<1>1. PICK d \in Data : trace' = Appended(trace, "TOOL_CALL", d) \/ trace' = Finalized(trace, d)
  BY DEF Record, Seal
<1>2. "TOOL_CALL" \in EventTypes /\ "TASK_RESULT" \in EventTypes
  BY DEF EventTypes, Verdicts
<1>3. TraceTrue'
  BY <1>1, <1>2, AppendedType, SealedType, AppendVerifies, SealedVerifies DEF GInv, TraceTrue
<1>4. Longer
  <2>1. trace \in Trace
    BY DEF GInv, TraceTrue
  <2>2. PICK type \in EventTypes : trace'.events = Appended(trace, type, d).events
    BY <1>1, <1>2, <2>1, SealedEvents
  <2>3. PICK es, fs : es = trace.events /\ fs = Appended(trace, type, d).events
    OBVIOUS
  <2>4. Len(es) \in Nat /\ Len(fs) \in Nat /\ Len(fs) > Len(es) /\ \A i \in 1..Len(es) : fs[i] = es[i]
    BY <2>1, <2>3, AppendedEvents
  <2> QED
    BY <2>2, <2>3, <2>4 DEF Longer
<1>5. UNCHANGED <<bundle, call>>
  BY DEF Record, Seal
<1>6. BundlesTrue'
  <2>1. ASSUME NEW b \in Bundles, bundle[b] # None PROVE BundleTrue(bundle[b])'
    <3>1. PICK p : p = bundle[b]
      OBVIOUS
    <3>2. BundleTrue(p)
      BY <2>1, <3>1 DEF GInv, BundlesTrue
    <3>3. BundleTrue(p)'
      BY <1>3, <1>4, <3>2, BundleStays DEF GInv
    <3> QED
      BY <1>5, <3>1, <3>3 DEF BundleTrue
  <2> QED
    BY <1>5, <2>1 DEF GInv, BundlesTrue
<1>7. Built' = Built
  BY <1>5 DEF Built
<1> QED
  BY <1>3, <1>4, <1>5, <1>6, <1>7, GInvNoTurn

LEMMA GInvGenerate ==
  ASSUME GInv, NEW b \in Bundles, Generate(b)
  PROVE  GInv'
<1>1. UNCHANGED <<trace, call>> /\ bundle[b] = None /\ trace.events # <<>>
  BY DEF Generate
<1>2. TraceTrue' /\ Longer
  BY <1>1 DEF GInv, TraceTrue, Longer, Trace
<1>3. PICK p : p = Signed(Unsigned(b, trace), Executor)
  OBVIOUS
<1>4. bundle' = [bundle EXCEPT ![b] = p]
  BY <1>3 DEF Generate
<1>5. \A c \in Bundles : bundle'[c] = IF c = b THEN p ELSE bundle[c]
  BY <1>4 DEF GInv, BundlesTrue
<1>6. BundleTrue(p)
  <2>1. PICK es : es = trace.events /\ es \in Seq(Event) /\ es # <<>>
    BY <1>1 DEF GInv, TraceTrue, Trace
  <2>2. Len(es) \in 1..Len(es) /\ SubSeq(es, 1, Len(es)) = es
    BY <2>1
  <2>3. PICK u : u = Unsigned(b, trace)
    OBVIOUS
  <2>4. u.length = Len(es) /\ u.root = Root(Leaves(es))
    BY <2>1, <2>3 DEF Unsigned
  <2> QED
    BY <1>3, <2>1, <2>2, <2>3, <2>4 DEF BundleTrue
<1>7. \A q : BundleTrue(q) => BundleTrue(q)'
  BY <1>1 DEF BundleTrue
<1>8. BundlesTrue'
  <2>1. ASSUME NEW c \in Bundles, bundle'[c] # None PROVE BundleTrue(bundle[c])'
    <3>1. PICK q : q = bundle'[c]
      OBVIOUS
    <3>2. BundleTrue(q)
      BY <1>5, <1>6, <2>1, <3>1 DEF GInv, BundlesTrue
    <3>3. BundleTrue(q)'
      BY <1>7, <3>2
    <3> QED
      BY <3>1, <3>3 DEF BundleTrue
  <2>2. DOMAIN bundle' = Bundles
    BY <1>4 DEF GInv, BundlesTrue
  <2> QED
    BY <2>1, <2>2 DEF BundlesTrue
<1>9. Built \subseteq Built'
  BY <1>1, <1>5 DEF Built
<1> QED
  BY <1>1, <1>2, <1>8, <1>9, GInvNoTurn

(* A bundle whose signature holds is as it was built. *)
LEMMA SignedAsBuilt ==
  ASSUME BundlesTrue, NEW p \in Built, NEW q \in {p} \cup Changed(p), checkBundleSignature(q)
  PROVE  q = p
<1>1. PICK u : p = [content |-> u, by |-> Executor, over |-> u]
  BY BuiltTrue DEF BundleTrue, Signed
<1>2. q.over = q.content
  BY DEF checkBundleSignature
<1>3. CASE \E c : q = [p EXCEPT !.content = c]
  <2>1. PICK c : q = [content |-> c, by |-> Executor, over |-> u]
    BY <1>1, <1>3
  <2>2. c = u
    BY <1>2, <2>1
  <2> QED
    BY <1>1, <2>1, <2>2
<1>4. CASE \E o : q = [p EXCEPT !.over = o]
  <2>1. PICK o : q = [content |-> u, by |-> Executor, over |-> o]
    BY <1>1, <1>4
  <2>2. o = u
    BY <1>2, <2>1
  <2> QED
    BY <1>1, <2>1, <2>2
<1>5. q \in Changed(p) => (\E c : q = [p EXCEPT !.content = c]) \/ (\E o : q = [p EXCEPT !.over = o])
  BY DEF Changed
<1> QED
  BY <1>3, <1>4, <1>5

(* ... and the trace shown with it is what it was built from. *)
LEMMA ShownAsBuilt ==
  ASSUME TraceTrue, BundlesTrue, NEW p \in Built, NEW es \in Shown, VerifyBundle(p, es), es # None
  PROVE  es = SubSeq(trace.events, 1, p.content.length)
<1>1. PICK u : /\ p = Signed(u, Executor) /\ u.length \in 1..Len(trace.events)
               /\ u.root = Root(Leaves(SubSeq(trace.events, 1, u.length)))
  BY BuiltTrue DEF BundleTrue
<1>2. p.content = u
  BY <1>1 DEF Signed
<1>3. Verify(es) /\ es # <<>> /\ Root(Leaves(es)) = u.root /\ Len(es) = u.length
  BY <1>2 DEF VerifyBundle, checkMerkleRoot
<1>4. trace.events \in Seq(Event)
  BY DEF TraceTrue, Trace
<1>5. es \in Seq(Event)
  BY <1>4, ShownType
<1>6. PICK fs : fs = SubSeq(trace.events, 1, u.length)
  OBVIOUS
<1>7. u.length \in 0..Len(trace.events)
  BY <1>1, <1>4
<1>8. /\ fs \in Seq(Event) /\ Len(fs) = u.length
      /\ \A i \in 1..u.length : fs[i] = trace.events[i]
  BY <1>4, <1>6, <1>7, PartIs
<1>9. Verify(fs)
  <2>1. PICK n : n = u.length /\ n \in Nat /\ n <= Len(trace.events)
    BY <1>1, <1>4
  <2>2. ASSUME NEW i \in 1..n PROVE LinkOK(fs, i) /\ HashOK(fs[i])
    <3>1. i \in 1..Len(trace.events) /\ (i # 1 => i - 1 \in 1..n)
      BY <1>4, <2>1
    <3>2. LinkOK(trace.events, i) /\ HashOK(trace.events[i])
      BY <3>1 DEF TraceTrue, Verify
    <3>3. fs[i] = trace.events[i] /\ (i # 1 => fs[i - 1] = trace.events[i - 1])
      BY <1>8, <2>1, <3>1
    <3> QED
      BY <3>2, <3>3 DEF LinkOK
  <2> QED
    BY <1>8, <2>1, <2>2 DEF Verify
<1>10. Root(Leaves(es)) = Root(Leaves(fs)) /\ Len(es) = Len(fs)
  BY <1>1, <1>3, <1>6, <1>8
<1>11. es = fs
  BY <1>3, <1>5, <1>8, <1>9, <1>10, RootVouches
<1> QED
  BY <1>2, <1>6, <1>11

LEMMA GInvVerify ==
  ASSUME GInv, AInv, NEW k \in Calls, NEW p \in Built, NEW q \in {p} \cup Changed(p),
         NEW es \in Shown, VerifyExecution(k, q, es)
  PROVE  GInv'
<1>1. VerifyBundle(q, es) /\ checkBundleSignature(q)
  BY DEF VerifyExecution, VerifyBundle
<1>2. q = p
  BY <1>1, SignedAsBuilt DEF GInv
<1>3. q \in Built /\ (es # None => es = SubSeq(trace.events, 1, q.content.length))
  BY <1>1, <1>2, ShownAsBuilt DEF GInv
<1>4. PICK v : /\ Begin(k, v) /\ v.bundle = q /\ v.events = es
  <2>1. CASE Begin(k, Accepts(q, es, None))
    <3>1. PICK v : v = Accepts(q, es, None)
      OBVIOUS
    <3>2. v.bundle = q /\ v.events = es
      BY <3>1 DEF Accepts
    <3> QED
      BY <2>1, <3>1, <3>2
  <2>2. CASE \E ch \in ChainSet : \E n : Begin(k, Asks(q, es, ch, n))
    <3>1. PICK ch, n : Begin(k, Asks(q, es, ch, n))
      BY <2>2
    <3>2. PICK v : v = Asks(q, es, ch, n)
      OBVIOUS
    <3>3. v.bundle = q /\ v.events = es
      BY <3>2 DEF Asks
    <3> QED
      BY <3>1, <3>2, <3>3
  <2> QED
    BY <2>1, <2>2 DEF VerifyExecution, Asks
<1>5. Genuine(v)
  BY <1>3, <1>4 DEF Genuine
<1>6. call' = [call EXCEPT ![k] = v] /\ UNCHANGED <<trace, bundle>>
  BY <1>4 DEF Begin
<1> QED
  BY <1>5, <1>6, GInvTurns

LEMMA GInvAnswers ==
  ASSUME GInv, AInv, NEW k \in Calls, ChainAnswers(k)
  PROVE  GInv'
<1>1. PICK c : c = Accepts(call[k].bundle, call[k].events, call[k].on)
  OBVIOUS
<1>2. \E ok : call' = [call EXCEPT ![k] = IF ok THEN Accepts(call[k].bundle, call[k].events, call[k].on) ELSE Idle]
  BY DEF ChainAnswers
<1>3. call' = [call EXCEPT ![k] = c] \/ call' = [call EXCEPT ![k] = Idle]
  BY <1>1, <1>2
<1>4. Genuine(Idle)
  BY DEF Genuine, Idle
<1>5. Genuine(c)
  <2>1. Genuine(call[k]) /\ call[k].op = "asks"
    BY GenuineIs DEF GInv, ChainAnswers
  <2>2. c.bundle = call[k].bundle /\ c.events = call[k].events
    BY <1>1 DEF Accepts
  <2> QED
    BY <2>1, <2>2 DEF Genuine
<1>6. UNCHANGED <<trace, bundle>>
  BY DEF ChainAnswers
<1> QED
  BY <1>3, <1>4, <1>5, <1>6, GInvTurns

LEMMA GInvOthers ==
  ASSUME GInv, AInv, UNCHANGED <<trace, bundle>>, StartsNo({"asks", "accepts"})
  PROVE  GInv'
<1>1. PICK k, v :
        /\ k \in Calls
        /\ call' = [call EXCEPT ![k] = v] /\ v.op \notin {"asks", "accepts"}
  BY DEF StartsNo
<1>2. Genuine(v)
  BY <1>1 DEF Genuine
<1> QED
  BY <1>1, <1>2, GInvTurns

LEMMA GInvInit == Init => GInv
<1> SUFFICES ASSUME Init PROVE GInv
  OBVIOUS
<1>1. trace \in Trace /\ trace.events = <<>>
  BY BoundAssumption DEF Init, NewTrace, Trace
<1>2. TraceTrue
  BY <1>1 DEF TraceTrue, Verify
<1>3. BundlesTrue
  BY DEF Init, BundlesTrue
<1>4. AcceptedIsGenuine
  <2>1. \A k \in Calls : call[k] = Idle
    BY DEF Init
  <2>2. Idle.op \notin {"asks", "accepts"}
    BY DEF Idle
  <2> QED
    BY <2>1, <2>2 DEF AcceptedIsGenuine
<1> QED
  BY <1>2, <1>3, <1>4 DEF GInv

LEMMA GInvNext == GInv /\ AInv /\ [Next]_vars => GInv'
<1> SUFFICES ASSUME GInv, AInv, [Next]_vars PROVE GInv'
  OBVIOUS
<1>1. CASE Record \/ Seal
  BY <1>1, GInvRecords
<1>2. ASSUME NEW b \in Bundles, Generate(b) PROVE GInv'
  BY <1>2, GInvGenerate
<1>3. CASE Adds \/ UNCHANGED vars
  <2>1. UNCHANGED <<trace, bundle, call>>
    BY <1>3, AddUnchanged DEF vars
  <2>2. TraceTrue' /\ BundlesTrue' /\ Longer /\ Built \subseteq Built'
    BY <2>1 DEF GInv, TraceTrue, BundlesTrue, BundleTrue, Longer, Built, Trace
  <2> QED
    BY <2>1, <2>2, GInvNoTurn
<1>4. ASSUME NEW k \in Calls, NEW b, NEW i,
             \/ Land(k) \/ Receipt(k) \/ AnchorFails(k) \/ AnchorAnswers(k) \/ Return(k)
             \/ AnchorAll(k, b) \/ VerifyAnchor(k, i) \/ AnchorEvent(k, i) \/ Anchor(k, b, i)
      PROVE  GInv'
  <2>1. StartsNo({"asks", "accepts"}) /\ UNCHANGED <<bundle, trace>>
    BY <1>4, AnchoringTurns DEF StartsNo, Other
  <2> QED
    BY <2>1, GInvOthers
<1>5. ASSUME NEW k \in Calls, VerifyAllRecords(k) \/ RecordAnswers(k) PROVE GInv'
  <2>1. UNCHANGED <<trace, bundle>>
    BY <1>5 DEF VerifyAllRecords, Begin, RecordAnswers
  <2>2. \E v : call' = [call EXCEPT ![k] = v] /\ v.op \in {"pass", "idle"}
    <3>3. ASSUME NEW j, call' = [call EXCEPT ![k] = [op |-> "pass", at |-> j]]
          PROVE  \E v : call' = [call EXCEPT ![k] = v] /\ v.op \in {"pass", "idle"}
      <4>1. PICK v : v = [op |-> "pass", at |-> j]
        OBVIOUS
      <4>2. v.op = "pass" /\ call' = [call EXCEPT ![k] = v]
        BY <3>3, <4>1
      <4> QED
        BY <4>2
    <3>1. CASE VerifyAllRecords(k)
      <4>1. PICK j : call' = [call EXCEPT ![k] = [op |-> "pass", at |-> j]]
        BY <3>1 DEF VerifyAllRecords, Begin
      <4> QED
        BY <3>3, <4>1
    <3>2. CASE RecordAnswers(k)
      <4>1. CASE call' = [call EXCEPT ![k] = Idle]
        <5>1. Idle.op = "idle"
          BY DEF Idle
        <5> QED
          BY <4>1, <5>1
      <4>2. CASE \E j : call' = [call EXCEPT ![k] = [op |-> "pass", at |-> j]]
        BY <3>3, <4>2
      <4> QED
        BY <3>2, <4>1, <4>2, PassShape
    <3> QED
      BY <1>5, <3>1, <3>2
  <2>3. StartsNo({"asks", "accepts"})
    BY <2>2 DEF StartsNo
  <2> QED
    BY <2>1, <2>3, GInvOthers
<1>6. ASSUME NEW k \in Calls, ChainAnswers(k) PROVE GInv'
  BY <1>6, GInvAnswers
<1>7. ASSUME NEW k \in Calls, NEW p \in Built, NEW q \in {p} \cup Changed(p), NEW es \in Shown,
             VerifyExecution(k, q, es)
      PROVE  GInv'
  BY <1>7, GInvVerify
<1> QED
  BY <1>1, <1>2, <1>3, <1>4, <1>5, <1>6, <1>7 DEF Next, Adds

(* What verifyExecution lets pass is a bundle as it was built, and a trace *)
(* given with it is what had been recorded then: no field, no event and no *)
(* number of events can differ (ProofVerifier.verify).                     *)
THEOREM AcceptedBundles == Spec => []AcceptedIsGenuine
<1>1. GInv => AcceptedIsGenuine
  BY DEF GInv
<1> QED
  BY <1>1, AInvInit, AInvNext, GInvInit, GInvNext, PTL DEF Spec

-----------------------------------------------------------------------------
(* The hash of an event tells how many there are up to it. *)
LEMMA HashLengths ==
  ASSUME NEW es \in Seq(Event), Verify(es), NEW i \in 1..Len(es)
  PROVE  Len(es[i].hash) = i
<1> DEFINE T == {j \in 1..Len(es) : Len(es[j].hash) # j}
<1> SUFFICES ASSUME T # {} PROVE FALSE
  OBVIOUS
<1>1. Len(es) \in Nat /\ T \subseteq Nat
  OBVIOUS
<1>2. PICK j \in T : \A y \in T : j <= y
  BY <1>1, LeastExists
<1>3. es[j] \in Event /\ LinkOK(es, j) /\ HashOK(es[j])
  BY <1>2, ElementType DEF Verify
<1>4. es[j].prev \in Hash /\ es[j].hash = Append(es[j].prev, <<es[j].seq, es[j].type, es[j].data>>)
  BY <1>3 DEF Event, HashOK, EventHash
<1>5. Len(es[j].hash) = Len(es[j].prev) + 1
  BY <1>4 DEF Hash
<1>6. Len(es[j].prev) = j - 1
  <2>1. CASE j = 1
    BY <1>3, <2>1 DEF LinkOK, GenesisPrev
  <2>2. CASE j # 1
    <3>1. j - 1 \in 1..Len(es) /\ ~(j <= j - 1)
      BY <1>1, <1>2, <2>2
    <3>2. j - 1 \notin T
      BY <1>2, <3>1
    <3>3. Len(es[j - 1].hash) = j - 1
      BY <3>1, <3>2
    <3> QED
      BY <1>3, <2>2, <3>3 DEF LinkOK
  <2> QED
    BY <2>1, <2>2
<1>7. j \in Nat /\ Len(es[j].hash) # j
  BY <1>1, <1>2
<1> QED
  BY <1>5, <1>6, <1>7

LEMMA LeavesDistinct ==
  ASSUME NEW es \in Seq(Event), Verify(es)
  PROVE  Distinct(Leaves(es), Len(es))
<1> SUFFICES ASSUME NEW i \in 1..Len(es), NEW j \in 1..Len(es), Leaves(es)[i] = Leaves(es)[j]
             PROVE  i = j
  BY DEF Distinct
<1>1. <<"event", es[i].hash>> = <<"event", es[j].hash>>
  BY LeavesList
<1>2. es[i].hash = es[j].hash
  BY <1>1
<1>3. Len(es[i].hash) = i /\ Len(es[j].hash) = j
  BY HashLengths
<1> QED
  BY <1>2, <1>3

LEMMA PathsOfTrace ==
  ASSUME NEW es \in Seq(Event), Verify(es), Len(es) # 0
  PROVE  /\ \A i, j \in 0..(Len(es) - 1) :
              VerifyPath(Leaves(es)[j + 1], GetProof(Leaves(es), i), Root(Leaves(es))) <=> i = j
         /\ \A m \in 1..(Len(es) - 1) : Root(SubSeq(Leaves(es), 1, m)) # Root(Leaves(es))
<1>1. PICK n : n = Len(es) /\ n \in Nat /\ n # 0
  OBVIOUS
<1>2. PICK s : s = Leaves(es)
  OBVIOUS
<1>3. List(s, n) /\ Distinct(s, n) /\ \A i \in 1..n : Leaf(s[i])
  BY <1>1, <1>2, LeavesList, LeavesDistinct DEF Leaf
<1>4. ASSUME NEW i \in 0..(n - 1), NEW j \in 0..(n - 1)
      PROVE  VerifyPath(s[j + 1], GetProof(s, i), Root(s)) <=> i = j
  <2>1. VerifyPath(s[j + 1], GetProof(s, i), Root(s)) <=> s[j + 1] = s[i + 1]
    BY <1>1, <1>3, PathTells
  <2>2. i + 1 \in 1..n /\ j + 1 \in 1..n
    BY <1>1
  <2>3. s[j + 1] = s[i + 1] <=> j + 1 = i + 1
    BY <1>3, <2>2 DEF Distinct
  <2> QED
    BY <2>1, <2>3
<1>5. ASSUME NEW m \in 1..(n - 1), Root(SubSeq(s, 1, m)) = Root(s) PROVE FALSE
  <2>1. s \in Seq({s[i] : i \in 1..n}) /\ Len(s) = n
    BY <1>1, <1>3, ListLength DEF List
  <2>2. PICK t : t = SubSeq(s, 1, m)
    OBVIOUS
  <2>3. m \in 0..n /\ m \in Nat /\ m # 0 /\ m # n /\ 1 \in 1..m
    BY <1>1
  <2>4. t \in Seq({s[i] : i \in 1..n}) /\ Len(t) = m /\ \A i \in 1..m : t[i] = s[i]
    BY <2>1, <2>2, <2>3, PartIs
  <2>5. List(t, m)
    BY <2>4, SeqIsList
  <2>6. \A i \in 1..m : i \in 1..n
    BY <1>1, <2>3
  <2>7. Distinct(t, m) /\ Leaf(t[1]) /\ Leaf(s[1])
    BY <1>3, <2>3, <2>4, <2>6 DEF Distinct
  <2>8. t = s
    BY <1>1, <1>3, <1>5, <2>2, <2>3, <2>5, <2>7, RootTellsAll
  <2> QED
    BY <2>1, <2>3, <2>4, <2>8
<1> QED
  BY <1>1, <1>2, <1>4, <1>5

(* The path of an event proves that event and no other, whatever the       *)
(* number of events, and no two stages of a trace have the same root       *)
(* (MerkleTree).                                                           *)
THEOREM PathsAlwaysProve == Spec => []PathsProve
<1>1. GInv => PathsProve
  <2> SUFFICES ASSUME GInv PROVE PathsProve
    OBVIOUS
  <2>1. PICK es : es = trace.events /\ es \in Seq(Event) /\ Verify(es)
    BY DEF GInv, TraceTrue, Trace
  <2>2. PICK n : n = Len(es) /\ n \in Nat
    BY <2>1
  <2>3. Len(Leaves(es)) = n
    BY <2>1, <2>2, LeavesList, ListLength
  <2>4. CASE n = 0
    <3>1. 0..(n - 1) = {} /\ 1..(n - 1) = {}
      BY <2>4
    <3> QED
      BY <2>1, <2>3, <3>1 DEF PathsProve
  <2>5. CASE n # 0
    <3>1. /\ \A i, j \in 0..(Len(es) - 1) :
               VerifyPath(Leaves(es)[j + 1], GetProof(Leaves(es), i), Root(Leaves(es))) <=> i = j
          /\ \A m \in 1..(Len(es) - 1) : Root(SubSeq(Leaves(es), 1, m)) # Root(Leaves(es))
      BY <2>1, <2>2, <2>5, PathsOfTrace
    <3> QED
      BY <2>1, <2>2, <2>3, <3>1 DEF PathsProve
  <2> QED
    BY <2>4, <2>5
<1> QED
  BY <1>1, AInvInit, AInvNext, GInvInit, GInvNext, PTL DEF Spec
=============================================================================
