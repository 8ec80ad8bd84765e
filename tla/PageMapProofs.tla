---------------------------- MODULE PageMapProofs ----------------------------
(***************************************************************************)
(* The page tables, for every number of entries of a table, every memory   *)
(* map and every set of pages and frames: they are a tree of frames that   *)
(* nobody else holds, and pmm_map_memory changes the translation of the    *)
(* page it is given and of no other.                                       *)
(***************************************************************************)
EXTENDS PageMap, PageFramesProofs, SequenceTheorems

-----------------------------------------------------------------------------
(* Trees of tables.                                                        *)

Entry == {{}} \cup {{p} : p \in Nat}
Table == [Index -> Entry]

Inner(L) == L[1] \cup L[2] \cup L[3]

\* L are the levels of a tree of tables in the memory M.
Tree(M, L) ==
  /\ \A k \in 1 .. 4 : L[k] \subseteq Nat
  /\ \A r, s \in L[1] : r = s
  /\ \A k \in 1 .. 3 : L[k + 1] = Children(M, L[k])
  /\ \A j, k \in 1 .. 4 : j # k => L[j] \cap L[k] = {}
  /\ \A t, u \in Inner(L), i, j \in Index :
       \A f \in M[t][i], g \in M[u][j] : f = g => t = u /\ i = j

\* The table whose entry v[4] is the last that pmm_find_paddr reads.
Leaf(M, root, v) ==
  Follow(M, Follow(M, Follow(M, {root}, v[1]), v[2]), v[3])

\* All that Follow finds lies one level down, and depends on these entries only.
LEMMA FollowIn ==
  ASSUME NEW M, NEW T, NEW i \in Index
  PROVE  Follow(M, T, i) \subseteq Children(M, T)
BY DEF Children

LEMMA FollowSame ==
  ASSUME NEW M, NEW N, NEW T, NEW i, \A t \in T : N[t][i] = M[t][i]
  PROVE  Follow(N, T, i) = Follow(M, T, i)
BY DEF Follow

LEMMA ChildrenIff ==
  ASSUME NEW M, NEW T
  PROVE  \A f : f \in Children(M, T) <=> \E t \in T, i \in Index : f \in M[t][i]
BY DEF Children, Follow

LEMMA ChildrenSame ==
  ASSUME NEW M, NEW N, NEW T, \A t \in T, i \in Index : N[t][i] = M[t][i]
  PROVE  Children(N, T) = Children(M, T)
BY ChildrenIff

\* The way to a page goes down one level at a time.
LEMMA WayDown ==
  ASSUME NEW M, NEW L, Tree(M, L), NEW root \in L[1], NEW v \in Page
  PROVE  LET c2 == Follow(M, {root}, v[1])
             c3 == Follow(M, c2, v[2])
         IN  /\ c2 \subseteq L[2] /\ c3 \subseteq L[3] /\ Leaf(M, root, v) \subseteq L[4]
             /\ v[1] \in Index /\ v[2] \in Index /\ v[3] \in Index /\ v[4] \in Index
<1> DEFINE c2 == Follow(M, {root}, v[1])
           c3 == Follow(M, c2, v[2])
<1>1. v[1] \in Index /\ v[2] \in Index /\ v[3] \in Index /\ v[4] \in Index
  BY DEF Page
<1>2. L[2] = Children(M, L[1]) /\ L[3] = Children(M, L[2]) /\ L[4] = Children(M, L[3])
  <2>1. \A k \in 1 .. 3 : L[k + 1] = Children(M, L[k]) BY DEF Tree
  <2>2. 1 + 1 = 2 /\ 2 + 1 = 3 /\ 3 + 1 = 4 /\ 1 \in 1 .. 3 /\ 2 \in 1 .. 3 /\ 3 \in 1 .. 3
    OBVIOUS
  <2> QED BY <2>1, <2>2
<1>3. \A T, U, i : T \subseteq U /\ i \in Index => Follow(M, T, i) \subseteq Children(M, U)
  BY DEF Follow, Children
<1>4. {root} \subseteq L[1] OBVIOUS
<1>5. c2 \subseteq L[2] BY <1>1, <1>2, <1>3, <1>4
<1> HIDE DEF c2
<1>6. c3 \subseteq L[3] BY <1>1, <1>2, <1>3, <1>5
<1> HIDE DEF c3
<1>7. Follow(M, c3, v[3]) \subseteq L[4] BY <1>1, <1>2, <1>3, <1>6
<1> QED BY <1>1, <1>5, <1>6, <1>7 DEF c2, c3, Leaf

\* A memory that differs only outside the inner tables holds the same tree.
LEMMA SameTree ==
  ASSUME NEW M, NEW L, Tree(M, L), NEW N,
         \A t \in Inner(L), i \in Index : N[t][i] = M[t][i]
  PROVE  /\ Tree(N, L)
         /\ \A root \in L[1], v \in Page : Leaf(N, root, v) = Leaf(M, root, v)
<1>1. ASSUME NEW k \in 1 .. 3 PROVE L[k + 1] = Children(N, L[k])
  <2>1. L[k] \subseteq Inner(L) BY DEF Inner
  <2>2. Children(N, L[k]) = Children(M, L[k]) BY <2>1, ChildrenSame
  <2> QED BY <2>2 DEF Tree
<1>2. Tree(N, L)
  <2>1. \A t, u \in Inner(L), i, j \in Index :
          \A f \in N[t][i], g \in N[u][j] : f = g => t = u /\ i = j
    BY DEF Tree
  <2> QED BY <1>1, <2>1 DEF Tree
<1>3. ASSUME NEW root \in L[1], NEW v \in Page PROVE Leaf(N, root, v) = Leaf(M, root, v)
  <2> DEFINE c2 == Follow(M, {root}, v[1])
             c3 == Follow(M, c2, v[2])
  <2>1. /\ c2 \subseteq L[2] /\ c3 \subseteq L[3]
        /\ v[1] \in Index /\ v[2] \in Index /\ v[3] \in Index
    BY WayDown
  <2>2. Follow(N, {root}, v[1]) = c2 BY <2>1, FollowSame DEF Inner
  <2> HIDE DEF c2
  <2>3. Follow(N, c2, v[2]) = c3 BY <2>1, FollowSame DEF Inner
  <2> HIDE DEF c3
  <2>4. Follow(N, c3, v[3]) = Follow(M, c3, v[3]) BY <2>1, FollowSame DEF Inner
  <2> QED BY <2>2, <2>3, <2>4 DEF Leaf, c2, c3
<1> QED BY <1>2, <1>3

\* A memory that differs only outside the tables translates as before.
LEMMA SameTranslation ==
  ASSUME NEW M, NEW L, Tree(M, L), NEW N,
         \A k \in 1 .. 4 : \A t \in L[k] : N[t] = M[t]
  PROVE  /\ Tree(N, L)
         /\ \A root \in L[1], v \in Page : Translation(N, root, v) = Translation(M, root, v)
<1>1. \A t \in Inner(L), i \in Index : N[t][i] = M[t][i] BY DEF Inner
<1>2. Tree(N, L) /\ \A root \in L[1], v \in Page : Leaf(N, root, v) = Leaf(M, root, v)
  BY <1>1, SameTree
<1>3. ASSUME NEW root \in L[1], NEW v \in Page
      PROVE  Translation(N, root, v) = Translation(M, root, v)
  <2>1. Leaf(M, root, v) \subseteq L[4] BY WayDown
  <2>2. Follow(N, Leaf(M, root, v), v[4]) = Follow(M, Leaf(M, root, v), v[4])
    BY <2>1, FollowSame
  <2> QED BY <1>2, <2>2 DEF Translation, Leaf
<1> QED BY <1>2, <1>3

-----------------------------------------------------------------------------
(* A new table.                                                            *)

\* N is M with frame f cleared and entered at index i of table a.
Hung(N, M, a, i, f) ==
  \A t \in DOMAIN M, j \in Index :
    N[t][j] = IF t = a /\ j = i THEN {f} ELSE IF t = f THEN {} ELSE M[t][j]

\* The levels of the tree with f as another table of level k.
With(L, k, f) == [j \in 1 .. 4 |-> IF j = k THEN L[j] \cup {f} ELSE L[j]]

LEMMA HungMemory ==
  ASSUME NEW D \in SUBSET Nat, NEW M \in [D -> Table], NEW a \in D, NEW i \in Index, NEW f \in D,
         a # f
  PROVE  LET B == [M EXCEPT ![f] = Blank]
             N == [B EXCEPT ![a][i] = {f}]
         IN  N \in [D -> Table] /\ Hung(N, M, a, i, f)
<1> DEFINE B == [M EXCEPT ![f] = Blank]
           N == [B EXCEPT ![a][i] = {f}]
<1>1. Blank \in Table BY DEF Blank, Table, Entry
<1>2. B \in [D -> Table] /\ B[a] = M[a] BY <1>1
<1>3. \A t \in D : B[t] = IF t = f THEN Blank ELSE M[t] OBVIOUS
<1>4. [M[a] EXCEPT ![i] = {f}] \in Table
  <2>1. M[a] \in Table /\ {f} \in Entry BY DEF Entry
  <2> QED BY <2>1 DEF Table
<1>5. N = [B EXCEPT ![a] = [M[a] EXCEPT ![i] = {f}]] BY <1>2
<1> HIDE DEF B, N
<1>6. N \in [D -> Table] BY <1>2, <1>4, <1>5
<1>7. \A t \in D : N[t] = IF t = a THEN [M[a] EXCEPT ![i] = {f}] ELSE B[t]
  BY <1>2, <1>5
<1>8. \A j \in Index : [M[a] EXCEPT ![i] = {f}][j] = IF j = i THEN {f} ELSE M[a][j]
  BY DEF Table
<1>9. ASSUME NEW t \in D, NEW j \in Index
      PROVE  N[t][j] = IF t = a /\ j = i THEN {f} ELSE IF t = f THEN {} ELSE M[t][j]
  BY <1>3, <1>7, <1>8 DEF Blank
<1> QED BY <1>6, <1>9 DEF Hung, B, N

\* A fresh frame under a free entry is a new table of the tree.
LEMMA HungTree ==
  ASSUME NEW M, NEW L, Tree(M, L), \A k \in 1 .. 4 : L[k] \subseteq DOMAIN M,
         NEW k \in 1 .. 3, NEW a \in L[k], NEW i \in Index, M[a][i] = {},
         NEW f \in DOMAIN M, f \in Nat, \A j \in 1 .. 4 : f \notin L[j],
         NEW N, Hung(N, M, a, i, f)
  PROVE  Tree(N, With(L, k + 1, f))
<1> DEFINE K == With(L, k + 1, f)
<1>1. \A j \in 1 .. 4 : K[j] = IF j = k + 1 THEN L[j] \cup {f} ELSE L[j]
  BY DEF With
<1>2. \A j, m \in 1 .. 4 : j # m => L[j] \cap L[m] = {} BY DEF Tree
<1>3. \A t \in DOMAIN M, j \in Index :
        N[t][j] = IF t = a /\ j = i THEN {f} ELSE IF t = f THEN {} ELSE M[t][j]
  BY DEF Hung
<1>4. a \in DOMAIN M /\ a # f /\ k \in 1 .. 4 /\ k + 1 \in 1 .. 4
      /\ \A j \in 1 .. 4 : a \in L[j] => j = k
  BY <1>2
<1> HIDE DEF K
<1>5. ASSUME NEW j \in 1 .. 3 PROVE K[j + 1] = Children(N, K[j])
  <2>1. j \in 1 .. 4 /\ j + 1 \in 1 .. 4 /\ L[j] \subseteq DOMAIN M /\ L[j + 1] = Children(M, L[j])
    BY DEF Tree
  <2>2. \A g : g \in L[j + 1] <=> \E t \in L[j], n \in Index : g \in M[t][n]
    BY <2>1, ChildrenIff
  <2>3. \A g : g \in Children(N, K[j]) <=> \E t \in K[j], n \in Index : g \in N[t][n]
    BY ChildrenIff
  <2>4. CASE j = k
    <3>1. K[j] = L[j] /\ K[j + 1] = L[j + 1] \cup {f} BY <1>1, <2>1, <2>4
    <3>2. \A t \in L[j] : t # f BY <2>1
    <3>3. \A g : g \in Children(N, K[j]) <=> g = f \/ g \in L[j + 1]
      BY <1>3, <1>4, <2>1, <2>2, <2>3, <2>4, <3>1, <3>2
    <3> QED BY <3>1, <3>3
  <2>5. CASE j # k
    <3>1. K[j + 1] = L[j + 1] BY <1>1, <2>1, <2>5
    <3>2. a \notin L[j] /\ f \notin L[j] /\ L[j] \subseteq K[j] /\ K[j] \subseteq L[j] \cup {f}
      BY <1>1, <1>4, <2>1, <2>5
    <3>3. \A t \in L[j], n \in Index : N[t][n] = M[t][n] BY <1>3, <2>1, <3>2
    <3>4. \A n \in Index : N[f][n] = {} BY <1>3, <1>4
    <3>5. \A g : g \in Children(N, K[j]) <=> g \in L[j + 1]
      BY <2>2, <2>3, <3>2, <3>3, <3>4
    <3> QED BY <3>1, <3>5
  <2> QED BY <2>4, <2>5
<1>6. \A j \in 1 .. 4 : K[j] \subseteq Nat BY <1>1 DEF Tree
<1>7. \A r, s \in K[1] : r = s
  <2>1. K[1] = L[1] BY <1>1
  <2> QED BY <2>1 DEF Tree
<1>8. \A j, m \in 1 .. 4 : j # m => K[j] \cap K[m] = {}
  BY <1>1, <1>2
<1>9. ASSUME NEW t \in Inner(K), NEW u \in Inner(K), NEW m \in Index, NEW j \in Index,
             NEW g \in N[t][m], g \in N[u][j]
      PROVE  t = u /\ m = j
  <2>1. Inner(K) \subseteq Inner(L) \cup {f} /\ Inner(L) \subseteq DOMAIN M
    BY <1>1 DEF Inner
  <2>2. \A x \in Inner(L), n \in Index : f \notin M[x][n]
    <3>1. ASSUME NEW l \in 1 .. 3, NEW x \in L[l], NEW n \in Index PROVE f \notin M[x][n]
      <4>1. L[l + 1] = Children(M, L[l]) /\ l + 1 \in 1 .. 4 BY DEF Tree
      <4> QED BY <4>1, ChildrenIff
    <3> QED BY <3>1 DEF Inner
  <2>3. \A x \in Inner(K), n \in Index :
          N[x][n] = IF x = a /\ n = i THEN {f} ELSE IF x = f THEN {} ELSE M[x][n]
    BY <1>3, <2>1
  <2>4. t \in Inner(L) /\ u \in Inner(L)
    BY <1>4, <1>9, <2>1, <2>3
  <2>5. CASE g = f
    BY <1>9, <2>2, <2>3, <2>4, <2>5
  <2>6. CASE g # f
    <3>1. g \in M[t][m] /\ g \in M[u][j] BY <1>9, <2>3, <2>6
    <3> QED BY <2>4, <3>1 DEF Tree
  <2> QED BY <2>5, <2>6
<1>10. \A t, u \in Inner(K), m, j \in Index :
         \A g \in N[t][m], h \in N[u][j] : g = h => t = u /\ m = j
  BY <1>9
<1> QED BY <1>5, <1>6, <1>7, <1>8, <1>10 DEF Tree, K

\* It leads nowhere: the translations are those without it.
LEMMA HungTranslation ==
  ASSUME NEW M, NEW L, Tree(M, L), \A k \in 1 .. 4 : L[k] \subseteq DOMAIN M,
         NEW k \in 1 .. 3, NEW a \in L[k], NEW i \in Index, M[a][i] = {},
         NEW f \in DOMAIN M, \A j \in 1 .. 4 : f \notin L[j],
         NEW N, Hung(N, M, a, i, f)
  PROVE  \A root \in L[1], v \in Page : Translation(N, root, v) = Translation(M, root, v)
<1> SUFFICES ASSUME NEW root \in L[1], NEW v \in Page
             PROVE  Translation(N, root, v) = Translation(M, root, v)
  OBVIOUS
<1>1. a \notin L[4]
  <2>1. k # 4 /\ k \in 1 .. 4 OBVIOUS
  <2> QED BY <2>1 DEF Tree
<1>2. \A t \in DOMAIN M, j \in Index :
        N[t][j] = IF t = a /\ j = i THEN {f} ELSE IF t = f THEN {} ELSE M[t][j]
  BY DEF Hung
<1> DEFINE Grown(T, U) == U = T \/ U = T \cup {f}
<1>3. ASSUME NEW l \in 1 .. 4, NEW T \in SUBSET L[l], NEW U, Grown(T, U), NEW n \in Index
      PROVE  /\ Grown(Follow(M, T, n), Follow(N, U, n))
             /\ l = 4 => Follow(N, U, n) = Follow(M, T, n)
  <2>1. T \subseteq DOMAIN M /\ f \notin T OBVIOUS
  <2>2. \A g : g \in Follow(M, T, n) <=> \E t \in T : g \in M[t][n] BY DEF Follow
  <2>3. \A g : g \in Follow(N, U, n) <=> \E t \in U : g \in N[t][n] BY DEF Follow
  <2>4. a # f BY <1>3
  <2>5. N[f][n] = {} BY <1>2, <2>4
  <2>6. \A g : g \in Follow(N, U, n) <=> \E t \in T : g \in N[t][n]
    BY <1>3, <2>3, <2>5
  <2>7. CASE a \in T /\ n = i
    <3>1. \A g : g \in Follow(N, U, n) <=> g = f \/ g \in Follow(M, T, n)
      BY <1>2, <2>1, <2>2, <2>6, <2>7
    <3>2. l # 4 BY <1>1, <2>7
    <3> QED BY <3>1, <3>2
  <2>8. CASE ~ (a \in T /\ n = i)
    <3>1. \A t \in T : N[t][n] = M[t][n] BY <1>2, <2>1, <2>8
    <3>2. \A g : g \in Follow(N, U, n) <=> g \in Follow(M, T, n)
      BY <2>2, <2>6, <3>1
    <3>3. Follow(N, U, n) = Follow(M, T, n) BY <3>2
    <3> QED BY <3>3
  <2> QED BY <2>7, <2>8
<1> DEFINE c2 == Follow(M, {root}, v[1])
           c3 == Follow(M, c2, v[2])
           c4 == Follow(M, c3, v[3])
           d2 == Follow(N, {root}, v[1])
           d3 == Follow(N, d2, v[2])
           d4 == Follow(N, d3, v[3])
<1>4. /\ c2 \subseteq L[2] /\ c3 \subseteq L[3] /\ c4 \subseteq L[4]
      /\ v[1] \in Index /\ v[2] \in Index /\ v[3] \in Index /\ v[4] \in Index
  BY WayDown DEF Leaf
<1>5. Translation(M, root, v) = Follow(M, c4, v[4]) /\ Translation(N, root, v) = Follow(N, d4, v[4])
  BY DEF Translation
<1>6. Grown({root}, {root}) /\ {root} \subseteq L[1] /\ {1, 2, 3, 4} \subseteq 1 .. 4
  OBVIOUS
<1> HIDE DEF Grown
<1>7. Grown(c2, d2) BY <1>3, <1>4, <1>6
<1> HIDE DEF c2, d2
<1>8. Grown(c3, d3) BY <1>3, <1>4, <1>6, <1>7
<1> HIDE DEF c3, d3
<1>9. Grown(c4, d4) BY <1>3, <1>4, <1>6, <1>8
<1> HIDE DEF c4, d4
<1> QED BY <1>3, <1>4, <1>5, <1>6, <1>9

-----------------------------------------------------------------------------
(* The last table.                                                         *)

\* What one entry holds is one table, which only one way leads to.
LEMMA OneWay ==
  ASSUME NEW M, NEW L, Tree(M, L), \A t \in Inner(L), i \in Index : M[t][i] \in Entry,
         NEW root \in L[1]
  PROVE  \A u, v \in Page : \A l \in Leaf(M, root, u), m \in Leaf(M, root, v) :
           l = m <=> u[1] = v[1] /\ u[2] = v[2] /\ u[3] = v[3]
<1> TAKE u, v \in Page
<1> TAKE l \in Leaf(M, root, u), m \in Leaf(M, root, v)
<1> DEFINE c2(w) == Follow(M, {root}, w[1])
           c3(w) == Follow(M, c2(w), w[2])
<1>1. \A w \in Page : /\ c2(w) \subseteq L[2] /\ c3(w) \subseteq L[3]
                      /\ w[1] \in Index /\ w[2] \in Index /\ w[3] \in Index
  BY WayDown
<1>2. PICK t3 \in c3(u) : l \in M[t3][u[3]] BY DEF Leaf, Follow
<1>3. PICK t2 \in c2(u) : t3 \in M[t2][u[2]] BY DEF Follow
<1>4. t2 \in M[root][u[1]] BY DEF Follow
<1>5. PICK s3 \in c3(v) : m \in M[s3][v[3]] BY DEF Leaf, Follow
<1>6. PICK s2 \in c2(v) : s3 \in M[s2][v[2]] BY DEF Follow
<1>7. s2 \in M[root][v[1]] BY DEF Follow
<1>8. t3 \in L[3] /\ s3 \in L[3] /\ t2 \in L[2] /\ s2 \in L[2] BY <1>1
<1> HIDE DEF c2, c3
<1>9. \A t \in Inner(L), i \in Index : \A g, h \in M[t][i] : g = h
  <2> TAKE t \in Inner(L), i \in Index
  <2>1. M[t][i] \in Entry OBVIOUS
  <2> QED BY <2>1 DEF Entry
<1>10. \A x, y \in Inner(L), i, j \in Index :
         \A f \in M[x][i], g \in M[y][j] : f = g => x = y /\ i = j
  BY DEF Tree
<1>11. {root, t2, s2, t3, s3} \subseteq Inner(L) BY <1>8 DEF Inner
<1>12. ASSUME l = m PROVE u[1] = v[1] /\ u[2] = v[2] /\ u[3] = v[3]
  <2>1. t3 = s3 /\ u[3] = v[3] BY <1>1, <1>2, <1>5, <1>10, <1>11, <1>12
  <2>2. t2 = s2 /\ u[2] = v[2] BY <1>1, <1>3, <1>6, <1>10, <1>11, <2>1
  <2>3. u[1] = v[1] BY <1>1, <1>4, <1>7, <1>10, <1>11, <2>2
  <2> QED BY <2>1, <2>2, <2>3
<1>13. ASSUME u[1] = v[1], u[2] = v[2], u[3] = v[3] PROVE l = m
  <2>1. t2 = s2 BY <1>1, <1>4, <1>7, <1>9, <1>11, <1>13
  <2>2. t3 = s3 BY <1>1, <1>3, <1>6, <1>9, <1>11, <1>13, <2>1
  <2> QED BY <1>1, <1>2, <1>5, <1>9, <1>11, <1>13, <2>2
<1> QED BY <1>12, <1>13

\* N is M with frame p in entry i of table l.
Written(N, M, l, i, p) ==
  \A t \in DOMAIN M, j \in Index : N[t][j] = IF t = l /\ j = i THEN {p} ELSE M[t][j]

Write(M, l, i, p) == [M EXCEPT ![l][i] = {p}]

LEMMA WrittenMemory ==
  ASSUME NEW D, NEW M \in [D -> Table], NEW l \in D, NEW i \in Index, NEW p \in Nat
  PROVE  Write(M, l, i, p) \in [D -> Table] /\ Written(Write(M, l, i, p), M, l, i, p)
<1> DEFINE E == [M[l] EXCEPT ![i] = {p}]
           N == Write(M, l, i, p)
<1>1. M[l] \in Table /\ {p} \in Entry BY DEF Entry
<1>2. E \in Table /\ \A j \in Index : E[j] = IF j = i THEN {p} ELSE M[l][j]
  BY <1>1 DEF Table
<1>3. N = [M EXCEPT ![l] = E] BY DEF Write
<1> HIDE DEF E, N
<1>4. N \in [D -> Table] /\ \A t \in D : N[t] = IF t = l THEN E ELSE M[t]
  BY <1>2, <1>3
<1>5. \A t \in D, j \in Index : N[t][j] = IF t = l /\ j = i THEN {p} ELSE M[t][j]
  BY <1>2, <1>4
<1> QED BY <1>4, <1>5 DEF Written, N

\* Writing the last entry maps the page and no other.
LEMMA LeafWritten ==
  ASSUME NEW M, NEW L, Tree(M, L), \A k \in 1 .. 4 : L[k] \subseteq DOMAIN M,
         \A t \in Inner(L), i \in Index : M[t][i] \in Entry,
         NEW root \in L[1], NEW v \in Page, NEW l \in Leaf(M, root, v), NEW p \in Nat,
         NEW N, Written(N, M, l, v[4], p)
  PROVE  /\ Tree(N, L)
         /\ Translation(N, root, v) = {p}
         /\ \A u \in Page : u # v => Translation(N, root, u) = Translation(M, root, u)
<1> DEFINE D == DOMAIN M
<1>1. l \in L[4] /\ l \in D /\ v[4] \in Index /\ l \notin Inner(L)
  <2>1. l \in L[4] /\ v[4] \in Index BY WayDown
  <2>2. l \notin L[1] /\ l \notin L[2] /\ l \notin L[3] BY <2>1 DEF Tree
  <2> QED BY <2>1, <2>2 DEF Inner
<1>2. \A t \in D, j \in Index :
        N[t][j] = IF t = l /\ j = v[4] THEN {p} ELSE M[t][j]
  BY DEF Written
<1>3. \A k \in 1 .. 4 : L[k] \subseteq D OBVIOUS
<1> HIDE DEF D
<1>4. \A t \in Inner(L), i \in Index : N[t][i] = M[t][i]
  <2>1. Inner(L) \subseteq D BY <1>3 DEF Inner
  <2> QED BY <1>1, <1>2, <2>1
<1>5. Tree(N, L) /\ \A u \in Page : Leaf(N, root, u) = Leaf(M, root, u)
  BY <1>4, SameTree
<1>6. \A u \in Page : /\ Translation(M, root, u) = Follow(M, Leaf(M, root, u), u[4])
                      /\ Translation(N, root, u) = Follow(N, Leaf(M, root, u), u[4])
  BY <1>5 DEF Translation, Leaf
<1>7. \A u, w \in Page : \A x \in Leaf(M, root, u), y \in Leaf(M, root, w) :
        x = y <=> u[1] = w[1] /\ u[2] = w[2] /\ u[3] = w[3]
  BY OneWay
<1>8. Translation(N, root, v) = {p}
  <2>1. Leaf(M, root, v) = {l} BY <1>7
  <2>2. Follow(N, {l}, v[4]) = N[l][v[4]] BY DEF Follow
  <2> QED BY <1>1, <1>2, <1>6, <2>1, <2>2
<1>9. ASSUME NEW u \in Page, u # v
      PROVE  Translation(N, root, u) = Translation(M, root, u)
  <2>1. Leaf(M, root, u) \subseteq D /\ u[4] \in Index
    <3>1. Leaf(M, root, u) \subseteq L[4] /\ u[4] \in Index BY WayDown
    <3> QED BY <1>3, <3>1
  <2>2. ~ (l \in Leaf(M, root, u) /\ u[4] = v[4])
    <3>1. SUFFICES ASSUME l \in Leaf(M, root, u), u[4] = v[4] PROVE FALSE OBVIOUS
    <3>2. u[1] = v[1] /\ u[2] = v[2] /\ u[3] = v[3] BY <1>7, <3>1
    <3> QED BY <1>9, <3>1, <3>2 DEF Page
  <2>3. \A t \in Leaf(M, root, u) : N[t][u[4]] = M[t][u[4]]
    BY <1>2, <2>1, <2>2
  <2>4. Follow(N, Leaf(M, root, u), u[4]) = Follow(M, Leaf(M, root, u), u[4])
    BY <2>3, FollowSame
  <2> QED BY <1>6, <2>4
<1> QED BY <1>5, <1>8, <1>9

-----------------------------------------------------------------------------
(* Ways.                                                                   *)

\* The table that the first n indices of v lead to, if there is one.
Way(M, root, v, n) ==
  IF n = 0 THEN {root}
  ELSE IF n = 1 THEN Follow(M, {root}, v[1])
  ELSE IF n = 2 THEN Follow(M, Follow(M, {root}, v[1]), v[2])
  ELSE Leaf(M, root, v)

LEMMA WayOn ==
  ASSUME NEW M, NEW root, NEW v
  PROVE  /\ Way(M, root, v, 0) = {root}
         /\ \A n \in 1 .. 3 : Way(M, root, v, n) = Follow(M, Way(M, root, v, n - 1), v[n])
         /\ Way(M, root, v, 3) = Leaf(M, root, v)
<1>1. Way(M, root, v, 1) = Follow(M, Way(M, root, v, 0), v[1]) BY DEF Way
<1>2. Way(M, root, v, 2) = Follow(M, Way(M, root, v, 1), v[2]) BY DEF Way
<1>3. Way(M, root, v, 3) = Follow(M, Way(M, root, v, 2), v[3]) BY DEF Way, Leaf
<1>4. Way(M, root, v, 0) = {root} /\ Way(M, root, v, 3) = Leaf(M, root, v) BY DEF Way
<1>5. ASSUME NEW n \in 1 .. 3
      PROVE  Way(M, root, v, n) = Follow(M, Way(M, root, v, n - 1), v[n])
  <2>1. n = 1 \/ n = 2 \/ n = 3 OBVIOUS
  <2>2. 1 - 1 = 0 /\ 2 - 1 = 1 /\ 3 - 1 = 2 OBVIOUS
  <2> QED BY <1>1, <1>2, <1>3, <2>1, <2>2
<1> QED BY <1>4, <1>5

LEMMA WayLevel ==
  ASSUME NEW M, NEW L, Tree(M, L), NEW root \in L[1], NEW v \in Page, NEW n \in 0 .. 3
  PROVE  Way(M, root, v, n) \subseteq L[n + 1]
<1>1. n = 0 \/ n = 1 \/ n = 2 \/ n = 3 OBVIOUS
<1>2. 0 + 1 = 1 /\ 1 + 1 = 2 /\ 2 + 1 = 3 /\ 3 + 1 = 4 OBVIOUS
<1>3. /\ Way(M, root, v, 0) \subseteq L[1] /\ Way(M, root, v, 1) \subseteq L[2]
      /\ Way(M, root, v, 2) \subseteq L[3] /\ Way(M, root, v, 3) \subseteq L[4]
  BY WayDown DEF Way
<1> QED BY <1>1, <1>2, <1>3

\* The ways depend on the inner tables only.
LEMMA WaySame ==
  ASSUME NEW M, NEW L, Tree(M, L), NEW N,
         \A t \in Inner(L), i \in Index : N[t][i] = M[t][i],
         NEW root \in L[1], NEW v \in Page, NEW n \in 0 .. 3
  PROVE  Way(N, root, v, n) = Way(M, root, v, n)
<1>1. ASSUME NEW k \in 1 .. 3, Way(N, root, v, k - 1) = Way(M, root, v, k - 1)
      PROVE  Way(N, root, v, k) = Way(M, root, v, k)
  <2>1. k - 1 \in 0 .. 3 /\ (k - 1) + 1 = k /\ v[k] \in Index
    <3>1. v[1] \in Index /\ v[2] \in Index /\ v[3] \in Index BY WayDown
    <3> QED BY <3>1
  <2>2. Way(M, root, v, k - 1) \subseteq L[k] BY <2>1, WayLevel
  <2>3. L[k] \subseteq Inner(L) BY DEF Inner
  <2>4. Follow(N, Way(M, root, v, k - 1), v[k]) = Follow(M, Way(M, root, v, k - 1), v[k])
    BY <2>1, <2>2, <2>3, FollowSame
  <2> QED BY <1>1, <2>4, WayOn
<1>2. Way(N, root, v, 0) = Way(M, root, v, 0) BY WayOn
<1>3. 1 \in 1 .. 3 /\ 2 \in 1 .. 3 /\ 3 \in 1 .. 3 /\ 1 - 1 = 0 /\ 2 - 1 = 1 /\ 3 - 1 = 2
  OBVIOUS
<1>4. Way(N, root, v, 1) = Way(M, root, v, 1) BY <1>1, <1>2, <1>3
<1>5. Way(N, root, v, 2) = Way(M, root, v, 2) BY <1>1, <1>3, <1>4
<1>6. Way(N, root, v, 3) = Way(M, root, v, 3) BY <1>1, <1>3, <1>5
<1>7. n = 0 \/ n = 1 \/ n = 2 \/ n = 3 OBVIOUS
<1> QED BY <1>2, <1>4, <1>5, <1>6, <1>7

\* A way leads to one table at most.
LEMMA WayOnly ==
  ASSUME NEW M, NEW L, Tree(M, L), \A t \in Inner(L), i \in Index : M[t][i] \in Entry,
         NEW root \in L[1], NEW v \in Page, NEW n \in 0 .. 3
  PROVE  \A f, g \in Way(M, root, v, n) : f = g
<1> DEFINE P(k) == \A f, g \in Way(M, root, v, k) : f = g
<1>1. ASSUME NEW k \in 1 .. 3, P(k - 1) PROVE P(k)
  <2> SUFFICES ASSUME NEW f \in Way(M, root, v, k), NEW g \in Way(M, root, v, k) PROVE f = g
    OBVIOUS
  <2>1. PICK s \in Way(M, root, v, k - 1) : f \in M[s][v[k]] BY WayOn DEF Follow
  <2>2. PICK t \in Way(M, root, v, k - 1) : g \in M[t][v[k]] BY WayOn DEF Follow
  <2>3. s = t BY <1>1
  <2>4. k - 1 \in 0 .. 3 /\ (k - 1) + 1 = k OBVIOUS
  <2>5. Way(M, root, v, k - 1) \subseteq L[(k - 1) + 1] BY <2>4, WayLevel
  <2>6. s \in Inner(L) BY <2>4, <2>5 DEF Inner
  <2>7. v[k] \in Index
    <3>1. v[1] \in Index /\ v[2] \in Index /\ v[3] \in Index BY DEF Page
    <3> QED BY <3>1
  <2>8. M[s][v[k]] \in Entry BY <2>6, <2>7
  <2> QED BY <2>1, <2>2, <2>3, <2>8 DEF Entry
<1>2. P(0) BY WayOn
<1>3. 1 \in 1 .. 3 /\ 2 \in 1 .. 3 /\ 3 \in 1 .. 3 /\ 1 - 1 = 0 /\ 2 - 1 = 1 /\ 3 - 1 = 2
  OBVIOUS
<1> HIDE DEF P
<1>4. P(1) BY <1>1, <1>2, <1>3
<1>5. P(2) BY <1>1, <1>3, <1>4
<1>6. P(3) BY <1>1, <1>3, <1>5
<1>7. n = 0 \/ n = 1 \/ n = 2 \/ n = 3 OBVIOUS
<1>8. P(n) BY <1>2, <1>4, <1>5, <1>6, <1>7
<1> QED BY <1>8 DEF P

\* Pages agree on the first n indices.
Agree(u, v, n) == \A j \in 1 .. n : u[j] = v[j]

\* Pages whose ways meet have come the same way.
LEMMA WaysMeet ==
  ASSUME NEW M, NEW L, Tree(M, L), NEW root \in L[1], NEW u \in Page, NEW v \in Page,
         NEW n \in 0 .. 3, NEW f \in Way(M, root, u, n), f \in Way(M, root, v, n)
  PROVE  Agree(u, v, n)
<1> DEFINE P(k) == \A g : g \in Way(M, root, u, k) /\ g \in Way(M, root, v, k) => Agree(u, v, k)
<1>1. ASSUME NEW k \in 1 .. 3, P(k - 1) PROVE P(k)
  <2> SUFFICES ASSUME NEW g, g \in Way(M, root, u, k), g \in Way(M, root, v, k)
               PROVE  Agree(u, v, k)
    OBVIOUS
  <2>1. PICK s \in Way(M, root, u, k - 1) : g \in M[s][u[k]] BY WayOn DEF Follow
  <2>2. PICK t \in Way(M, root, v, k - 1) : g \in M[t][v[k]] BY WayOn DEF Follow
  <2>3. k - 1 \in 0 .. 3 /\ (k - 1) + 1 = k OBVIOUS
  <2>4. s \in L[k] /\ t \in L[k]
    <3>1. Way(M, root, u, k - 1) \subseteq L[(k - 1) + 1] BY <2>3, WayLevel
    <3>2. Way(M, root, v, k - 1) \subseteq L[(k - 1) + 1] BY <2>3, WayLevel
    <3> QED BY <2>1, <2>2, <2>3, <3>1, <3>2
  <2>5. L[k] \subseteq Inner(L) BY DEF Inner
  <2>6. u[k] \in Index /\ v[k] \in Index
    <3>1. /\ u[1] \in Index /\ u[2] \in Index /\ u[3] \in Index
          /\ v[1] \in Index /\ v[2] \in Index /\ v[3] \in Index
      BY WayDown
    <3> QED BY <3>1
  <2>7. s = t /\ u[k] = v[k] BY <2>1, <2>2, <2>4, <2>5, <2>6 DEF Tree
  <2>8. Agree(u, v, k - 1) BY <1>1, <2>1, <2>2, <2>7
  <2> QED BY <2>7, <2>8 DEF Agree
<1>2. P(0) BY DEF Agree
<1>3. 1 \in 1 .. 3 /\ 2 \in 1 .. 3 /\ 3 \in 1 .. 3 /\ 1 - 1 = 0 /\ 2 - 1 = 1 /\ 3 - 1 = 2
  OBVIOUS
<1> HIDE DEF P
<1>4. P(1) BY <1>1, <1>2, <1>3
<1>5. P(2) BY <1>1, <1>3, <1>4
<1>6. P(3) BY <1>1, <1>3, <1>5
<1>7. n = 0 \/ n = 1 \/ n = 2 \/ n = 3 OBVIOUS
<1>8. P(n) BY <1>2, <1>4, <1>5, <1>6, <1>7
<1> QED BY <1>8 DEF P

\* And pages that agree go the same way.
LEMMA SameWay ==
  ASSUME NEW M, NEW root, NEW u, NEW v, NEW n \in 0 .. 3, Agree(u, v, n)
  PROVE  Way(M, root, u, n) = Way(M, root, v, n)
<1>1. CASE n = 0 BY <1>1, WayOn
<1>2. CASE n = 1
  <2>1. u[1] = v[1] BY <1>2 DEF Agree
  <2> QED BY <1>2, <2>1 DEF Way
<1>3. CASE n = 2
  <2>1. u[1] = v[1] /\ u[2] = v[2] BY <1>3 DEF Agree
  <2> QED BY <1>3, <2>1 DEF Way
<1>4. CASE n = 3
  <2>1. u[1] = v[1] /\ u[2] = v[2] /\ u[3] = v[3] BY <1>4 DEF Agree
  <2> QED BY <1>4, <2>1 DEF Way, Leaf
<1> QED BY <1>1, <1>2, <1>3, <1>4

\* N is M with a fresh table f hung under a free entry, the k-th on v's way.
Extended(N, M, L, root, v, k, f) ==
  /\ Tree(M, L) /\ \A j \in 1 .. 4 : L[j] \subseteq DOMAIN M /\ f \notin L[j]
  /\ root \in L[1] /\ v \in Page /\ k \in 1 .. 3 /\ f \in DOMAIN M
  /\ \E a \in Way(M, root, v, k - 1) : M[a][v[k]] = {} /\ Hung(N, M, a, v[k], f)

\* A new table at the end of v's way to level k is on the way of the pages that
\* agree with v so far, and no other way changes.
LEMMA HungWays ==
  ASSUME NEW M, NEW L, NEW root, NEW v, NEW k, NEW f, NEW N,
         Extended(N, M, L, root, v, k, f),
         NEW u \in Page, NEW n \in 0 .. 3
  PROVE  Way(N, root, u, n) =
           Way(M, root, u, n) \cup (IF n = k /\ Agree(u, v, n) THEN {f} ELSE {})
<1> SUFFICES
      ASSUME Tree(M, L), \A j \in 1 .. 4 : L[j] \subseteq DOMAIN M /\ f \notin L[j],
             root \in L[1], v \in Page, k \in 1 .. 3, f \in DOMAIN M,
             NEW a \in Way(M, root, v, k - 1), M[a][v[k]] = {}, Hung(N, M, a, v[k], f)
      PROVE  Way(N, root, u, n) =
               Way(M, root, u, n) \cup (IF n = k /\ Agree(u, v, n) THEN {f} ELSE {})
  BY DEF Extended
<1> DEFINE P(l) == Way(N, root, u, l) =
                     Way(M, root, u, l) \cup (IF l = k /\ Agree(u, v, l) THEN {f} ELSE {})
<1>1. \A t \in DOMAIN M, j \in Index :
        N[t][j] = IF t = a /\ j = v[k] THEN {f} ELSE IF t = f THEN {} ELSE M[t][j]
  BY DEF Hung
<1>2. a \in L[k] /\ a # f
  <2>1. k - 1 \in 0 .. 3 /\ (k - 1) + 1 = k /\ k \in 1 .. 4 OBVIOUS
  <2>2. Way(M, root, v, k - 1) \subseteq L[k] BY <2>1, WayLevel
  <2> QED BY <2>1, <2>2
<1>3. ASSUME NEW l \in 1 .. 3, P(l - 1) PROVE P(l)
  <2> DEFINE T == Way(M, root, u, l - 1)
             U == Way(N, root, u, l - 1)
  <2>1. T \subseteq L[l] /\ L[l] \subseteq DOMAIN M /\ f \notin T
    <3>1. l - 1 \in 0 .. 3 /\ (l - 1) + 1 = l /\ l \in 1 .. 4 OBVIOUS
    <3>2. T \subseteq L[l] BY <3>1, WayLevel
    <3> QED BY <3>1, <3>2
  <2>2. U = T \/ U = T \cup {f} BY <1>3
  <2>3. Way(M, root, u, l) = Follow(M, T, u[l]) /\ Way(N, root, u, l) = Follow(N, U, u[l])
    BY WayOn
  <2>4. u[l] \in Index /\ v[k] \in Index
    <3>1. /\ u[1] \in Index /\ u[2] \in Index /\ u[3] \in Index
          /\ v[1] \in Index /\ v[2] \in Index /\ v[3] \in Index
      BY WayDown
    <3> QED BY <3>1
  <2>5. a \in T /\ u[l] = v[k] <=> l = k /\ Agree(u, v, l)
    <3>1. ASSUME a \in T, u[l] = v[k] PROVE l = k /\ Agree(u, v, l)
      <4>1. l = k
        <5>1. l \in 1 .. 4 /\ k \in 1 .. 4 OBVIOUS
        <5> QED BY <1>2, <2>1, <3>1, <5>1 DEF Tree
      <4>2. Agree(u, v, k - 1)
        <5>1. k - 1 \in 0 .. 3 OBVIOUS
        <5> QED BY <3>1, <4>1, <5>1, WaysMeet
      <4> QED BY <3>1, <4>1, <4>2 DEF Agree
    <3>2. ASSUME l = k, Agree(u, v, l) PROVE a \in T /\ u[l] = v[k]
      <4>1. Agree(u, v, k - 1) /\ u[l] = v[k] /\ k - 1 \in 0 .. 3 BY <3>2 DEF Agree
      <4>2. Way(M, root, u, k - 1) = Way(M, root, v, k - 1) BY <4>1, SameWay
      <4> QED BY <3>2, <4>1, <4>2
    <3> QED BY <3>1, <3>2
  <2> HIDE DEF T, U
  <2>6. \A g : g \in Follow(M, T, u[l]) <=> \E t \in T : g \in M[t][u[l]] BY DEF Follow
  <2>7. \A g : g \in Follow(N, U, u[l]) <=> \E t \in U : g \in N[t][u[l]] BY DEF Follow
  <2>8. N[f][u[l]] = {} BY <1>1, <1>2, <2>4
  <2>9. \A g : g \in Follow(N, U, u[l]) <=> \E t \in T : g \in N[t][u[l]]
    BY <2>2, <2>7, <2>8
  <2>10. CASE a \in T /\ u[l] = v[k]
    <3>1. \A g : g \in Follow(N, U, u[l]) <=> g = f \/ g \in Follow(M, T, u[l])
      BY <1>1, <2>1, <2>4, <2>6, <2>9, <2>10
    <3>2. Follow(N, U, u[l]) = Follow(M, T, u[l]) \cup {f} BY <3>1
    <3> QED BY <2>3, <2>5, <2>10, <3>2
  <2>11. CASE ~ (a \in T /\ u[l] = v[k])
    <3>1. \A t \in T : N[t][u[l]] = M[t][u[l]] BY <1>1, <2>1, <2>4, <2>11
    <3>2. \A g : g \in Follow(N, U, u[l]) <=> g \in Follow(M, T, u[l])
      BY <2>6, <2>9, <3>1
    <3>3. Follow(N, U, u[l]) = Follow(M, T, u[l]) BY <3>2
    <3> QED BY <2>3, <2>5, <2>11, <3>3
  <2> QED BY <2>10, <2>11
<1>4. P(0)
  <2>1. 0 # k OBVIOUS
  <2> QED BY <2>1, WayOn
<1>5. 1 \in 1 .. 3 /\ 2 \in 1 .. 3 /\ 3 \in 1 .. 3 /\ 1 - 1 = 0 /\ 2 - 1 = 1 /\ 3 - 1 = 2
  OBVIOUS
<1> HIDE DEF P
<1>6. P(1) BY <1>3, <1>4, <1>5
<1>7. P(2) BY <1>3, <1>5, <1>6
<1>8. P(3) BY <1>3, <1>5, <1>7
<1>9. n = 0 \/ n = 1 \/ n = 2 \/ n = 3 OBVIOUS
<1>10. P(n) BY <1>4, <1>6, <1>7, <1>8, <1>9
<1> QED BY <1>10 DEF P

\* The prefixes of a page: one for each table on its way below the root.
Prefix(v) == {SubSeq(v, 1, n) : n \in 1 .. 3}

\* The tables below the root are those on the way to the prefixes P.
Covers(M, root, P) ==
  \A u \in Page, n \in 1 .. 3 : Way(M, root, u, n) # {} <=> SubSeq(u, 1, n) \in P

\* Two pages have a prefix in common as far as their indices agree.
LEMMA PrefixesEqual ==
  ASSUME NEW u \in Page, NEW v \in Page, NEW m \in 1 .. 3, NEW n \in 1 .. 3
  PROVE  SubSeq(u, 1, m) = SubSeq(v, 1, n) <=> m = n /\ \A j \in 1 .. n : u[j] = v[j]
<1>1. \A w \in Page : w \in Seq(Index) /\ Len(w) = 4
  <2> TAKE w \in Page
  <2>1. PICK a \in Index, b \in Index, c \in Index, d \in Index : w = <<a, b, c, d>> BY DEF Page
  <2> QED BY <2>1
<1>2. ASSUME NEW w \in Page, NEW k \in 1 .. 3
      PROVE  /\ SubSeq(w, 1, k) \in Seq(Index) /\ Len(SubSeq(w, 1, k)) = k
             /\ \A j \in 1 .. k : SubSeq(w, 1, k)[j] = w[j]
  <2>1. w \in Seq(Index) /\ Len(w) = 4 BY <1>1
  <2>2. 1 \in 1 .. Len(w) + 1 /\ k \in 1 - 1 .. Len(w) BY <2>1
  <2> QED BY <2>1, <2>2, SubSeqProperties
<1> QED BY <1>2

\* A new table is there for one more prefix.
LEMMA HungCovers ==
  ASSUME NEW M, NEW L, NEW root, NEW v, NEW k, NEW f, NEW N,
         Extended(N, M, L, root, v, k, f), NEW P, Covers(M, root, P)
  PROVE  Covers(N, root, P \cup {SubSeq(v, 1, k)}) /\ f \in Way(N, root, v, k)
<1>0. v \in Page /\ k \in 1 .. 3 BY DEF Extended
<1>1. \A u \in Page : \A n \in 0 .. 3 :
        Way(N, root, u, n) =
          Way(M, root, u, n) \cup (IF n = k /\ Agree(u, v, n) THEN {f} ELSE {})
  BY HungWays
<1>2. ASSUME NEW u \in Page, NEW n \in 1 .. 3
      PROVE  Way(N, root, u, n) # {} <=> SubSeq(u, 1, n) \in P \cup {SubSeq(v, 1, k)}
  <2>1. SubSeq(u, 1, n) = SubSeq(v, 1, k) <=> n = k /\ Agree(u, v, n)
    BY <1>0, PrefixesEqual DEF Agree
  <2>2. Way(M, root, u, n) # {} <=> SubSeq(u, 1, n) \in P BY DEF Covers
  <2>3. n \in 0 .. 3 OBVIOUS
  <2> QED BY <1>1, <2>1, <2>2, <2>3
<1>3. Covers(N, root, P \cup {SubSeq(v, 1, k)}) BY <1>2 DEF Covers
<1>4. f \in Way(N, root, v, k)
  <2>1. k \in 0 .. 3 /\ Agree(v, v, k) BY <1>0 DEF Agree
  <2> QED BY <1>0, <1>1, <2>1
<1> QED BY <1>3, <1>4

\* What does not touch the inner tables leaves no way.
LEMMA CoversSame ==
  ASSUME NEW M, NEW L, Tree(M, L), NEW N,
         \A t \in Inner(L), i \in Index : N[t][i] = M[t][i],
         NEW root \in L[1], NEW P, Covers(M, root, P)
  PROVE  Covers(N, root, P)
<1>1. ASSUME NEW v \in Page, NEW n \in 1 .. 3
      PROVE  Way(N, root, v, n) = Way(M, root, v, n)
  <2>1. n \in 0 .. 3 OBVIOUS
  <2> QED BY <2>1, WaySame
<1> QED BY <1>1 DEF Covers

\* From a cleared root there is no way.
LEMMA BlankCovers ==
  ASSUME NEW M, NEW f, \A i \in Index : M[f][i] = {}
  PROVE  Covers(M, f, {})
<1> SUFFICES ASSUME NEW u \in Page, NEW n \in 1 .. 3 PROVE Way(M, f, u, n) = {}
  BY DEF Covers
<1>1. u[1] \in Index BY DEF Page
<1>2. Follow(M, {f}, u[1]) = {} BY <1>1 DEF Follow
<1>3. \A i : Follow(M, {}, i) = {} BY DEF Follow
<1> QED BY <1>2, <1>3 DEF Way, Leaf

-----------------------------------------------------------------------------
(* Walks.                                                                  *)

Walking(w) == w = [ppa |-> w.ppa, mem |-> w.mem, lost |-> w.lost, at |-> w.at]

\* The walk w is among tables of the levels L, which are frames of memory that
\* are taken and not spoken for by H.
Sound(w, L, H) ==
  /\ Walking(w) /\ w.lost \in BOOLEAN
  /\ SoundBitmap(w.ppa)
  /\ w.mem \in [Frames(w.ppa) -> Table]
  /\ Tree(w.mem, L)
  /\ \A k \in 1 .. 4 : L[k] \subseteq w.ppa.bits \cap Usable(w.ppa) /\ L[k] \cap H = {}
  /\ H \cap Frames(w.ppa) \subseteq w.ppa.bits

(***************************************************************************)
(* What a walk keeps that set out from the allocator s and the             *)
(* translation tr: the translation, and that it asked for frames in the    *)
(* order of the search.                                                    *)
(***************************************************************************)
Reached(w, L, H, s, tr) ==
  /\ Sound(w, L, H)
  /\ SameHeader(w.ppa, s)
  /\ \A root \in L[1], v \in Page : Translation(w.mem, root, v) = tr[v]
  /\ ~ w.lost => Frames(s) \cap (s.last_hit .. (w.ppa.last_hit - 1)) \subseteq w.ppa.bits
  /\ w.lost => s.last_hit .. s.max_index \subseteq w.ppa.bits

LEMMA NewTableEffect ==
  ASSUME NEW w, Walking(w), SoundBitmap(w.ppa), w.mem \in [Frames(w.ppa) -> Table]
  PROVE  LET x == NewTable(w)
             f == RequestedFrame(w.ppa)
         IN  /\ Walking(x) /\ SoundBitmap(x.ppa) /\ SameHeader(x.ppa, w.ppa)
             /\ f \in Usable(w.ppa) =>
                  /\ x.lost = w.lost /\ x.at = f /\ x.mem = [w.mem EXCEPT ![f] = Blank]
                  /\ f \notin w.ppa.bits /\ f \notin Fixed(w.ppa)
                  /\ x.ppa.bits = w.ppa.bits \cup {f} /\ x.ppa.last_hit = f
                  /\ Frames(w.ppa) \cap (w.ppa.last_hit .. f) \subseteq x.ppa.bits
             /\ f \notin Usable(w.ppa) =>
                  /\ x.lost = TRUE /\ x.mem = w.mem /\ x.at = w.at
                  /\ x.ppa.bits = w.ppa.bits
                  /\ w.ppa.last_hit .. w.ppa.max_index \subseteq w.ppa.bits
<1> DEFINE x == NewTable(w)
           f == RequestedFrame(w.ppa)
           q == ppa_request(w.ppa)
<1>1. /\ SoundBitmap(q) /\ SameHeader(q, w.ppa) /\ f \in Nat
      /\ f \in Usable(w.ppa) =>
           /\ f \notin w.ppa.bits /\ f \notin Fixed(w.ppa)
           /\ q.bits = w.ppa.bits \cup {f} /\ q.last_hit = f
           /\ Frames(w.ppa) \cap (w.ppa.last_hit .. f) \subseteq q.bits
      /\ f \notin Usable(w.ppa) =>
           /\ q.bits = w.ppa.bits
           /\ w.ppa.last_hit .. w.ppa.max_index \subseteq w.ppa.bits
  BY RequestBits DEF Usable
<1> HIDE DEF q, f
<1>2. CASE f \in Usable(w.ppa)
  <2>1. x = [ppa |-> q, mem |-> [w.mem EXCEPT ![f] = Blank], lost |-> w.lost, at |-> f]
    BY <1>2 DEF NewTable, Walking, q, f
  <2> HIDE DEF x
  <2>2. /\ x.ppa = q /\ x.mem = [w.mem EXCEPT ![f] = Blank] /\ x.lost = w.lost
        /\ x.at = f /\ Walking(x)
    BY <2>1 DEF Walking
  <2> QED BY <1>1, <1>2, <2>2 DEF x, f
<1>3. CASE f \notin Usable(w.ppa)
  <2>1. x = [ppa |-> q, mem |-> w.mem, lost |-> TRUE, at |-> w.at]
    BY <1>3 DEF NewTable, Walking, q, f
  <2> HIDE DEF x
  <2>2. x.ppa = q /\ x.mem = w.mem /\ x.lost = TRUE /\ x.at = w.at /\ Walking(x)
    BY <2>1 DEF Walking
  <2> QED BY <1>1, <1>3, <2>2 DEF x, f
<1> QED BY <1>2, <1>3

\* A frame that is clear is none of the tables and not spoken for.
LEMMA FreshFrame ==
  ASSUME NEW w, NEW L, NEW H, Sound(w, L, H), NEW f \in Usable(w.ppa), f \notin w.ppa.bits
  PROVE  /\ f \in Frames(w.ppa) /\ f \in Nat /\ f \notin H
         /\ \A k \in 1 .. 4 : f \notin L[k] /\ L[k] \subseteq Frames(w.ppa)
<1>1. Frames(w.ppa) \subseteq Nat BY DEF Frames
<1>2. f \in Frames(w.ppa) BY DEF Usable
<1> QED BY <1>1, <1>2 DEF Sound, Usable

\* Where the entry is free and there is a frame, it is cleared and hung there.
Hangs(x, w, i) ==
  LET f == RequestedFrame(w.ppa)
  IN  /\ Walking(x) /\ x.lost = w.lost /\ x.at = f
      /\ x.ppa = ppa_request(w.ppa) /\ SoundBitmap(x.ppa) /\ SameHeader(x.ppa, w.ppa)
      /\ f \notin w.ppa.bits
      /\ x.ppa.bits = w.ppa.bits \cup {f} /\ x.ppa.last_hit = f
      /\ Frames(w.ppa) \cap (w.ppa.last_hit .. f) \subseteq x.ppa.bits
      /\ x.mem \in [Frames(w.ppa) -> Table] /\ Hung(x.mem, w.mem, w.at, i, f)

LEMMA EnterHangs ==
  ASSUME NEW w, NEW L, NEW H, Sound(w, L, H), ~ w.lost, NEW k \in 1 .. 3, w.at \in L[k],
         NEW i \in Index, w.mem[w.at][i] = {}, RequestedFrame(w.ppa) \in Usable(w.ppa)
  PROVE  Hangs(Enter(w, i), w, i)
<1> DEFINE x   == Enter(w, i)
           new == NewTable(w)
           f   == RequestedFrame(w.ppa)
           D   == Frames(w.ppa)
<1>1. /\ w.lost \in BOOLEAN
      /\ Walking(w) /\ SoundBitmap(w.ppa) /\ w.mem \in [D -> Table]
  BY DEF Sound
<1>2. /\ Walking(new) /\ SoundBitmap(new.ppa) /\ SameHeader(new.ppa, w.ppa)
      /\ new.lost = w.lost /\ new.at = f /\ new.mem = [w.mem EXCEPT ![f] = Blank]
      /\ f \notin w.ppa.bits
      /\ new.ppa.bits = w.ppa.bits \cup {f} /\ new.ppa.last_hit = f
      /\ D \cap (w.ppa.last_hit .. f) \subseteq new.ppa.bits
  BY <1>1, NewTableEffect
<1>3. new.ppa = ppa_request(w.ppa) BY <1>1 DEF NewTable, Walking
<1>4. x = [new EXCEPT !.mem = [@ EXCEPT ![w.at][i] = {new.at}]]
  BY <1>2 DEF Enter
<1> HIDE DEF new
<1>5. /\ Walking(x) /\ x.ppa = new.ppa /\ x.lost = w.lost /\ x.at = f
      /\ x.mem = [new.mem EXCEPT ![w.at][i] = {f}]
  BY <1>2, <1>4 DEF Walking
<1> HIDE DEF x
<1>6. f \in D /\ \A j \in 1 .. 4 : f \notin L[j] /\ L[j] \subseteq D
  BY <1>2, FreshFrame
<1>7. w.at \in D /\ w.at # f /\ D \in SUBSET Nat BY <1>6 DEF Frames
<1>8. x.mem \in [D -> Table] /\ Hung(x.mem, w.mem, w.at, i, f)
  <2>1. x.mem = [[w.mem EXCEPT ![f] = Blank] EXCEPT ![w.at][i] = {f}] BY <1>2, <1>5
  <2> DEFINE a == w.at
             M == w.mem
  <2>2. M \in [D -> Table] /\ a \in D /\ D \in SUBSET Nat /\ f \in D /\ a # f
    BY <1>1, <1>6, <1>7
  <2> HIDE DEF D, f, a, M
  <2>3. LET B == [M EXCEPT ![f] = Blank]
            N == [B EXCEPT ![a][i] = {f}]
        IN  N \in [D -> Table] /\ Hung(N, M, a, i, f)
    BY <2>2, HungMemory
  <2> QED BY <2>1, <2>3 DEF a, M, f, D
<1> QED BY <1>2, <1>3, <1>5, <1>8 DEF Hangs, x, f, D

\* From w the walk x has come one level down, along entry i of a table of level k.
Down(x, w, k, i, L, H, s, tr) ==
  \E K : /\ Reached(x, K, H, s, tr)
         /\ K[1] = L[1] /\ \A j \in 1 .. 4 : L[j] \subseteq K[j]
         /\ \A t \in Inner(L), j \in Index : w.mem[t][j] \subseteq x.mem[t][j]
         /\ ~ x.lost => /\ ~ w.lost
                        /\ x.at \in K[k + 1] /\ x.at \in x.mem[w.at][i]

(***************************************************************************)
(* One level of pmm_map_memory: the walk goes down along the entry, and    *)
(* where it was free a new table hangs there now.                          *)
(***************************************************************************)
LEMMA EnterEffect ==
  ASSUME NEW w, NEW L, NEW H, NEW s \in State, NEW tr, Reached(w, L, H, s, tr),
         NEW k \in 1 .. 3, ~ w.lost => w.at \in L[k], NEW i \in Index
  PROVE  Down(Enter(w, i), w, k, i, L, H, s, tr)
<1> DEFINE x     == Enter(w, i)
           found == w.mem[w.at][i]
           new   == NewTable(w)
           f     == RequestedFrame(w.ppa)
           D     == Frames(w.ppa)
<1>1. /\ Sound(w, L, H) /\ SameHeader(w.ppa, s) /\ w.lost \in BOOLEAN
      /\ Walking(w) /\ SoundBitmap(w.ppa) /\ w.mem \in [D -> Table] /\ Tree(w.mem, L)
  BY DEF Reached, Sound
<1>2. CASE w.lost
  <2>1. x = w BY <1>2 DEF Enter
  <2> HIDE DEF x
  <2> QED BY <1>2, <2>1 DEF x, Down
<1>3. CASE ~ w.lost /\ found # {}
  <2>1. w.at \in L[k] /\ L[k] \subseteq D BY <1>1, <1>3 DEF Sound, Usable
  <2>2. PICK g \in found : x = [w EXCEPT !.at = g]
    BY <1>3 DEF Enter
  <2>3. /\ Walking(x) /\ x.ppa = w.ppa /\ x.mem = w.mem /\ x.lost = w.lost /\ x.at = g
    BY <1>1, <2>2 DEF Walking
  <2>4. g \in L[k + 1]
    <3>1. L[k + 1] = Children(w.mem, L[k]) BY <1>1 DEF Tree
    <3> QED BY <2>1, <2>2, <3>1, ChildrenIff
  <2> HIDE DEF x
  <2>5. Reached(x, L, H, s, tr) BY <2>3 DEF Reached, Sound
  <2> QED BY <1>3, <2>2, <2>3, <2>4, <2>5 DEF x, Down
<1>4. CASE ~ w.lost /\ found = {} /\ f \notin Usable(w.ppa)
  <2>1. /\ Walking(new) /\ SoundBitmap(new.ppa) /\ SameHeader(new.ppa, w.ppa)
        /\ new.lost = TRUE /\ new.mem = w.mem /\ new.ppa.bits = w.ppa.bits
        /\ w.ppa.last_hit .. w.ppa.max_index \subseteq w.ppa.bits
    BY <1>1, <1>4, NewTableEffect
  <2>2. x = new BY <1>4, <2>1 DEF Enter
  <2> HIDE DEF x, new
  <2>3. SameHeader(x.ppa, s) BY <1>1, <2>1, <2>2 DEF SameHeader
  <2>4. Frames(x.ppa) = D BY <2>1, <2>2, SameFixed
  <2>5. Sound(x, L, H)
    BY <1>1, <2>1, <2>2, <2>4 DEF Sound, Usable
  <2>6. s.last_hit .. s.max_index \subseteq w.ppa.bits
    <3>1. Frames(s) \cap (s.last_hit .. (w.ppa.last_hit - 1)) \subseteq w.ppa.bits
      BY <1>4 DEF Reached
    <3>2. s.max_index = w.ppa.max_index BY <1>1 DEF SameHeader
    <3>3. s.last_hit \in Nat /\ s.max_index \in Nat /\ w.ppa.last_hit \in Nat
      BY <1>1, SizeAssumption DEF SoundBitmap, State, Counter
    <3>4. \A n \in s.last_hit .. s.max_index :
            \/ n \in Frames(s) /\ n \in s.last_hit .. (w.ppa.last_hit - 1)
            \/ n \in w.ppa.last_hit .. w.ppa.max_index
      BY <3>2, <3>3 DEF Frames
    <3> QED BY <2>1, <3>1, <3>4
  <2>7. Reached(x, L, H, s, tr)
    BY <2>1, <2>2, <2>3, <2>5, <2>6 DEF Reached
  <2> QED BY <2>1, <2>2, <2>7 DEF x, Down
<1>5. CASE ~ w.lost /\ found = {} /\ f \in Usable(w.ppa)
  <2> DEFINE K == With(L, k + 1, f)
  <2>1. /\ Walking(x) /\ x.lost = w.lost /\ x.at = f
        /\ SoundBitmap(x.ppa) /\ SameHeader(x.ppa, w.ppa)
        /\ f \notin w.ppa.bits
        /\ x.ppa.bits = w.ppa.bits \cup {f} /\ x.ppa.last_hit = f
        /\ D \cap (w.ppa.last_hit .. f) \subseteq x.ppa.bits
        /\ x.mem \in [D -> Table] /\ Hung(x.mem, w.mem, w.at, i, f)
    BY <1>1, <1>5, EnterHangs DEF Hangs
  <2> HIDE DEF x
  <2>2. /\ f \in D /\ f \in Nat /\ f \notin H
        /\ \A j \in 1 .. 4 : f \notin L[j] /\ L[j] \subseteq D
    BY <1>1, <1>5, <2>1, FreshFrame
  <2>3. w.at \in L[k] /\ w.at \in D /\ w.at # f /\ DOMAIN w.mem = D
    BY <1>1, <1>5, <2>2
  <2>4. Tree(x.mem, K)
    BY <1>1, <1>5, <2>1, <2>2, <2>3, HungTree
  <2>5. \A root \in L[1], v \in Page : Translation(x.mem, root, v) = Translation(w.mem, root, v)
    BY <1>1, <1>5, <2>1, <2>2, <2>3, HungTranslation
  <2>6. \A j \in 1 .. 4 : K[j] = IF j = k + 1 THEN L[j] \cup {f} ELSE L[j]
    BY DEF With
  <2> HIDE DEF K
  <2>7. Frames(x.ppa) = D /\ SameHeader(x.ppa, s) BY <1>1, <2>1, SameFixed DEF SameHeader
  <2>8. Sound(x, K, H)
    <3>1. \A j \in 1 .. 4 : K[j] \subseteq x.ppa.bits \cap Usable(x.ppa) /\ K[j] \cap H = {}
      BY <1>1, <1>5, <2>1, <2>2, <2>6, <2>7 DEF Sound, Usable
    <3>2. H \cap Frames(x.ppa) \subseteq x.ppa.bits
      BY <1>1, <2>1, <2>7 DEF Sound
    <3> QED BY <1>1, <2>1, <2>4, <2>7, <3>1, <3>2 DEF Sound
  <2>9. K[1] = L[1] /\ \A j \in 1 .. 4 : L[j] \subseteq K[j] BY <2>6
  <2>10. Frames(s) \cap (s.last_hit .. (x.ppa.last_hit - 1)) \subseteq x.ppa.bits
    <3>1. Frames(s) \cap (s.last_hit .. (w.ppa.last_hit - 1)) \subseteq w.ppa.bits
      BY <1>5 DEF Reached
    <3>2. Frames(s) = D BY <1>1, SameFixed
    <3>3. s.last_hit \in Nat /\ w.ppa.last_hit \in Nat
      BY <1>1 DEF SoundBitmap, State
    <3>4. \A n \in s.last_hit .. (f - 1) :
            n \in s.last_hit .. (w.ppa.last_hit - 1) \/ n \in w.ppa.last_hit .. f
      BY <2>2, <3>3
    <3> QED BY <2>1, <3>1, <3>2, <3>4
  <2>11. Reached(x, K, H, s, tr)
    BY <1>5, <2>1, <2>5, <2>7, <2>8, <2>9, <2>10 DEF Reached
  <2>12. \A t \in Inner(L), j \in Index : w.mem[t][j] \subseteq x.mem[t][j]
    <3>1. Inner(L) \subseteq D /\ f \notin Inner(L) BY <2>2 DEF Inner
    <3>2. \A t \in D, j \in Index :
            x.mem[t][j] = IF t = w.at /\ j = i THEN {f} ELSE IF t = f THEN {} ELSE w.mem[t][j]
      BY <2>1, <2>3 DEF Hung
    <3> HIDE DEF D
    <3>3. ASSUME NEW t \in Inner(L), NEW j \in Index PROVE w.mem[t][j] \subseteq x.mem[t][j]
      BY <1>5, <3>1, <3>2
    <3> QED BY <3>3
  <2>13. f \in K[k + 1] /\ f \in x.mem[w.at][i]
    BY <2>1, <2>3, <2>6 DEF Hung
  <2> QED BY <1>5, <2>1, <2>9, <2>11, <2>12, <2>13 DEF x, Down
<1> QED BY <1>2, <1>3, <1>4, <1>5

\* The walk x has mapped page v to frame p, or is lost and has mapped nothing.
Mapped(x, L, H, s, tr, root, v, p) ==
  \E K : /\ Sound(x, K, H) /\ SameHeader(x.ppa, s) /\ K[1] = L[1]
         /\ x.lost =>
              /\ s.last_hit .. s.max_index \subseteq x.ppa.bits
              /\ \A u \in Page : Translation(x.mem, root, u) = tr[u]
         /\ ~ x.lost =>
              /\ Translation(x.mem, root, v) = {p}
              /\ \A u \in Page : u # v => Translation(x.mem, root, u) = tr[u]

\* pmm_map_memory maps the page it is given, or runs out of frames and maps nothing.
LEMMA MapEffect ==
  ASSUME NEW w, NEW L, NEW H, NEW s \in State, NEW tr, Reached(w, L, H, s, tr), ~ w.lost,
         NEW root \in L[1], NEW v \in Page, NEW p \in Nat
  PROVE  Mapped(pmm_map_memory(w, root, v, p), L, H, s, tr, root, v, p)
<1> DEFINE w1 == [w EXCEPT !.at = root]
           w2 == Enter(w1, v[1])
           w3 == Enter(w2, v[2])
           w4 == Enter(w3, v[3])
           x  == pmm_map_memory(w, root, v, p)
<1>1. v[1] \in Index /\ v[2] \in Index /\ v[3] \in Index /\ v[4] \in Index BY DEF Page
<1>2. Walking(w1) /\ w1.ppa = w.ppa /\ w1.mem = w.mem /\ w1.lost = w.lost /\ w1.at = root
  BY DEF Reached, Sound, Walking
<1>3. x = IF w4.lost THEN w4 ELSE [w4 EXCEPT !.mem = [@ EXCEPT ![w4.at][v[4]] = {p}]]
  BY DEF pmm_map_memory
<1> HIDE DEF w1, x
<1>4. Reached(w1, L, H, s, tr) BY <1>2 DEF Reached, Sound
<1>5. PICK L2 : /\ Reached(w2, L2, H, s, tr)
                /\ L2[1] = L[1] /\ \A j \in 1 .. 4 : L[j] \subseteq L2[j]
                /\ \A t \in Inner(L), j \in Index : w1.mem[t][j] \subseteq w2.mem[t][j]
                /\ ~ w2.lost => /\ ~ w1.lost
                                /\ w2.at \in L2[1 + 1] /\ w2.at \in w2.mem[w1.at][v[1]]
  <2>1. 1 \in 1 .. 3 /\ w1.at \in L[1] BY <1>2
  <2>2. Down(w2, w1, 1, v[1], L, H, s, tr) BY <1>1, <1>4, <2>1, EnterEffect
  <2> QED BY <2>2 DEF Down
<1> HIDE DEF w2
<1>6. PICK L3 : /\ Reached(w3, L3, H, s, tr)
                /\ L3[1] = L2[1] /\ \A j \in 1 .. 4 : L2[j] \subseteq L3[j]
                /\ \A t \in Inner(L2), j \in Index : w2.mem[t][j] \subseteq w3.mem[t][j]
                /\ ~ w3.lost => /\ ~ w2.lost
                                /\ w3.at \in L3[2 + 1] /\ w3.at \in w3.mem[w2.at][v[2]]
  <2>1. 2 \in 1 .. 3 /\ (~ w2.lost => w2.at \in L2[2]) /\ Reached(w2, L2, H, s, tr) BY <1>5
  <2>2. Down(w3, w2, 2, v[2], L2, H, s, tr) BY <1>1, <2>1, EnterEffect
  <2> QED BY <2>2 DEF Down
<1> HIDE DEF w3
<1>7. PICK L4 : /\ Reached(w4, L4, H, s, tr)
                /\ L4[1] = L3[1] /\ \A j \in 1 .. 4 : L3[j] \subseteq L4[j]
                /\ \A t \in Inner(L3), j \in Index : w3.mem[t][j] \subseteq w4.mem[t][j]
                /\ ~ w4.lost => /\ ~ w3.lost
                                /\ w4.at \in L4[3 + 1] /\ w4.at \in w4.mem[w3.at][v[3]]
  <2>1. 3 \in 1 .. 3 /\ (~ w3.lost => w3.at \in L3[3]) /\ Reached(w3, L3, H, s, tr) BY <1>6
  <2>2. Down(w4, w3, 3, v[3], L3, H, s, tr) BY <1>1, <2>1, EnterEffect
  <2> QED BY <2>2 DEF Down
<1> HIDE DEF w4
<1>8. L4[1] = L[1] /\ root \in L4[1] BY <1>5, <1>6, <1>7
<1>9. CASE w4.lost
  <2>1. x = w4 BY <1>3, <1>9
  <2>2. /\ Sound(x, L4, H) /\ SameHeader(x.ppa, s)
        /\ s.last_hit .. s.max_index \subseteq x.ppa.bits
        /\ \A u \in Page : Translation(x.mem, root, u) = tr[u]
    BY <1>7, <1>8, <1>9, <2>1 DEF Reached
  <2> QED BY <1>8, <1>9, <2>1, <2>2 DEF x, Mapped
<1>10. CASE ~ w4.lost
  <2> DEFINE M == w4.mem
             l == w4.at
             D == Frames(w4.ppa)
  <2>1. l \in Leaf(M, root, v)
    <3>1. w2.at \in w2.mem[root][v[1]] /\ w3.at \in w3.mem[w2.at][v[2]] /\ l \in M[w3.at][v[3]]
      BY <1>2, <1>5, <1>6, <1>7, <1>10
    <3>2. root \in Inner(L2) /\ root \in Inner(L3) /\ w2.at \in Inner(L3)
      BY <1>5, <1>6, <1>7, <1>10 DEF Inner
    <3>3. w2.at \in M[root][v[1]] /\ w3.at \in M[w2.at][v[2]]
      BY <1>1, <1>6, <1>7, <3>1, <3>2
    <3> HIDE DEF M, l
    <3>4. w2.at \in Follow(M, {root}, v[1]) BY <3>3 DEF Follow
    <3>5. w3.at \in Follow(M, Follow(M, {root}, v[1]), v[2]) BY <3>3, <3>4 DEF Follow
    <3> QED BY <3>1, <3>5 DEF Leaf, Follow
  <2>2. /\ Sound(w4, L4, H) /\ SameHeader(w4.ppa, s)
        /\ \A u \in Page : Translation(M, root, u) = tr[u]
    BY <1>7, <1>8 DEF Reached
  <2>3. /\ M \in [D -> Table] /\ Tree(M, L4) /\ D \in SUBSET Nat
        /\ \A k \in 1 .. 4 : L4[k] \subseteq D
    BY <2>2 DEF Sound, Usable, Frames
  <2>4. /\ Walking(x) /\ x.ppa = w4.ppa /\ x.lost = w4.lost
        /\ x.mem = [M EXCEPT ![l][v[4]] = {p}]
    BY <1>3, <1>10, <2>2 DEF Sound, Walking
  <2> HIDE DEF D, M, l
  <2>8. l \in D /\ \A t \in Inner(L4), i \in Index : M[t][i] \in Entry
    <3>1. l \in L4[4] BY <1>8, <2>1, <2>3, WayDown
    <3>2. Inner(L4) \subseteq D BY <2>3 DEF Inner
    <3>3. \A e \in Table, i \in Index : e[i] \in Entry BY DEF Table
    <3>4. \A t \in D : M[t] \in Table BY <2>3
    <3>5. l \in D BY <2>3, <3>1
    <3> QED BY <3>2, <3>3, <3>4, <3>5
  <2>9. x.mem \in [D -> Table] /\ Written(x.mem, M, l, v[4], p)
    <3>1. x.mem = Write(M, l, v[4], p) BY <2>4 DEF Write
    <3>2. M \in [D -> Table] /\ l \in D /\ v[4] \in Index BY <1>1, <2>3, <2>8
    <3> QED BY <3>1, <3>2, WrittenMemory
  <2>5. /\ Tree(x.mem, L4)
        /\ Translation(x.mem, root, v) = {p}
        /\ \A u \in Page : u # v => Translation(x.mem, root, u) = Translation(M, root, u)
    <3>1. \A k \in 1 .. 4 : L4[k] \subseteq DOMAIN M BY <2>3
    <3> QED BY <1>8, <2>1, <2>3, <2>8, <2>9, <3>1, LeafWritten
  <2>6. \A u \in Page : u # v => Translation(x.mem, root, u) = tr[u]
    BY <2>2, <2>5
  <2>7. Sound(x, L4, H) BY <2>2, <2>4, <2>5, <2>9 DEF Sound, D
  <2> QED BY <1>8, <1>10, <2>2, <2>4, <2>5, <2>6, <2>7 DEF x, Mapped
<1> QED BY <1>9, <1>10

-----------------------------------------------------------------------------
(* The steps of PageMap.                                                   *)

\* The tables from the roots R down, as Level has them.
LevelsOf(M, R) ==
  LET second == Children(M, R)
      third  == Children(M, second)
  IN  <<R, second, third, Children(M, third)>>

\* The allocator s, the memory M and the roots R are sound, and no table is in H.
Kept(s, M, l, R, H) ==
  Sound([ppa |-> s, mem |-> M, lost |-> l, at |-> 0], LevelsOf(M, R), H)

\* What a page translates to.
Found(M, R, v) == UNION {Translation(M, root, v) : root \in R}

LEMMA TheLevels ==
  ASSUME NEW M, NEW L, Tree(M, L)
  PROVE  \A k \in 1 .. 4 : LevelsOf(M, L[1])[k] = L[k]
<1>1. L[1 + 1] = Children(M, L[1]) /\ L[2 + 1] = Children(M, L[2]) /\ L[3 + 1] = Children(M, L[3])
  <2>1. 1 \in 1 .. 3 /\ 2 \in 1 .. 3 /\ 3 \in 1 .. 3 OBVIOUS
  <2> QED BY <2>1 DEF Tree
<1>2. L[2] = Children(M, L[1]) /\ L[3] = Children(M, L[2]) /\ L[4] = Children(M, L[3])
  BY <1>1
<1>3. LevelsOf(M, L[1]) = <<L[1], L[2], L[3], L[4]>>
  BY <1>2 DEF LevelsOf
<1> QED BY <1>3

\* Whatever levels show that a walk is sound, they are those from its root down.
LEMMA Settled ==
  ASSUME NEW w, NEW L, NEW H, Sound(w, L, H), NEW R, L[1] = R
  PROVE  Kept(w.ppa, w.mem, w.lost, R, H)
<1> DEFINE y == [ppa |-> w.ppa, mem |-> w.mem, lost |-> w.lost, at |-> 0]
           K == LevelsOf(w.mem, R)
<1>1. Walking(y) /\ y.ppa = w.ppa /\ y.mem = w.mem /\ y.lost = w.lost BY DEF Walking
<1>2. Tree(w.mem, L) BY DEF Sound
<1>3. \A k \in 1 .. 4 : K[k] = L[k] BY <1>2, TheLevels
<1> HIDE DEF y, K
<1>4. Tree(w.mem, K)
  <2>1. \A k \in 1 .. 3 : k \in 1 .. 4 /\ k + 1 \in 1 .. 4 OBVIOUS
  <2>2. Inner(K) = Inner(L) BY <1>3 DEF Inner
  <2>3. \A k \in 1 .. 3 : K[k + 1] = Children(w.mem, K[k]) BY <1>2, <1>3, <2>1 DEF Tree
  <2> QED BY <1>2, <1>3, <2>2, <2>3 DEF Tree
<1>5. Sound(y, K, H) BY <1>1, <1>3, <1>4 DEF Sound
<1> QED BY <1>5 DEF Kept, y, K

LEMMA KeptFacts ==
  ASSUME NEW s, NEW M, NEW l, NEW R, NEW H, Kept(s, M, l, R, H)
  PROVE  /\ SoundBitmap(s) /\ s \in State /\ M \in [Frames(s) -> Table] /\ l \in BOOLEAN
         /\ Tree(M, LevelsOf(M, R)) /\ LevelsOf(M, R)[1] = R
         /\ \A k \in 1 .. 4 : /\ LevelsOf(M, R)[k] \subseteq s.bits \cap Usable(s)
                              /\ LevelsOf(M, R)[k] \cap H = {}
         /\ H \cap Frames(s) \subseteq s.bits
         /\ \A q, r \in R : q = r
<1>1. LevelsOf(M, R)[1] = R BY DEF LevelsOf
<1>2. Tree(M, LevelsOf(M, R)) BY DEF Kept, Sound
<1>3. \A q, r \in R : q = r
  <2>1. \A q, r \in LevelsOf(M, R)[1] : q = r BY <1>2 DEF Tree
  <2> QED BY <1>1, <2>1
<1> QED BY <1>1, <1>2, <1>3 DEF Kept, Sound, SoundBitmap

\* A page translates to what the root finds.
LEMMA FoundAtRoot ==
  ASSUME NEW M, NEW R, NEW root \in R, \A q, r \in R : q = r, NEW v
  PROVE  Found(M, R, v) = Translation(M, root, v)
<1>1. R = {root} OBVIOUS
<1> QED BY <1>1 DEF Found

\* The walk a call of pmm_map_memory sets out with.
LEMMA WalkReached ==
  ASSUME NEW H, Kept(ppa, mem, lost, PML4, H), ~ lost, NEW root \in PML4
  PROVE  Reached(Walk(root), LevelsOf(mem, PML4), H, ppa,
                 [u \in Page |-> Translation(mem, root, u)])
<1> DEFINE w  == Walk(root)
           L  == LevelsOf(mem, PML4)
           tr == [u \in Page |-> Translation(mem, root, u)]
<1>1. /\ Walking(w) /\ w.ppa = ppa /\ w.mem = mem /\ w.lost = lost
  BY DEF Walk, Walking
<1>2. ppa \in State /\ L[1] = PML4 /\ \A q, r \in PML4 : q = r BY KeptFacts
<1>3. Sound(w, L, H) BY <1>1, KeptFacts DEF Sound, L
<1>4. SameHeader(w.ppa, ppa) BY <1>1 DEF SameHeader
<1>5. \A r \in L[1], u \in Page : Translation(w.mem, r, u) = tr[u]
  BY <1>1, <1>2
<1>6. Frames(ppa) \cap (ppa.last_hit .. (w.ppa.last_hit - 1)) \subseteq w.ppa.bits
  <2>1. ppa.last_hit \in Nat BY <1>2 DEF State
  <2>2. ppa.last_hit .. (ppa.last_hit - 1) = {} BY <2>1
  <2> QED BY <1>1, <2>2
<1> HIDE DEF w, tr, L
<1>7. Reached(w, L, H, ppa, tr) BY <1>1, <1>3, <1>4, <1>5, <1>6 DEF Reached
<1> QED BY <1>7 DEF w, tr, L

(***************************************************************************)
(* pmm_map_memory as a step: the tables stay sound whatever H they keep    *)
(* off, and either the page is mapped, or no frame was left from the       *)
(* search hint on and no translation changes.                              *)
(***************************************************************************)
LEMMA MapStep ==
  ASSUME NEW H, Kept(ppa, mem, lost, PML4, H), NEW v \in Page, NEW p \in Nat, Map(v, p)
  PROVE  /\ Kept(ppa', mem', lost', PML4', H) /\ SameHeader(ppa', ppa)
         /\ lost' => /\ ppa.last_hit .. ppa.max_index \subseteq ppa'.bits
                     /\ \A u \in Page : Found(mem', PML4', u) = Found(mem, PML4, u)
         /\ ~ lost' =>
              /\ Found(mem', PML4', v) = {p}
              /\ \A u \in Page : u # v => Found(mem', PML4', u) = Found(mem, PML4, u)
<1> DEFINE L == LevelsOf(mem, PML4)
<1>1. PICK root \in PML4 : Becomes(pmm_map_memory(Walk(root), root, v, p)) BY DEF Map
<1>2. ~ lost /\ PML4' = PML4 BY DEF Map
<1> DEFINE w  == Walk(root)
           x  == pmm_map_memory(w, root, v, p)
           tr == [u \in Page |-> Translation(mem, root, u)]
<1>3. /\ Walking(w) /\ w.ppa = ppa /\ w.mem = mem /\ w.lost = lost
      BY DEF Walk, Walking
<1>4. ppa' = x.ppa /\ mem' = x.mem /\ lost' = x.lost BY <1>1 DEF Becomes
<1>5. /\ ppa \in State /\ L[1] = PML4 /\ root \in L[1] /\ \A q, r \in PML4 : q = r
  BY KeptFacts
<1>6. Reached(w, L, H, ppa, tr) BY <1>2, <1>5, WalkReached
<1> HIDE DEF w, L, tr
<1>7. PICK K : /\ Sound(x, K, H) /\ SameHeader(x.ppa, ppa) /\ K[1] = L[1]
               /\ x.lost =>
                    /\ ppa.last_hit .. ppa.max_index \subseteq x.ppa.bits
                    /\ \A u \in Page : Translation(x.mem, root, u) = tr[u]
               /\ ~ x.lost =>
                    /\ Translation(x.mem, root, v) = {p}
                    /\ \A u \in Page : u # v => Translation(x.mem, root, u) = tr[u]
  <2>1. Mapped(x, L, H, ppa, tr, root, v, p) BY <1>2, <1>3, <1>5, <1>6, MapEffect
  <2> QED BY <2>1 DEF Mapped
<1> HIDE DEF x
<1>8. Kept(ppa', mem', lost', PML4', H)
  BY <1>2, <1>4, <1>5, <1>7, Settled
<1>9. \A u \in Page : /\ Found(mem, PML4, u) = tr[u]
                        /\ Found(mem', PML4', u) = Translation(x.mem, root, u)
  BY <1>2, <1>4, <1>5, FoundAtRoot DEF tr
<1> QED BY <1>4, <1>7, <1>8, <1>9

\* A cleared root is a tree by itself, and translates nothing.
LEMMA BlankRoot ==
  ASSUME NEW M, NEW f \in Nat, \A i \in Index : M[f][i] = {}
  PROVE  /\ Tree(M, [k \in 1 .. 4 |-> IF k = 1 THEN {f} ELSE {}])
         /\ \A u \in Page : Translation(M, f, u) = {}
<1> DEFINE K == [k \in 1 .. 4 |-> IF k = 1 THEN {f} ELSE {}]
<1>1. \A k \in 1 .. 4 : K[k] = IF k = 1 THEN {f} ELSE {} OBVIOUS
<1> HIDE DEF K
<1>2. ASSUME NEW k \in 1 .. 3 PROVE K[k + 1] = Children(M, K[k])
  <2>1. K[k + 1] = {} BY <1>1
  <2>2. K[k] \subseteq {f} BY <1>1
  <2>3. \A g : g \in Children(M, K[k]) <=> \E t \in K[k], i \in Index : g \in M[t][i]
    BY ChildrenIff
  <2>4. \A g : g \notin Children(M, K[k]) BY <2>2, <2>3
  <2> QED BY <2>1, <2>4
<1>3. Inner(K) = {f} BY <1>1 DEF Inner
<1>4. Tree(M, K)
  <2>1. \A k \in 1 .. 4 : K[k] \subseteq Nat BY <1>1
  <2>2. \A r, s \in K[1] : r = s BY <1>1
  <2>3. \A j, k \in 1 .. 4 : j # k => K[j] \cap K[k] = {} BY <1>1
  <2> QED BY <1>2, <1>3, <2>1, <2>2, <2>3 DEF Tree
<1>5. ASSUME NEW u \in Page PROVE Translation(M, f, u) = {}
  <2>1. u[1] \in Index BY DEF Page
  <2>2. Follow(M, {f}, u[1]) = {} BY <2>1 DEF Follow
  <2>3. \A i : Follow(M, {}, i) = {} BY DEF Follow
  <2> QED BY <2>2, <2>3 DEF Translation
<1> QED BY <1>4, <1>5 DEF K

\* No tables at all are a tree.
LEMMA NoTree ==
  ASSUME NEW M
  PROVE  /\ Tree(M, [k \in 1 .. 4 |-> {}])
         /\ \A u \in Page : Found(M, {}, u) = {}
<1> DEFINE K == [k \in 1 .. 4 |-> {}]
<1>1. \A k \in 1 .. 4 : K[k] = {} OBVIOUS
<1>2. Children(M, {}) = {} BY ChildrenIff
<1> HIDE DEF K
<1>3. \A k \in 1 .. 3 : K[k + 1] = Children(M, K[k])
  <2>1. \A k \in 1 .. 3 : k \in 1 .. 4 /\ k + 1 \in 1 .. 4 OBVIOUS
  <2> QED BY <1>1, <1>2, <2>1
<1>4. Inner(K) = {} BY <1>1 DEF Inner
<1>5. Tree(M, K) BY <1>1, <1>3, <1>4 DEF Tree
<1> QED BY <1>5 DEF K, Found

\* init_pmm's root table: a fresh frame, and still nothing is mapped.
LEMMA InitPml4Step ==
  ASSUME NEW H, Kept(ppa, mem, lost, PML4, H), InitPml4
  PROVE  /\ Kept(ppa', mem', lost', PML4', H) /\ SameHeader(ppa', ppa)
         /\ lost' => ppa.last_hit .. ppa.max_index \subseteq ppa'.bits
         /\ ~ lost' => PML4' # {}
         /\ \A u \in Page : Found(mem', PML4', u) = Found(mem, PML4, u)
<1> DEFINE w == Walk(0)
           x == NewTable(w)
           f == RequestedFrame(w.ppa)
<1>1. ~ lost /\ PML4 = {} /\ ppa' = x.ppa /\ mem' = x.mem /\ lost' = x.lost
      /\ PML4' = IF x.lost THEN {} ELSE {x.at}
  BY DEF InitPml4, Becomes
<1>2. /\ SoundBitmap(ppa) /\ mem \in [Frames(ppa) -> Table] /\ lost \in BOOLEAN
      /\ H \cap Frames(ppa) \subseteq ppa.bits
  BY KeptFacts
<1>3. Walking(w) /\ w.ppa = ppa /\ w.mem = mem /\ w.lost = lost BY DEF Walk, Walking
<1>4. /\ Walking(x) /\ SoundBitmap(x.ppa) /\ SameHeader(x.ppa, ppa)
      /\ f \in Usable(ppa) =>
           /\ x.lost = lost /\ x.at = f /\ x.mem = [mem EXCEPT ![f] = Blank]
           /\ f \notin ppa.bits
           /\ x.ppa.bits = ppa.bits \cup {f}
      /\ f \notin Usable(ppa) =>
           /\ x.lost = TRUE /\ x.mem = mem
           /\ x.ppa.bits = ppa.bits
           /\ ppa.last_hit .. ppa.max_index \subseteq ppa.bits
  BY <1>2, <1>3, NewTableEffect
<1> HIDE DEF w, x, f
<1>5. Frames(x.ppa) = Frames(ppa) BY <1>4, SameFixed
<1>6. CASE f \in Usable(ppa)
  <2> DEFINE K == [k \in 1 .. 4 |-> IF k = 1 THEN {f} ELSE {}]
  <2>1. f \in Frames(ppa) /\ f \in Nat /\ f \notin H BY <1>2, <1>4, <1>6 DEF Usable, Frames
  <2>2. x.mem \in [Frames(x.ppa) -> Table]
    <3>1. Blank \in Table BY DEF Blank, Table, Entry
    <3> QED BY <1>2, <1>4, <1>5, <1>6, <3>1
  <2>3. \A i \in Index : x.mem[f][i] = {} BY <1>2, <1>4, <1>6, <2>1 DEF Blank
  <2>4. Tree(x.mem, K) /\ \A u \in Page : Translation(x.mem, f, u) = {}
    BY <2>1, <2>3, BlankRoot
  <2>5. \A k \in 1 .. 4 : K[k] = IF k = 1 THEN {f} ELSE {} OBVIOUS
  <2> HIDE DEF K
  <2>6. \A k \in 1 .. 4 : K[k] \subseteq x.ppa.bits \cap Usable(x.ppa) /\ K[k] \cap H = {}
    BY <1>4, <1>5, <1>6, <2>1, <2>5 DEF Usable
  <2>7. Sound(x, K, H)
    BY <1>1, <1>2, <1>4, <1>5, <1>6, <2>2, <2>4, <2>6 DEF Sound
  <2>8. PML4' = {f} /\ K[1] = {f} BY <1>1, <1>4, <1>6, <2>5
  <2>9. Kept(ppa', mem', lost', PML4', H) BY <1>1, <2>7, <2>8, Settled
  <2>10. \A u \in Page : Found(mem', PML4', u) = {} BY <1>1, <2>4, <2>8 DEF Found
  <2>11. \A u \in Page : Found(mem, PML4, u) = {} BY <1>1 DEF Found
  <2> QED BY <1>1, <1>4, <1>6, <2>8, <2>9, <2>10, <2>11
<1>7. CASE f \notin Usable(ppa)
  <2> DEFINE K == [k \in 1 .. 4 |-> {}]
  <2>1. Tree(x.mem, K) BY NoTree
  <2>2. \A k \in 1 .. 4 : K[k] = {} OBVIOUS
  <2> HIDE DEF K
  <2>3. Sound(x, K, H)
    BY <1>2, <1>4, <1>5, <1>7, <2>1, <2>2 DEF Sound
  <2>4. PML4' = {} /\ K[1] = {} BY <1>1, <1>4, <1>7, <2>2
  <2>5. Kept(ppa', mem', lost', PML4', H) BY <1>1, <2>3, <2>4, Settled
  <2> QED BY <1>1, <1>4, <1>7, <2>4, <2>5 DEF Found
<1> QED BY <1>6, <1>7

\* Another part of the kernel takes a frame that is no table.
LEMMA TakeStep ==
  ASSUME NEW H, Kept(ppa, mem, lost, PML4, H), TakeFrame
  PROVE  LET f == RequestedFrame(ppa)
         IN  /\ Kept(ppa', mem', lost', PML4', H \cup {f}) /\ SameHeader(ppa', ppa)
             /\ f \in Usable(ppa) /\ f \notin H /\ f \notin Fixed(ppa)
             /\ \A u \in Page : Found(mem', PML4', u) = Found(mem, PML4, u)
<1> DEFINE f == RequestedFrame(ppa)
           L == LevelsOf(mem, PML4)
           y == [ppa |-> ppa', mem |-> mem', lost |-> lost', at |-> 0]
<1>1. /\ ~ lost /\ lost' = lost /\ PML4' = PML4 /\ f \in Usable(ppa)
      /\ ppa' = ppa_request(ppa) /\ mem' = [mem EXCEPT ![f] = Junk]
  BY DEF TakeFrame
<1>2. /\ SoundBitmap(ppa) /\ mem \in [Frames(ppa) -> Table] /\ lost \in BOOLEAN
      /\ H \cap Frames(ppa) \subseteq ppa.bits
      /\ Tree(mem, L) /\ L[1] = PML4
      /\ \A k \in 1 .. 4 : L[k] \subseteq ppa.bits \cap Usable(ppa) /\ L[k] \cap H = {}
  BY KeptFacts
<1>3. /\ SoundBitmap(ppa') /\ SameHeader(ppa', ppa) /\ f \notin ppa.bits /\ f \notin Fixed(ppa)
      /\ ppa'.bits = ppa.bits \cup {f}
  BY <1>1, <1>2, RequestBits DEF Usable
<1>4. Frames(ppa') = Frames(ppa) BY <1>3, SameFixed
<1>5. Walking(y) /\ y.ppa = ppa' /\ y.mem = mem' /\ y.lost = lost' BY DEF Walking
<1> HIDE DEF f, L, y
<1>6. f \in Frames(ppa) /\ f \notin H BY <1>1, <1>2, <1>3 DEF Usable
<1>7. mem' \in [Frames(ppa') -> Table]
  <2>1. Junk \in Table BY DEF Junk, Table, Entry
  <2> QED BY <1>1, <1>2, <1>4, <2>1
<1>8. \A k \in 1 .. 4 : \A t \in L[k] : mem'[t] = mem[t]
  BY <1>1, <1>2, <1>3 DEF Usable
<1>9. Tree(mem', L) /\ \A root \in L[1], u \in Page : Translation(mem', root, u) = Translation(mem, root, u)
  BY <1>2, <1>8, SameTranslation
<1>10. Sound(y, L, H \cup {f})
  <2>1. \A k \in 1 .. 4 : L[k] \subseteq ppa'.bits \cap Usable(ppa') /\ L[k] \cap (H \cup {f}) = {}
    BY <1>2, <1>3, <1>4 DEF Usable
  <2>2. (H \cup {f}) \cap Frames(ppa') \subseteq ppa'.bits BY <1>2, <1>3, <1>4
  <2> QED BY <1>1, <1>2, <1>3, <1>5, <1>7, <1>9, <2>1, <2>2 DEF Sound
<1>11. Kept(ppa', mem', lost', PML4', H \cup {f})
  <2>1. Kept(y.ppa, y.mem, y.lost, PML4, H \cup {f}) BY <1>2, <1>10, Settled
  <2> QED BY <1>1, <1>5, <2>1
<1>12. \A u \in Page : Found(mem', PML4', u) = Found(mem, PML4, u)
  <2> TAKE u \in Page
  <2>1. \A root \in PML4 : Translation(mem', root, u) = Translation(mem, root, u)
    BY <1>2, <1>9
  <2>2. Found(mem', PML4, u) = Found(mem, PML4, u) BY <2>1 DEF Found
  <2> QED BY <1>1, <2>2
<1> QED BY <1>1, <1>3, <1>6, <1>11, <1>12 DEF f

\* Giving back a frame of H leaves the tables where they are.
LEMMA GiveStep ==
  ASSUME NEW H, Kept(ppa, mem, lost, PML4, H), NEW f \in H, f \in Nat, f \notin Fixed(ppa),
         ppa' = ppa_ulckn(ppa, {f}, f), UNCHANGED <<mem, lost, PML4>>
  PROVE  Kept(ppa', mem', lost', PML4', H \ {f}) /\ SameHeader(ppa', ppa)
<1> DEFINE L == LevelsOf(mem, PML4)
           y == [ppa |-> ppa', mem |-> mem', lost |-> lost', at |-> 0]
<1>1. /\ SoundBitmap(ppa) /\ mem \in [Frames(ppa) -> Table] /\ lost \in BOOLEAN
      /\ H \cap Frames(ppa) \subseteq ppa.bits
      /\ Tree(mem, L) /\ L[1] = PML4
      /\ \A k \in 1 .. 4 : L[k] \subseteq ppa.bits \cap Usable(ppa) /\ L[k] \cap H = {}
  BY KeptFacts
<1>2. SoundBitmap(ppa') /\ SameHeader(ppa', ppa) /\ ppa'.bits = ppa.bits \ {f}
  <2>1. {f} \cap Fixed(ppa) = {} OBVIOUS
  <2> QED BY <1>1, <2>1, UnlockBits
<1>3. Frames(ppa') = Frames(ppa) BY <1>2, SameFixed
<1>4. Walking(y) /\ y.ppa = ppa' /\ y.mem = mem' /\ y.lost = lost' BY DEF Walking
<1> HIDE DEF L, y
<1>5. Sound(y, L, H \ {f})
  <2>1. \A k \in 1 .. 4 : L[k] \subseteq ppa'.bits \cap Usable(ppa') /\ L[k] \cap (H \ {f}) = {}
    BY <1>1, <1>2, <1>3 DEF Usable
  <2>2. (H \ {f}) \cap Frames(ppa') \subseteq ppa'.bits BY <1>1, <1>2, <1>3
  <2> QED BY <1>1, <1>2, <1>3, <1>4, <2>1, <2>2 DEF Sound
<1> QED BY <1>1, <1>2, <1>4, <1>5, Settled

-----------------------------------------------------------------------------
(***************************************************************************)
(* The inductive invariant of PageMap.  The tables are a tree of taken     *)
(* frames off those that others hold and off those ppa_init takes for      *)
(* good; and the others hold none of the latter, or they would give frames *)
(* of the bitmap back.                                                     *)
(***************************************************************************)
Inv ==
  /\ Kept(ppa, mem, lost, PML4, others \cup Fixed(ppa))
  /\ others \subseteq Usable(ppa) \ Fixed(ppa)

\* The fixed frames stay the same as long as the header does.
LEMMA InvNext ==
  ASSUME Kept(ppa', mem', lost', PML4', others' \cup Fixed(ppa)), SameHeader(ppa', ppa),
         others' \subseteq Usable(ppa) \ Fixed(ppa)
  PROVE  Inv'
<1>1. Fixed(ppa') = Fixed(ppa) /\ Frames(ppa') = Frames(ppa) BY SameFixed
<1>2. Fixed(ppa)' = Fixed(ppa') /\ Usable(ppa)' = Usable(ppa) BY <1>1 DEF Fixed, Usable, Frames
<1>3. Kept(ppa', mem', lost', PML4', others' \cup Fixed(ppa')) BY <1>1
<1>4. Kept(ppa, mem, lost, PML4, others \cup Fixed(ppa))' BY <1>3
<1> QED BY <1>1, <1>2, <1>4 DEF Inv

LEMMA UnbootedState == Unbooted \in State /\ ~ Unbooted.initialized
BY SizeAssumption DEF Unbooted, State, Counter

LEMMA InitInv == Init => Inv /\ PML4 = {}
<1> SUFFICES ASSUME Init PROVE Inv /\ PML4 = {} OBVIOUS
<1>1. PICK m \in MemoryMaps : ppa = ppa_init(Unbooted, m, FALSE) BY DEF Init
<1>2. /\ ppa.initialized /\ mem = [g \in Frames(ppa) |-> Junk]
      /\ lost = FALSE /\ PML4 = {} /\ others = {}
  BY DEF Init
<1>3. WalkedMap(m) BY PageMapAssumption DEF WalkedMap
<1>4. largest_segment(m) # 0
  <2>1. SUFFICES ASSUME largest_segment(m) = 0 PROVE FALSE OBVIOUS
  <2>2. ppa = Counted(Unbooted, m) BY <1>1, <2>1, UnbootedState DEF ppa_init
  <2>3. ppa.initialized = Unbooted.initialized BY <2>2, UnbootedState DEF Counted, State
  <2> QED BY <1>2, <2>3, UnbootedState
<1>5. SoundBitmap(ppa) BY <1>1, <1>3, <1>4, UnbootedState, InitBits
<1> DEFINE K == [k \in 1 .. 4 |-> {}]
           w == Walk(0)
<1>6. Walking(w) /\ w.ppa = ppa /\ w.mem = mem /\ w.lost = lost BY DEF Walk, Walking
<1>7. Tree(mem, K) /\ \A k \in 1 .. 4 : K[k] = {} BY NoTree
<1>8. mem \in [Frames(ppa) -> Table]
  <2>1. Junk \in Table BY DEF Junk, Table, Entry
  <2> QED BY <1>2, <2>1
<1> HIDE DEF K, w
<1>9. Sound(w, K, Fixed(ppa))
  <2>1. Fixed(ppa) \cap Frames(ppa) \subseteq ppa.bits BY <1>5 DEF SoundBitmap
  <2> QED BY <1>2, <1>5, <1>6, <1>7, <1>8, <2>1 DEF Sound
<1>10. Kept(w.ppa, w.mem, w.lost, {}, Fixed(ppa)) BY <1>7, <1>9, Settled
<1>11. others \cup Fixed(ppa) = Fixed(ppa) BY <1>2
<1> QED BY <1>2, <1>6, <1>10, <1>11 DEF Inv

LEMMA NextInv == Inv /\ [Next]_vars => Inv'
<1> SUFFICES ASSUME Inv, [Next]_vars PROVE Inv' OBVIOUS
<1> DEFINE H == others \cup Fixed(ppa)
<1>1. Kept(ppa, mem, lost, PML4, H) /\ others \subseteq Usable(ppa) \ Fixed(ppa) BY DEF Inv
<1>2. ASSUME InitPml4 PROVE Inv'
  <2>1. others' = others BY <1>2 DEF InitPml4
  <2>2. Kept(ppa', mem', lost', PML4', H) /\ SameHeader(ppa', ppa) BY <1>1, <1>2, InitPml4Step
  <2> QED BY <1>1, <2>1, <2>2, InvNext
<1>3. ASSUME TakeFrame PROVE Inv'
  <2> DEFINE f == RequestedFrame(ppa)
  <2>1. /\ Kept(ppa', mem', lost', PML4', H \cup {f}) /\ SameHeader(ppa', ppa)
        /\ f \in Usable(ppa) /\ f \notin Fixed(ppa)
    BY <1>1, <1>3, TakeStep
  <2>2. others' = others \cup {f} BY <1>3 DEF TakeFrame
  <2> HIDE DEF f
  <2>3. H \cup {f} = others' \cup Fixed(ppa) BY <2>2
  <2> QED BY <1>1, <2>1, <2>2, <2>3, InvNext
<1>4. ASSUME NEW v \in MappedPages, NEW p \in Targets, Map(v, p) PROVE Inv'
  <2>1. others' = others BY <1>4 DEF Map
  <2>2. v \in Page /\ p \in Nat BY PageMapAssumption
  <2>3. Kept(ppa', mem', lost', PML4', H) /\ SameHeader(ppa', ppa)
    BY <1>1, <1>4, <2>2, MapStep
  <2> QED BY <1>1, <2>1, <2>3, InvNext
<1>5. ASSUME NEW f \in others, GiveFrame(f) PROVE Inv'
  <2>1. /\ ppa' = ppa_ulckn(ppa, {f}, f) /\ others' = others \ {f}
        /\ UNCHANGED <<mem, lost, PML4>>
    BY <1>5 DEF GiveFrame
  <2>2. f \in H /\ f \in Nat /\ f \notin Fixed(ppa) BY <1>1 DEF Usable, Frames
  <2>3. Kept(ppa', mem', lost', PML4', H \ {f}) /\ SameHeader(ppa', ppa)
    BY <1>1, <2>1, <2>2, GiveStep
  <2>4. H \ {f} = others' \cup Fixed(ppa) BY <2>1, <2>2
  <2> QED BY <1>1, <2>1, <2>3, <2>4, InvNext
<1>6. ASSUME UNCHANGED vars PROVE Inv'
  <2>1. SameHeader(ppa', ppa) BY <1>6 DEF vars, SameHeader
  <2> QED BY <1>1, <1>6, <2>1, InvNext DEF vars
<1> QED BY <1>2, <1>3, <1>4, <1>5, <1>6 DEF Next

LEMMA InvHolds == Spec => []Inv
BY InitInv, NextInv, PTL DEF Spec

\* The tables form a tree.
THEOREM TablesTree == Spec => []TablesFormTree
<1>1. ASSUME Inv PROVE TablesFormTree
  <2> DEFINE L == LevelsOf(mem, PML4)
             D == Frames(ppa)
  <2>1. Level = L BY DEF Level, LevelsOf
  <2>2. /\ Tree(mem, L) /\ mem \in [D -> Table]
        /\ \A q, r \in PML4 : q = r
        /\ \A k \in 1 .. 4 : L[k] \subseteq D
    BY <1>1, KeptFacts DEF Inv, Usable
  <2> HIDE DEF L, D
  <2>3. Inner(L) \subseteq D BY <2>2 DEF Inner
  <2>4. \A t \in Inner(L), i \in Index : \A f, g \in mem[t][i] : f = g
    <3>1. \A e \in Table, i \in Index : e[i] \in Entry BY DEF Table
    <3>2. \A e \in Entry : \A f, g \in e : f = g BY DEF Entry
    <3> QED BY <2>2, <2>3, <3>1, <3>2
  <2>5. \A j, k \in 1 .. 4 : j # k => L[j] \cap L[k] = {} BY <2>2 DEF Tree
  <2>6. \A t, u \in Inner(L), i, j \in Index :
          \A f \in mem[t][i], g \in mem[u][j] : (f = g) <=> (t = u /\ i = j)
    BY <2>2, <2>4 DEF Tree
  <2> QED BY <2>1, <2>2, <2>5, <2>6 DEF TablesFormTree, Inner
<1> QED BY <1>1, InvHolds, PTL

\* The tables are taken frames of memory that nobody else holds.
THEOREM TablesTaken == Spec => []TablesKept
<1>1. ASSUME Inv PROVE TablesKept
  <2>1. Level = LevelsOf(mem, PML4) BY DEF Level, LevelsOf
  <2>2. \A k \in 1 .. 4 : /\ Level[k] \subseteq ppa.bits \cap Usable(ppa)
                          /\ Level[k] \cap (others \cup Fixed(ppa)) = {}
    BY <1>1, <2>1, KeptFacts DEF Inv
  <2> QED BY <2>2 DEF TablesKept, Tables, Fixed
<1> QED BY <1>1, InvHolds, PTL

-----------------------------------------------------------------------------
(* What a step does to the translations.                                   *)

LEMMA StepFound ==
  ASSUME Inv, [Next]_vars
  PROVE  /\ lost' /\ ~ lost => ppa.last_hit .. ppa.max_index \subseteq ppa'.bits
         /\ \/ \A u \in Page : Found(mem', PML4', u) = Found(mem, PML4, u)
            \/ \E v \in MappedPages, p \in Targets :
                 /\ Found(mem', PML4', v) = {p}
                 /\ \A u \in Page : u # v => Found(mem', PML4', u) = Found(mem, PML4, u)
<1> DEFINE H == others \cup Fixed(ppa)
<1>1. Kept(ppa, mem, lost, PML4, H) BY DEF Inv
<1> HIDE DEF H
<1>2. CASE InitPml4 BY <1>1, <1>2, InitPml4Step
<1>3. CASE TakeFrame
  <2>1. lost' = lost BY <1>3 DEF TakeFrame
  <2> QED BY <1>1, <1>3, <2>1, TakeStep
<1>4. ASSUME NEW v \in MappedPages, NEW p \in Targets, Map(v, p)
      PROVE  /\ lost' => ppa.last_hit .. ppa.max_index \subseteq ppa'.bits
             /\ \/ \A u \in Page : Found(mem', PML4', u) = Found(mem, PML4, u)
                \/ /\ Found(mem', PML4', v) = {p}
                   /\ \A u \in Page : u # v => Found(mem', PML4', u) = Found(mem, PML4, u)
  <2>1. v \in Page /\ p \in Nat BY PageMapAssumption
  <2> QED BY <1>1, <1>4, <2>1, MapStep
<1>5. ASSUME UNCHANGED <<mem, lost, PML4>>
      PROVE  lost' = lost /\ \A u \in Page : Found(mem', PML4', u) = Found(mem, PML4, u)
  BY <1>5
<1>6. ASSUME NEW f \in others, GiveFrame(f) PROVE UNCHANGED <<mem, lost, PML4>>
  BY <1>6 DEF GiveFrame
<1>7. UNCHANGED vars => UNCHANGED <<mem, lost, PML4>> BY DEF vars
<1> QED BY <1>2, <1>3, <1>4, <1>5, <1>6, <1>7 DEF Next

\* Mapping goes wrong only when no frame is left from the search hint on.
THEOREM LostWhenFull == Spec => LostOnlyWhenFull
<1>1. Inv /\ [Next]_vars =>
        [lost' /\ ~ lost => ppa.last_hit .. ppa.max_index \subseteq ppa'.bits]_vars
  BY StepFound
<1> QED BY <1>1, InvHolds, PTL DEF Spec, LostOnlyWhenFull

\* Translations is Found, page by page.
LEMMA TranslationsFound ==
  /\ \A v \in MappedPages : Translations[v] = Found(mem, PML4, v)
  /\ \A v \in MappedPages : Translations'[v] = Found(mem', PML4', v)
BY DEF Translations, Found

LEMMA RefineInit == Init => Space!Init
<1> SUFFICES ASSUME Init PROVE Space!Init OBVIOUS
<1>1. PML4 = {} BY DEF Init
<1>2. \A v \in MappedPages : Found(mem, PML4, v) = {} BY <1>1 DEF Found
<1>3. Translations = [v \in MappedPages |-> {}] BY <1>2 DEF Translations, Found
<1> QED BY <1>3 DEF Space!Init

\* A page is mapped as Map says, or no translation changes.
LEMMA RefineStep == Inv /\ [Next]_vars => [Space!Next]_Translations
<1> SUFFICES ASSUME Inv, [Next]_vars PROVE [Space!Next]_Translations OBVIOUS
<1>1. MappedPages \subseteq Page BY PageMapAssumption
<1>2. CASE \A u \in Page : Found(mem', PML4', u) = Found(mem, PML4, u)
  <2>1. \A v \in MappedPages : Translations'[v] = Translations[v]
    BY <1>1, <1>2, TranslationsFound
  <2>2. Translations' = Translations BY <2>1 DEF Translations
  <2> QED BY <2>2
<1>3. ASSUME NEW v \in MappedPages, NEW p \in Targets,
             Found(mem', PML4', v) = {p},
             \A u \in Page : u # v => Found(mem', PML4', u) = Found(mem, PML4, u)
      PROVE  Space!Next
  <2>1. \A u \in MappedPages :
          Translations'[u] = IF u = v THEN {p} ELSE Translations[u]
    BY <1>1, <1>3, TranslationsFound
  <2>2. Translations' = [Translations EXCEPT ![v] = {p}]
    BY <2>1 DEF Translations
  <2>3. Space!Map(v, p) BY <2>2 DEF Space!Map
  <2> QED BY <2>3 DEF Space!Next
<1> QED BY <1>2, <1>3, StepFound

\* The tables translate as an address space that one mapping at a time changes.
THEOREM Implementation == Spec => ImplementsAddressSpace
BY RefineInit, RefineStep, InitInv, InvHolds, PTL DEF Spec, ImplementsAddressSpace, Space!Spec

=============================================================================
