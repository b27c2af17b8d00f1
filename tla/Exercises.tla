----------------------------- MODULE Exercises -----------------------------
(***************************************************************************)
(* The sequential exercises: quickSort (test/quickSort.cpp), topK           *)
(* (test/topk.cpp), UnionFindSet (trivials/union_find_trivial.cpp) and      *)
(* StockPrefixTree (trivials/stock_tree_trivial.cpp), each checked against  *)
(* a reference definition.  Arrays are counted from 1.                      *)
(***************************************************************************)
EXTENDS Integers, Sequences, SequencesExt, FiniteSetsExt

CONSTANTS
  Arrays,    \* the inputs of quickSort and topK
  Elements,  \* 1 .. n, the elements of the union-find set
  Codes,     \* the codes put into and looked up in the prefix tree
  MaxSteps   \* bound on the unions and insertions

ASSUME ArraysAssumption == Arrays \subseteq Seq(Int)
ASSUME ElementsAssumption == IsFiniteSet(Elements) /\ Elements = 1 .. Cardinality(Elements)
ASSUME CodesAssumption == Codes \subseteq Seq(Nat)

VARIABLES
  what,           \* sort, union, tree
  input, nums,    \* the array before and after
  kth,            \* the k of topK, or 0 for quickSort
  vecFat,         \* the fathers of UnionFindSet
  united,         \* history: the pairs that were united
  shifted,        \* the constructor stored each i in the next place
  nodes, leaves,  \* the prefix tree: the paths that have a node, those with a realVal
  inserted,       \* history: the codes that were inserted
  steps

exVars == <<what, input, nums, kth, vecFat, united, shifted, nodes, leaves, inserted, steps>>

Swap(a, i, j) == [a EXCEPT ![i] = a[j], ![j] = a[i]]

\* Where the two inner loops stop: at an element on the wrong side of p, or where
\* the indices meet.
ScanDown(a, i, j, p) == Max({i} \cup {k \in i + 1 .. j : a[k] < p})
ScanUp(a, i, j, p) == Min({j} \cup {k \in i .. j - 1 : a[k] > p})

\* The loop over i and j, with the pivot p.
Partition(a, left, right, p) ==
  LET n == Len(a)
      loop[c \in [arr : [1 .. n -> Int], i : 1 .. n, j : 1 .. n]] ==
        IF c.i >= c.j THEN c
        ELSE LET j2 == ScanDown(c.arr, c.i, c.j, p)
                 i2 == ScanUp(c.arr, c.i, j2, p) IN
             loop[[arr |-> Swap(c.arr, i2, j2), i |-> i2, j |-> j2]] IN
  loop[[arr |-> a, i |-> left, j |-> right]]

\* The array with the pivot in its place, and that place.
Split(a, left, right) ==
  LET c == Partition(a, left, right, a[left]) IN [arr |-> Swap(c.arr, left, c.i), at |-> c.i]

\* The arguments of a recursive call: the array and a range of it, perhaps empty.
SortArgs(n) == [arr : [1 .. n -> Int], left : 1 .. n + 1, right : 0 .. n]

quickSort(a) ==
  LET call[c \in SortArgs(Len(a))] ==
        IF c.left >= c.right THEN c.arr
        ELSE LET r == Split(c.arr, c.left, c.right)
                 first == call[[arr |-> r.arr, left |-> c.left, right |-> r.at - 1]] IN
             call[[arr |-> first, left |-> r.at + 1, right |-> c.right]] IN
  call[[arr |-> a, left |-> 1, right |-> Len(a)]]

\* Mutant: the part behind the pivot is searched for every k.
topkhelperRight(a, k) ==
  LET call[c \in SortArgs(Len(a))] ==
        IF c.left >= c.right THEN c.arr
        ELSE LET r == Split(c.arr, c.left, c.right) IN
             call[[arr |-> r.arr, left |-> r.at + 1, right |-> c.right]] IN
  call[[arr |-> a, left |-> 1, right |-> Len(a)]]

topkhelper(a, k) ==
  LET call[c \in SortArgs(Len(a))] ==
        IF c.left >= c.right THEN c.arr
        ELSE LET r == Split(c.arr, c.left, c.right) IN
             CASE r.at < k -> call[[arr |-> r.arr, left |-> r.at + 1, right |-> c.right]]
               [] r.at > k -> call[[arr |-> r.arr, left |-> c.left, right |-> r.at - 1]]
               [] r.at = k -> r.arr IN
  call[[arr |-> a, left |-> 1, right |-> Len(a)]]

\* find, and the fathers after it: every element passed gets the root.
Root(f, u) ==
  LET root[x \in Elements] == IF f[x] = x THEN x ELSE root[f[x]] IN root[u]

find(f, u) ==
  LET after[x \in Elements] ==
        IF f[x] = x THEN f ELSE [after[f[x]] EXCEPT ![x] = Root(f, x)] IN
  after[u]

Prefixes1(code) == {SubSeq(code, 1, k) : k \in 0 .. Len(code)}

\* StockPrefixTree::find follows the nodes as far as they go.
tree_find(code) ==
  LET p == Max({k \in 0 .. Len(code) : \A j \in 0 .. k : SubSeq(code, 1, j) \in nodes}) IN
  p = Len(code) /\ code \in leaves

\* The constructor's vecFat[i] = i++ stores each i in its own place or, evaluated
\* from the right, in the next one, the last beyond the end.
UnionFindSet(f) ==
  f \in {[i \in Elements |-> i], [i \in Elements |-> IF i = 1 THEN 1 ELSE i - 1]}

ExInit ==
  /\ what \in {"sort", "union", "tree"} /\ input = <<>> /\ nums = <<>> /\ kth = 0
  /\ UnionFindSet(vecFat) /\ shifted = (vecFat # [i \in Elements |-> i])
  /\ united = {} /\ nodes = {<<>>} /\ leaves = {} /\ inserted = {} /\ steps = 0

sort(a, k) ==
  /\ what = "sort" /\ steps = 0 /\ steps' = 1
  /\ input' = a /\ kth' = k
  /\ nums' = IF k = 0 THEN quickSort(a) ELSE topkhelper(a, k)
  /\ UNCHANGED <<what, vecFat, united, shifted, nodes, leaves, inserted>>

unionVal(u, v) ==
  /\ what = "union" /\ steps < MaxSteps /\ steps' = steps + 1
  /\ vecFat' = [find(find(vecFat, u), v) EXCEPT ![Root(vecFat, v)] = Root(vecFat, u)]
  /\ united' = united \cup {{u, v}}
  /\ UNCHANGED <<what, input, nums, kth, shifted, nodes, leaves, inserted>>

tree_insert(code) ==
  /\ what = "tree" /\ steps < MaxSteps /\ steps' = steps + 1
  /\ nodes' = nodes \cup Prefixes1(code)
  /\ leaves' = IF code = <<>> THEN leaves ELSE leaves \cup {code}
  /\ inserted' = inserted \cup {code}
  /\ UNCHANGED <<what, input, nums, kth, vecFat, united, shifted>>

ExNext ==
  \/ \E a \in Arrays : \E k \in 0 .. Len(a) : sort(a, k)
  \/ \E u, v \in Elements : unionVal(u, v)
  \/ \E c \in Codes : tree_insert(c)

-----------------------------------------------------------------------------
Count(a, x) == Cardinality({i \in DOMAIN a : a[i] = x})
Permutes(a, b) == Len(a) = Len(b) /\ \A x \in ToSet(a) \cup ToSet(b) : Count(a, x) = Count(b, x)

\* quickSort sorts; topK puts the k smallest first, in some order.
SortsRight ==
  /\ Permutes(input, nums)
  /\ kth = 0 => \A i, j \in DOMAIN nums : i < j => nums[i] <= nums[j]
  /\ kth > 0 => \A i \in 1 .. kth, j \in kth + 1 .. Len(nums) : nums[i] <= nums[j]

\* The elements that pairs of united lead to from those in S.
Reach(S) ==
  LET reach[T \in SUBSET Elements] ==
        LET more == T \cup UNION {e \in united : e \cap T # {}} IN
        IF more = T THEN T ELSE reach[more] IN
  reach[S]

\* Two elements have one root exactly if pairs that were united connect them;
\* after a constructor evaluated from the right all of them have one from the
\* start.
UnionRight ==
  \A u, v \in Elements :
    Root(vecFat, u) = Root(vecFat, v) <=> shifted \/ v \in Reach({u})

\* A code is found exactly if it was inserted, whatever prefixes and
\* continuations of it were; the empty code never is.
TreeRight == \A c \in Codes : tree_find(c) <=> c \in inserted /\ c # <<>>
=============================================================================
