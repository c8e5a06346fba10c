--------------------------- MODULE Analysis_proofs --------------------------
(***************************************************************************)
(* What is made of what was recorded: the functions, the tree and the flat *)
(* times of any profiles, and the forest that the reader of the JIT log    *)
(* builds, for any ids, descrs and addresses and logs of any length.       *)
(***************************************************************************)
EXTENDS JitLog, Report, FiniteSetTheorems, TLAPS

-----------------------------------------------------------------------------
(***************************************************************************)
(* Report.  The two counts of TreeMatchesTop are the number of profiles    *)
(* that have the function among the entries read so far (SeenIn); marks    *)
(* are the profiles that ended so far (EndedIn), because addr is the last  *)
(* entry with a node and stands at cur; and no node has fewer samples than *)
(* its children together, where cur still lacks the profile that is in it. *)
(***************************************************************************)
Entries == PyPyFrames \cup CPythonFrames \cup LineEntries
Functions == Codes \cup Natives
ReportStages == {"top", "empty", "tree", "filter", "done"}
HasTree == stage \in {"tree", "filter", "done"}
Folded  == stage \in {"filter", "done"}

\* The profiles that have an address at all, or among the entries before pos.
HasAddr(a) == {i \in DOMAIN profiles : \E j \in DOMAIN profiles[i] : profiles[i][j].a = a}
SeenIn(a) == {i \in DOMAIN profiles : \E j \in DOMAIN profiles[i] :
                (i < next \/ (i = next /\ j < pos)) /\ profiles[i][j].a = a}
Ended(k, a) == {i \in DOMAIN profiles : EndsIn(profiles[i], k, a)}
EndedIn(k, a) == {i \in DOMAIN profiles : i < next /\ EndsIn(profiles[i], k, a)}
Calls(a) == IF a \in DOMAIN functions THEN functions[a] ELSE 0
Topmost(a) == {p \in DOMAIN tree : AddrOf(p) = a /\ \A i \in 1 .. Len(p) - 1 : p[i] # a}
Placed == \A i \in DOMAIN profiles : \E j \in DOMAIN profiles[i] : profiles[i][j].kind # "asm"
Dicts == UNION {[D -> Nat] : D \in SUBSET Nat}
Nodes == [count : Nat, lines : Dicts, meta : [Kinds -> Nat], nr : Nat]

ProfilesOK ==
  /\ lined \in BOOLEAN /\ profiles \in Seq(Seq(Entries))
  /\ \A i \in DOMAIN profiles : \A j \in DOMAIN profiles[i] :
       profiles[i][j].kind = "line" <=> (lined /\ j % 2 = 0)

PlaceOK ==
  /\ stage \in ReportStages /\ next \in 1 .. Len(profiles) + 1 /\ pos \in Nat \ {0}
  /\ next \in DOMAIN profiles => pos <= Len(profiles[next]) + 1

FunctionsOK == functions \in [DOMAIN functions -> Nat] /\ DOMAIN functions \subseteq Addresses

TreeOK ==
  /\ ~(stage = "tree" /\ next \in DOMAIN profiles) => cur = <<>>
  /\ Folded => shown \in DOMAIN tree
  /\ HasTree =>
      /\ root \in Addresses
      /\ DOMAIN tree \subseteq Seq(Functions) /\ IsFiniteSet(DOMAIN tree)
      /\ tree \in [DOMAIN tree -> Nodes]
      /\ <<>> \in DOMAIN tree
      /\ \A p \in DOMAIN tree : p # <<>> => Front(p) \in DOMAIN tree
      /\ cur \in DOMAIN tree /\ last = AddrOf(cur)

UnitsFinite ==
  HasTree => /\ IsFiniteSet(Units([p \in DOMAIN tree |-> tree[p].count]))
             /\ \A k \in Kinds : IsFiniteSet(Units([p \in DOMAIN tree |-> tree[p].meta[k]]))

CallsOK ==
  IF stage = "top"
  THEN /\ seen \subseteq Addresses
       /\ \A a \in Addresses : /\ Calls(a) = Cardinality(SeenIn(a))
                               /\ a \in seen <=> next \in SeenIn(a)
  ELSE \A a \in Addresses : Calls(a) = Cardinality(HasAddr(a))

TopmostOK ==
  /\ stage = "tree" => \A a \in Functions \ {root} :
       /\ CountOf(Topmost(a)) = Cardinality(SeenIn(a))
       /\ (\E i \in DOMAIN cur : cur[i] = a) <=> next \in SeenIn(a)
  /\ Folded => \A a \in Functions \ {root} : CountOf(Topmost(a)) = Cardinality(HasAddr(a))

AddrOK ==
  stage = "tree" /\ next \in DOMAIN profiles /\ (\E j \in 1 .. pos - 1 : profiles[next][j].kind # "asm")
    => \E j \in 1 .. pos - 1 :
         /\ addr = profiles[next][j] /\ addr.kind # "asm"
         /\ \A m \in j + 1 .. pos - 1 : profiles[next][m].kind = "asm"
         /\ addr.kind # "line" => addr.a = AddrOf(cur)

MarksOK ==
  Placed => \A a \in Functions, k \in Kinds :
    /\ stage = "tree" => MarksOf(k, a) = Cardinality(EndedIn(k, a))
    /\ Folded => MarksOf(k, a) = Cardinality(Ended(k, a))

\* What the samples of the children of a node add up to at most: at the root, the
\* profiles begun so far.
Samples(p) == IF p # <<>> \/ Folded THEN tree[p].count ELSE next
SamplesOK ==
  HasTree =>
    /\ tree[<<>>].count = Len(profiles)
    /\ \A p \in DOMAIN tree :
         CountOf(Children(p)) + (IF stage = "tree" /\ p = cur THEN 1 ELSE 0) <= Samples(p)

ReportInv ==
  /\ ProfilesOK /\ PlaceOK /\ FunctionsOK /\ TreeOK /\ UnitsFinite
  /\ CallsOK /\ TopmostOK /\ AddrOK /\ MarksOK /\ SamplesOK
-----------------------------------------------------------------------------
(* Sums *)

LEMMA UnitsMember ==
  ASSUME NEW f, NEW u
  PROVE  u \in Units(f) <=> \E x \in DOMAIN f : \E n \in 1 .. f[x] : u = <<x, n>>
BY DEF Units

\* One more for one argument, old or new, is one more in all.
LEMMA OneMoreUnit ==
  ASSUME NEW S, NEW x, NEW f \in [S -> Nat], NEW g \in [S \cup {x} -> Nat],
         IsFiniteSet(Units(f)),
         \A y \in S \ {x} : g[y] = f[y],
         g[x] = (IF x \in S THEN f[x] ELSE 0) + 1
  PROVE  IsFiniteSet(Units(g)) /\ Total(g) = Total(f) + 1
<1>1. DOMAIN f = S /\ DOMAIN g = S \cup {x}
  OBVIOUS
<1>2. ASSUME NEW y \in S \cup {x}, NEW n \in 1 .. g[y]
      PROVE  <<y, n>> \in Units(f) \cup {<<x, g[x]>>}
  <2>1. CASE y # x
    BY <1>1, <2>1, UnitsMember
  <2>2. CASE y = x /\ n = g[x]
    BY <2>2
  <2>3. CASE y = x /\ n # g[x]
    <3>1. x \in S /\ n \in 1 .. f[x]
      BY <2>3
    <3>2. QED BY <3>1, <2>3, <1>1, UnitsMember
  <2>4. QED BY <2>1, <2>2, <2>3
<1>3. ASSUME NEW y \in S, NEW n \in 1 .. f[y]
      PROVE  <<y, n>> \in Units(g)
  <2>1. n \in 1 .. g[y]
    BY <1>3
  <2>2. QED BY <2>1, <1>1, UnitsMember
<1>4. <<x, g[x]>> \in Units(g)
  <2>1. g[x] \in 1 .. g[x]
    OBVIOUS
  <2>2. QED BY <2>1, <1>1, UnitsMember
<1>5. <<x, g[x]>> \notin Units(f)
  <2>1. SUFFICES ASSUME NEW y \in S, NEW n \in 1 .. f[y], <<x, g[x]>> = <<y, n>>
                 PROVE  FALSE
    BY <1>1, UnitsMember
  <2>2. x = y /\ g[x] = n
    BY <2>1
  <2>3. QED BY <2>2
<1>6. Units(g) = Units(f) \cup {<<x, g[x]>>}
  BY <1>1, <1>2, <1>3, <1>4, UnitsMember
<1> DEFINE u == <<x, g[x]>>
           old == Units(f)
<1> HIDE DEF u, old
<1>7. IsFiniteSet(old \cup {u}) /\ Cardinality(old \cup {u}) = Cardinality(old) + 1
  BY <1>5, FS_AddElement DEF u, old
<1>8. QED BY <1>6, <1>7 DEF Total, u, old

\* A smaller function has the smaller sum.
LEMMA TotalMonotone ==
  ASSUME NEW S, NEW T, NEW f \in [S -> Nat], NEW g \in [T -> Nat], S \subseteq T,
         IsFiniteSet(Units(g)), \A x \in S : f[x] <= g[x]
  PROVE  /\ IsFiniteSet(Units(f)) /\ Units(f) \subseteq Units(g)
         /\ Total(f) \in Nat /\ Total(g) \in Nat /\ Total(f) <= Total(g)
<1>1. ASSUME NEW x \in S, NEW n \in 1 .. f[x]
      PROVE  <<x, n>> \in Units(g)
  <2>1. x \in DOMAIN g /\ n \in 1 .. g[x]
    OBVIOUS
  <2>2. QED BY <2>1, UnitsMember
<1>2. Units(f) \in SUBSET Units(g)
  BY <1>1, UnitsMember
<1>3. QED BY <1>2, FS_Subset, FS_CardinalityType DEF Total

\* What a set of arguments adds up to together with the rest.
LEMMA TotalSplits ==
  ASSUME NEW S, NEW T, NEW f \in [S \cup T -> Nat], S \cap T = {}, IsFiniteSet(Units(f)),
         NEW s, s = [x \in S |-> f[x]], NEW t, t = [x \in T |-> f[x]]
  PROVE  Total(f) = Total(s) + Total(t)
<1>1. s \in [S -> Nat] /\ t \in [T -> Nat]
  OBVIOUS
<1>2. IsFiniteSet(Units(s)) /\ IsFiniteSet(Units(t))
      /\ Total(s) \in Nat /\ Total(t) \in Nat
  BY <1>1, TotalMonotone
<1>3. Units(f) = Units(s) \cup Units(t)
  <2>1. ASSUME NEW u PROVE u \in Units(f) <=> u \in Units(s) \/ u \in Units(t)
    <3>1. u \in Units(f) <=> \E x \in S \cup T : \E n \in 1 .. f[x] : u = <<x, n>>
      BY UnitsMember
    <3>2. u \in Units(s) <=> \E x \in S : \E n \in 1 .. f[x] : u = <<x, n>>
      BY UnitsMember
    <3>3. u \in Units(t) <=> \E x \in T : \E n \in 1 .. f[x] : u = <<x, n>>
      BY UnitsMember
    <3>4. QED BY <3>1, <3>2, <3>3
  <2>2. QED BY <2>1
<1>4. Units(s) \cap Units(t) = {}
  <2>1. SUFFICES ASSUME NEW u, u \in Units(s), u \in Units(t) PROVE FALSE
    OBVIOUS
  <2>2. PICK x \in S : \E n \in 1 .. f[x] : u = <<x, n>>
    BY <2>1, UnitsMember
  <2>3. PICK y \in T : \E m \in 1 .. f[y] : u = <<y, m>>
    BY <2>1, UnitsMember
  <2>4. QED BY <2>2, <2>3
<1> DEFINE us == Units(s)
           ut == Units(t)
<1>5. IsFiniteSet(us) /\ IsFiniteSet(ut) /\ us \cap ut = {}
      /\ Cardinality(us) \in Nat /\ Cardinality(ut) \in Nat
  BY <1>2, <1>4 DEF Total
<1> HIDE DEF us, ut
<1>6. Cardinality(us \cup ut) = Cardinality(us) + Cardinality(ut)
  <2>1. Cardinality(us \cup ut) = Cardinality(us) + Cardinality(ut) - Cardinality({})
    BY <1>5, FS_Union
  <2>2. QED BY <2>1, <1>5, FS_EmptySet
<1>7. QED BY <1>3, <1>6 DEF Total, us, ut

\* One argument adds its value.
LEMMA TotalOfOne ==
  ASSUME NEW x, NEW n \in Nat
  PROVE  IsFiniteSet(Units([y \in {x} |-> n])) /\ Total([y \in {x} |-> n]) = n
<1> DEFINE f == [y \in {x} |-> n]
           b == [k \in 1 .. n |-> <<x, k>>]
<1>1. ASSUME NEW u PROVE u \in Units(f) <=> \E k \in 1 .. n : u = <<x, k>>
  BY UnitsMember
<1>2. b \in [1 .. n -> Units(f)]
  BY <1>1
<1>3. \A j, k \in 1 .. n : b[j] = b[k] => j = k
  OBVIOUS
<1>4. \A u \in Units(f) : \E k \in 1 .. n : b[k] = u
  BY <1>1
<1> HIDE DEF f, b
<1>5. ExistsBijection(1 .. n, Units(f))
  BY <1>2, <1>3, <1>4 DEF ExistsBijection, Bijection, Injection, IsInjective, Surjection
<1>6. Cardinality(Units(f)) = n
  BY <1>5, FS_CountingElements
<1>7. IsFiniteSet(Units(f))
  BY <1>5, FS_Interval, FS_Bijection
<1>8. Total(f) = n
  BY <1>6 DEF Total
<1>9. QED BY <1>7, <1>8 DEF f

\* F has f in parts: F[a] is f on C[a], what h maps to a, and g[a] what it adds up to.
Parted(S, A, f, h, C, F, g) ==
  /\ f \in [S -> Nat] /\ IsFiniteSet(Units(f)) /\ h \in [S -> A] /\ g \in [A -> Nat]
  /\ \A a \in A : \A x : x \in C[a] <=> x \in S /\ h[x] = a
  /\ \A a \in A : F[a] \in [C[a] -> Nat]
  /\ \A a \in A : \A x \in C[a] : F[a][x] = f[x]
  /\ \A a \in A : g[a] = Total(F[a])

\* The sum is that of the sums of the parts.
LEMMA TotalByFiber ==
  ASSUME NEW S, NEW A, NEW f, NEW h, NEW C, NEW F, NEW g, Parted(S, A, f, h, C, F, g)
  PROVE  IsFiniteSet(Units(g)) /\ Total(g) = Total(f)
<1> USE DEF Parted
<1> DEFINE B == [a \in A |-> CHOOSE b : b \in Bijection(1 .. g[a], Units(F[a]))]
           m == [u \in Units(g) |-> B[u[1]][u[2]]]
<1>1. ASSUME NEW a \in A
      PROVE  B[a] \in Bijection(1 .. g[a], Units(F[a]))
  <2>1. F[a] \in [C[a] -> Nat] /\ C[a] \subseteq S
    OBVIOUS
  <2>6. \A y \in C[a] : F[a][y] = f[y] /\ f[y] \in Nat
    BY <2>1
  <2>7. \A y \in C[a] : F[a][y] <= f[y]
    BY <2>6
  <2>2. IsFiniteSet(Units(F[a]))
    BY <2>1, <2>7, TotalMonotone
  <2>3. ExistsBijection(1 .. g[a], Units(F[a]))
    BY <2>2, FS_CardinalityType DEF Total
  <2>4. \E b : b \in Bijection(1 .. g[a], Units(F[a]))
    BY <2>3 DEF ExistsBijection
  <2>5. QED BY <2>4
<1>2. ASSUME NEW a \in A, NEW u
      PROVE  u \in Units(F[a]) <=> \E x \in S : h[x] = a /\ \E n \in 1 .. f[x] : u = <<x, n>>
  <2>1. DOMAIN F[a] = C[a] /\ \A x \in C[a] : F[a][x] = f[x] /\ x \in S /\ h[x] = a
    OBVIOUS
  <2>4. \A x \in S : h[x] = a => x \in C[a]
    OBVIOUS
  <2>2. u \in Units(F[a]) <=> \E x \in DOMAIN F[a] : \E n \in 1 .. F[a][x] : u = <<x, n>>
    BY UnitsMember
  <2>3. QED BY <2>1, <2>2, <2>4
<1>3. ASSUME NEW u PROVE u \in Units(f) <=> \E x \in S : \E n \in 1 .. f[x] : u = <<x, n>>
  BY UnitsMember
<1> HIDE DEF B
<1>5. ASSUME NEW u PROVE u \in Units(g) <=> \E a \in A : \E n \in 1 .. g[a] : u = <<a, n>>
  BY UnitsMember
<1>6. ASSUME NEW a \in A
      PROVE  /\ \A n \in 1 .. g[a] : B[a][n] \in Units(F[a])
             /\ \A n, k \in 1 .. g[a] : B[a][n] = B[a][k] => n = k
             /\ \A v \in Units(F[a]) : \E n \in 1 .. g[a] : B[a][n] = v
  BY <1>1 DEF Bijection, Injection, IsInjective, Surjection
<1>7. ASSUME NEW u \in Units(g)
      PROVE  \E a \in A : \E n \in 1 .. g[a] : u = <<a, n>> /\ m[u] = B[a][n]
  BY <1>5
<1>8. \A u \in Units(g) : m[u] \in Units(f)
  <2>1. TAKE u \in Units(g)
  <2>2. PICK a \in A : \E n \in 1 .. g[a] : u = <<a, n>> /\ m[u] = B[a][n]
    BY <1>7
  <2>3. m[u] \in Units(F[a])
    BY <2>2, <1>6
  <2> HIDE DEF m
  <2>4. QED BY <2>3, <1>2, <1>3
<1>9. \A u, v \in Units(g) : m[u] = m[v] => u = v
  <2>1. SUFFICES ASSUME NEW u \in Units(g), NEW v \in Units(g), m[u] = m[v]
                 PROVE  u = v
    OBVIOUS
  <2>2. PICK a \in A : \E n \in 1 .. g[a] : u = <<a, n>> /\ m[u] = B[a][n]
    BY <1>7
  <2>3. PICK b \in A : \E n \in 1 .. g[b] : v = <<b, n>> /\ m[v] = B[b][n]
    BY <1>7
  <2> HIDE DEF m
  <2>4. m[u] \in Units(F[a]) /\ m[u] \in Units(F[b])
    BY <2>1, <2>2, <2>3, <1>6
  <2>5. a = b
    <3>1. PICK x \in S : h[x] = a /\ \E n \in 1 .. f[x] : m[u] = <<x, n>>
      BY <2>4, <1>2
    <3> DEFINE w == m[u]
    <3> HIDE DEF w
    <3>5. w \in Units(F[b]) /\ w = m[u]
      BY <2>4 DEF w
    <3>6. \E y \in S : h[y] = b /\ \E n \in 1 .. f[y] : w = <<y, n>>
      BY <3>5, <1>2
    <3>2. PICK y \in S : h[y] = b /\ \E n \in 1 .. f[y] : m[u] = <<y, n>>
      BY <3>5, <3>6
    <3>3. x = y
      BY <3>1, <3>2
    <3>4. QED BY <3>1, <3>2, <3>3
  <2>6. QED BY <2>1, <2>2, <2>3, <2>5, <1>6
<1>10. \A w \in Units(f) : \E u \in Units(g) : m[u] = w
  <2>1. TAKE w \in Units(f)
  <2>2. PICK x \in S : \E n \in 1 .. f[x] : w = <<x, n>>
    BY <1>3
  <2>3. h[x] \in A /\ w \in Units(F[h[x]])
    BY <2>2, <1>2
  <2>4. PICK k \in 1 .. g[h[x]] : B[h[x]][k] = w
    BY <2>3, <1>6
  <2>5. <<h[x], k>> \in Units(g)
    BY <2>3, <1>5
  <2>6. m[<<h[x], k>>] = w
    BY <2>4, <2>5
  <2>7. QED BY <2>5, <2>6
<1>11. m \in [Units(g) -> Units(f)]
  BY <1>8
<1> HIDE DEF m
<1>12. m \in Injection(Units(g), Units(f)) /\ m \in Surjection(Units(g), Units(f))
  BY <1>9, <1>10, <1>11 DEF Injection, IsInjective, Surjection
<1>13. IsFiniteSet(Units(g)) /\ Cardinality(Units(g)) = Cardinality(Units(f))
  BY <1>12, FS_Injection
<1>14. QED BY <1>13 DEF Total

\* The sum of the differences is the difference of the sums.
LEMMA TotalOfDifference ==
  ASSUME NEW A, NEW f \in [A -> Nat], NEW g \in [A -> Nat], IsFiniteSet(Units(f)),
         \A a \in A : g[a] <= f[a]
  PROVE  Total([a \in A |-> f[a] - g[a]]) = Total(f) - Total(g)
<1> DEFINE d == [a \in A |-> f[a] - g[a]]
           rest == Units(f) \ Units(g)
           m == [u \in Units(d) |-> <<u[1], g[u[1]] + u[2]>>]
<1>1. Units(g) \subseteq Units(f) /\ IsFiniteSet(Units(g))
      /\ Total(f) \in Nat /\ Total(g) \in Nat
  BY TotalMonotone
<1>2. IsFiniteSet(rest) /\ Cardinality(rest) = Total(f) - Total(g)
  <2>1. Units(f) \cap Units(g) = Units(g)
    BY <1>1
  <2>2. QED BY <2>1, FS_Difference DEF Total
<1>3. ASSUME NEW u PROVE u \in Units(f) <=> \E a \in A : \E n \in 1 .. f[a] : u = <<a, n>>
  BY UnitsMember
<1>4. ASSUME NEW u PROVE u \in Units(g) <=> \E a \in A : \E n \in 1 .. g[a] : u = <<a, n>>
  BY UnitsMember
<1>5. ASSUME NEW u
      PROVE  u \in Units(d) <=> \E a \in A : \E n \in 1 .. f[a] - g[a] : u = <<a, n>>
  BY UnitsMember
<1>6. ASSUME NEW a \in A, NEW n \in Int
      PROVE  <<a, n>> \in rest <=> n \in g[a] + 1 .. f[a]
  <2>1. <<a, n>> \in Units(f) <=> n \in 1 .. f[a]
    BY <1>3
  <2>2. <<a, n>> \in Units(g) <=> n \in 1 .. g[a]
    BY <1>4
  <2>3. QED BY <2>1, <2>2
<1> HIDE DEF d, rest
<1>7. ASSUME NEW u \in Units(d)
      PROVE  \E a \in A : \E n \in 1 .. f[a] - g[a] : u = <<a, n>> /\ m[u] = <<a, g[a] + n>>
  BY <1>5
<1>8. \A u \in Units(d) : m[u] \in rest
  <2>1. TAKE u \in Units(d)
  <2>2. PICK a \in A : \E n \in 1 .. f[a] - g[a] : u = <<a, n>> /\ m[u] = <<a, g[a] + n>>
    BY <1>7
  <2>3. PICK n \in 1 .. f[a] - g[a] : m[u] = <<a, g[a] + n>>
    BY <2>2
  <2>4. g[a] + n \in g[a] + 1 .. f[a]
    OBVIOUS
  <2> HIDE DEF m
  <2>5. QED BY <2>3, <2>4, <1>6
<1>9. \A u, v \in Units(d) : m[u] = m[v] => u = v
  <2>1. SUFFICES ASSUME NEW u \in Units(d), NEW v \in Units(d), m[u] = m[v]
                 PROVE  u = v
    OBVIOUS
  <2>2. PICK a \in A : \E n \in 1 .. f[a] - g[a] : u = <<a, n>> /\ m[u] = <<a, g[a] + n>>
    BY <1>7
  <2>3. PICK b \in A : \E n \in 1 .. f[b] - g[b] : v = <<b, n>> /\ m[v] = <<b, g[b] + n>>
    BY <1>7
  <2> HIDE DEF m
  <2>4. QED BY <2>1, <2>2, <2>3
<1>10. \A w \in rest : \E u \in Units(d) : m[u] = w
  <2>1. TAKE w \in rest
  <2>2. PICK a \in A : \E n \in 1 .. f[a] : w = <<a, n>>
    BY <1>3 DEF rest
  <2>3. PICK n \in 1 .. f[a] : w = <<a, n>>
    BY <2>2
  <2>4. n - g[a] \in 1 .. f[a] - g[a]
    BY <2>3, <1>6
  <2>5. <<a, n - g[a]>> \in Units(d)
    BY <2>4, <1>5
  <2>6. m[<<a, n - g[a]>>] = w
    BY <2>3, <2>5
  <2>7. QED BY <2>5, <2>6
<1>11. m \in [Units(d) -> rest]
  BY <1>8
<1> HIDE DEF m
<1>12. m \in Injection(Units(d), rest) /\ m \in Surjection(Units(d), rest)
  BY <1>9, <1>10, <1>11 DEF Injection, IsInjective, Surjection
<1>13. Cardinality(Units(d)) = Cardinality(rest)
  BY <1>2, <1>12, FS_Injection
<1>14. Total(d) = Total(f) - Total(g)
  BY <1>2, <1>13 DEF Total
<1>15. QED BY <1>14 DEF d

-----------------------------------------------------------------------------
(* Entries, paths and places *)

LEMMA EntryFacts ==
  ASSUME NEW e \in Entries
  PROVE  /\ e = Entry(e.kind, e.a) /\ e.a \in Int
         /\ e.kind \in {"code", "jit", "native", "asm", "line"}
         /\ e.kind = "line" <=> e.a <= 0
         /\ e.kind = "line" => -e.a \in Nat
         /\ e.kind # "line" => e.a \in Addresses /\ e.a > 0
         /\ e.kind = "asm" <=> e.a \in Assembled
         /\ e.kind \notin {"asm", "line"} => e.a \in Functions
BY ReportAssumption DEF Entries, PyPyFrames, CPythonFrames, LineEntries, Entry, Addresses, Functions

LEMMA AddressFacts ==
  /\ Addresses \subseteq Nat \ {0} /\ Functions \subseteq Addresses
  /\ Functions \cap Assembled = {} /\ Addresses = Functions \cup Assembled
BY ReportAssumption DEF Addresses, Functions

LEMMA ProfileFacts ==
  ASSUME ProfilesOK
  PROVE  /\ DOMAIN profiles = 1 .. Len(profiles) /\ Len(profiles) \in Nat
         /\ IsFiniteSet(DOMAIN profiles)
         /\ \A i \in DOMAIN profiles :
              /\ DOMAIN profiles[i] = 1 .. Len(profiles[i]) /\ Len(profiles[i]) \in Nat
              /\ \A j \in DOMAIN profiles[i] :
                   /\ profiles[i][j] \in Entries
                   /\ profiles[i][j].kind = "line" <=> (lined /\ j % 2 = 0)
<1>1. DOMAIN profiles = 1 .. Len(profiles) /\ Len(profiles) \in Nat
      /\ \A i \in DOMAIN profiles : profiles[i] \in Seq(Entries)
  BY DEF ProfilesOK
<1>2. IsFiniteSet(DOMAIN profiles)
  BY <1>1, FS_Interval
<1>3. ASSUME NEW i \in DOMAIN profiles
      PROVE  /\ DOMAIN profiles[i] = 1 .. Len(profiles[i]) /\ Len(profiles[i]) \in Nat
             /\ \A j \in DOMAIN profiles[i] : profiles[i][j] \in Entries
  <2>1. profiles[i] \in Seq(Entries)
    BY <1>1
  <2>2. QED BY <2>1
<1>4. QED BY <1>1, <1>2, <1>3 DEF ProfilesOK

LEMMA PathFacts ==
  ASSUME NEW F, NEW p \in Seq(F), NEW a \in F
  PROVE  /\ Append(p, a) \in Seq(F) /\ Append(p, a) # <<>> /\ Append(p, a) # p
         /\ Front(Append(p, a)) = p /\ Last(Append(p, a)) = a
         /\ Len(Append(p, a)) = Len(p) + 1
         /\ \A i \in 1 .. Len(p) : Append(p, a)[i] = p[i]
         /\ Append(p, a)[Len(p) + 1] = a
<1>1. /\ Append(p, a) \in Seq(F) /\ Append(p, a) # <<>> /\ Append(p, a) # p
      /\ Len(Append(p, a)) = Len(p) + 1
      /\ \A i \in 1 .. Len(p) : Append(p, a)[i] = p[i]
      /\ Append(p, a)[Len(p) + 1] = a
  OBVIOUS
<1>2. Front(Append(p, a)) = p
  BY <1>1 DEF Front
<1>3. Last(Append(p, a)) = a
  BY <1>1 DEF Last
<1>4. QED BY <1>1, <1>2, <1>3

LEMMA AddrOfPath ==
  ASSUME TreeOK, HasTree, NEW p \in DOMAIN tree
  PROVE  /\ AddrOf(p) \in Addresses
         /\ p # <<>> => AddrOf(p) \in Functions /\ AddrOf(p) = p[Len(p)]
<1>1. p \in Seq(Functions) /\ root \in Addresses
  BY DEF TreeOK
<1>2. CASE p # <<>>
  BY <1>1, <1>2, AddressFacts DEF AddrOf, Last
<1>3. CASE p = <<>>
  BY <1>1, <1>3 DEF AddrOf
<1>4. QED BY <1>2, <1>3

\* What the entry read in get_tree is.
LEMMA HereFacts ==
  ASSUME ProfilesOK, PlaceOK, InProfile
  PROVE  /\ Here \in Entries /\ Here = profiles[next][pos] /\ next \in 1 .. Len(profiles)
         /\ pos \in 1 .. Len(profiles[next])
         /\ Here.kind = "line" <=> (lined /\ pos % 2 = 0)
BY ProfileFacts DEF Here, InProfile

-----------------------------------------------------------------------------
(* Initial states *)

LEMMA LinedFacts ==
  ASSUME NEW n \in Nat, NEW f \in [1 .. n -> CPythonFrames], NEW l \in [1 .. n -> LineEntries]
  PROVE  /\ Lined(f, l) \in Seq(Entries)
         /\ \A j \in DOMAIN Lined(f, l) : Lined(f, l)[j].kind = "line" <=> j % 2 = 0
<1> DEFINE s == Lined(f, l)
<1>1. Len(f) = n
  OBVIOUS
<1>2. s = [i \in 1 .. 2 * n |-> IF i % 2 = 1 THEN f[(i + 1) \div 2] ELSE l[i \div 2]]
  BY <1>1 DEF Lined
<1> HIDE DEF s
<1>3. ASSUME NEW j \in 1 .. 2 * n
      PROVE  s[j] \in Entries /\ (s[j].kind = "line" <=> j % 2 = 0)
  <2>1. CASE j % 2 = 1
    <3>1. (j + 1) \div 2 \in 1 .. n
      BY <2>1
    <3>2. s[j] \in CPythonFrames
      BY <1>2, <2>1, <3>1
    <3>3. s[j].kind # "line"
      BY <3>2 DEF CPythonFrames, Entry
    <3>4. QED BY <2>1, <3>2, <3>3 DEF Entries
  <2>2. CASE j % 2 = 0
    <3>1. j \div 2 \in 1 .. n
      BY <2>2
    <3>2. s[j] \in LineEntries
      BY <1>2, <2>2, <3>1
    <3>3. s[j].kind = "line"
      BY <3>2 DEF LineEntries, Entry
    <3>4. QED BY <2>2, <3>2, <3>3 DEF Entries
  <2>3. QED BY <2>1, <2>2
<1>4. s \in [1 .. 2 * n -> Entries]
  BY <1>2, <1>3
<1>5. s \in Seq(Entries) /\ DOMAIN s = 1 .. 2 * n
  BY <1>4
<1>6. QED BY <1>3, <1>5 DEF s

LEMMA InitialProfiles ==
  ASSUME ReportInit
  PROVE  ProfilesOK
<1>1. ASSUME lined = FALSE, profiles \in BoundedSeq(PlainProfiles, MaxProfiles)
      PROVE  ProfilesOK
  <2>1. PICK m \in Nat : profiles \in [1 .. m -> PlainProfiles]
    BY <1>1, ReportAssumption DEF BoundedSeq, SeqOf
  <2>2. ASSUME NEW i \in DOMAIN profiles
        PROVE  /\ profiles[i] \in Seq(Entries)
               /\ \A j \in DOMAIN profiles[i] : profiles[i][j].kind # "line"
    <3>1. profiles[i] \in BoundedSeq(PyPyFrames, MaxDepth) \cup BoundedSeq(CPythonFrames, MaxDepth)
      BY <2>1, <2>2 DEF PlainProfiles
    <3>2. PICK n \in Nat : profiles[i] \in [1 .. n -> PyPyFrames] \cup [1 .. n -> CPythonFrames]
      BY <3>1, ReportAssumption DEF BoundedSeq, SeqOf
    <3>3. profiles[i] \in [1 .. n -> Entries]
      BY <3>2 DEF Entries
    <3>4. ASSUME NEW j \in 1 .. n PROVE profiles[i][j].kind # "line"
      <4>1. profiles[i][j] \in PyPyFrames \cup CPythonFrames
        BY <3>2
      <4>2. QED BY <4>1 DEF PyPyFrames, CPythonFrames, Entry
    <3>5. QED BY <3>3, <3>4
  <2>3. profiles \in [1 .. m -> Seq(Entries)]
    BY <2>1, <2>2
  <2>4. profiles \in Seq(Seq(Entries))
    BY <2>3
  <2>5. QED BY <1>1, <2>2, <2>4 DEF ProfilesOK
<1>2. ASSUME lined = TRUE, profiles \in BoundedSeq(LinedProfiles, MaxProfiles)
      PROVE  ProfilesOK
  <2>1. PICK m \in Nat : profiles \in [1 .. m -> LinedProfiles]
    BY <1>2, ReportAssumption DEF BoundedSeq, SeqOf
  <2>2. ASSUME NEW i \in DOMAIN profiles
        PROVE  /\ profiles[i] \in Seq(Entries)
               /\ \A j \in DOMAIN profiles[i] : profiles[i][j].kind = "line" <=> j % 2 = 0
    <3>1. profiles[i] \in LinedProfiles
      BY <2>1, <2>2
    <3>2. PICK n \in 0 .. MaxDepth - 1 :
            \E f \in [1 .. n -> CPythonFrames], l \in [1 .. n -> LineEntries] :
              profiles[i] = Lined(f, l)
      BY <3>1 DEF LinedProfiles
    <3>3. n \in Nat
      BY ReportAssumption
    <3>4. PICK f \in [1 .. n -> CPythonFrames], l \in [1 .. n -> LineEntries] :
            profiles[i] = Lined(f, l)
      BY <3>2
    <3>5. QED BY <3>3, <3>4, LinedFacts
  <2>3. profiles \in [1 .. m -> Seq(Entries)]
    BY <2>1, <2>2
  <2>4. profiles \in Seq(Seq(Entries))
    BY <2>3
  <2>5. QED BY <1>2, <2>2, <2>4 DEF ProfilesOK
<1>3. QED BY <1>1, <1>2 DEF ReportInit

LEMMA ReportStarts ==
  ASSUME ReportInit
  PROVE  ReportInv
<1>1. ProfilesOK
  BY InitialProfiles
<1>2. DOMAIN profiles = 1 .. Len(profiles) /\ Len(profiles) \in Nat
  BY <1>1, ProfileFacts
<1>3. stage = "top" /\ next = 1 /\ pos = 1 /\ functions = << >> /\ seen = {}
      /\ cur = <<>>
  BY DEF ReportInit
<1>4. PlaceOK
  <2>1. 1 \in DOMAIN profiles => Len(profiles[1]) \in Nat
    BY <1>1, ProfileFacts
  <2>2. QED BY <1>2, <1>3, <2>1 DEF PlaceOK, ReportStages
<1>5. FunctionsOK
  BY <1>3 DEF FunctionsOK
<1>6. ~HasTree /\ ~Folded
  BY <1>3 DEF HasTree, Folded
<1>7. CallsOK
  <2>1. ASSUME NEW a \in Addresses
        PROVE  Calls(a) = Cardinality(SeenIn(a)) /\ next \notin SeenIn(a)
    <3>1. Calls(a) = 0
      BY <1>3 DEF Calls
    <3>2. SeenIn(a) = {}
      <4>1. ASSUME NEW i \in DOMAIN profiles, NEW j \in DOMAIN profiles[i]
            PROVE  ~(i < next \/ (i = next /\ j < pos))
        BY <1>1, <1>2, <1>3, ProfileFacts
      <4>2. QED BY <4>1 DEF SeenIn
    <3>3. QED BY <3>1, <3>2, FS_EmptySet
  <2>2. QED BY <1>3, <2>1 DEF CallsOK
<1>8. TreeOK /\ UnitsFinite /\ TopmostOK /\ AddrOK /\ MarksOK /\ SamplesOK
  BY <1>3, <1>6 DEF TreeOK, UnitsFinite, TopmostOK, AddrOK, MarksOK, SamplesOK
<1>9. QED BY <1>1, <1>4, <1>5, <1>7, <1>8 DEF ReportInv

-----------------------------------------------------------------------------
(* Steps: the profiles, the place and the counts per function *)

LEMMA ProfilesStep ==
  ASSUME ReportInv, [ReportNext]_report_vars
  PROVE  profiles' = profiles /\ lined' = lined /\ ProfilesOK'
<1>1. profiles' = profiles /\ lined' = lined
  BY DEF ReportNext, report_vars, CountEntry, CountedProfile, GetTop, InTree, SkipAssembler,
         CountLine, SkipDuplicate, AddChild, MarkLast, StartFilter, FilterTop
<1>2. QED BY <1>1 DEF ReportInv, ProfilesOK

\* Where the loops may go.
LEMMA PlaceMoves ==
  ASSUME ProfilesOK, PlaceOK, profiles' = profiles, stage' \in ReportStages,
         \/ InProfile /\ NextEntry
         \/ AtEnd /\ NextProfile
         \/ next' = 1 /\ pos' = 1
         \/ UNCHANGED <<next, pos>>
  PROVE  PlaceOK'
<1>1. DOMAIN profiles = 1 .. Len(profiles) /\ Len(profiles) \in Nat
      /\ \A i \in DOMAIN profiles : DOMAIN profiles[i] = 1 .. Len(profiles[i])
                                    /\ Len(profiles[i]) \in Nat
  BY ProfileFacts
<1>2. CASE InProfile /\ NextEntry
  BY <1>1, <1>2 DEF PlaceOK, InProfile, NextEntry
<1>3. CASE AtEnd /\ NextProfile
  BY <1>1, <1>3 DEF PlaceOK, AtEnd, NextProfile
<1>4. CASE next' = 1 /\ pos' = 1
  BY <1>1, <1>4 DEF PlaceOK
<1>5. CASE UNCHANGED <<next, pos>>
  BY <1>5 DEF PlaceOK
<1>6. QED BY <1>2, <1>3, <1>4, <1>5

LEMMA PlaceStep ==
  ASSUME ReportInv, [ReportNext]_report_vars
  PROVE  PlaceOK'
<1>1. ProfilesOK /\ PlaceOK /\ profiles' = profiles /\ stage \in ReportStages
  BY ProfilesStep DEF ReportInv, PlaceOK
<1>2. CASE CountEntry
  BY <1>1, <1>2, PlaceMoves DEF CountEntry, NextEntry
<1>3. CASE CountedProfile
  BY <1>1, <1>3, PlaceMoves DEF CountedProfile, NextProfile
<1>4. CASE GetTop
  BY <1>1, <1>4, PlaceMoves DEF GetTop, Begin, ReportStages
<1>5. CASE SkipAssembler \/ CountLine \/ SkipDuplicate \/ AddChild
  BY <1>1, <1>5, PlaceMoves DEF SkipAssembler, CountLine, SkipDuplicate, AddChild, NextEntry
<1>6. CASE MarkLast
  BY <1>1, <1>6, PlaceMoves DEF MarkLast, NextProfile
<1>7. CASE StartFilter
  BY <1>1, <1>7, PlaceMoves DEF StartFilter, Begin, ReportStages
<1>8. CASE FilterTop
  BY <1>1, <1>8, PlaceMoves DEF FilterTop, ReportStages
<1>9. CASE UNCHANGED report_vars
  BY <1>1, <1>9, PlaceMoves DEF report_vars, loop
<1>10. QED BY <1>2, <1>3, <1>4, <1>5, <1>6, <1>7, <1>8, <1>9 DEF ReportNext

\* The profiles seen so far grow by this one, when its entry has the address.
LEMMA SeenInStep ==
  ASSUME ProfilesOK, PlaceOK, InProfile, NextEntry, profiles' = profiles, NEW a
  PROVE  /\ SeenIn(a)' = SeenIn(a) \cup (IF Here.a = a THEN {next} ELSE {})
         /\ next' = next /\ IsFiniteSet(SeenIn(a))
         /\ next \notin SeenIn(a) => Cardinality(SeenIn(a) \cup {next}) = Cardinality(SeenIn(a)) + 1
<1>1. next' = next /\ pos' = pos + 1 /\ next \in DOMAIN profiles /\ pos \in DOMAIN profiles[next]
  BY DEF InProfile, NextEntry
<1>2. DOMAIN profiles = 1 .. Len(profiles) /\ IsFiniteSet(DOMAIN profiles)
      /\ \A i \in DOMAIN profiles : DOMAIN profiles[i] = 1 .. Len(profiles[i])
                                    /\ Len(profiles[i]) \in Nat
  BY ProfileFacts
<1>3. ASSUME NEW i \in DOMAIN profiles
      PROVE  i \in SeenIn(a)' <=> i \in SeenIn(a) \/ (i = next /\ Here.a = a)
  BY <1>1, <1>2 DEF SeenIn, Here
<1>4. SeenIn(a) \subseteq DOMAIN profiles /\ SeenIn(a)' \subseteq DOMAIN profiles
  BY DEF SeenIn
<1>5. IsFiniteSet(SeenIn(a))
  BY <1>2, <1>4, FS_Subset
<1>6. next \notin SeenIn(a) => Cardinality(SeenIn(a) \cup {next}) = Cardinality(SeenIn(a)) + 1
  BY <1>5, FS_AddElement
<1>7. QED BY <1>1, <1>3, <1>4, <1>5, <1>6

\* At the end of a profile they stay the same, and after the last they are all.
LEMMA SeenInNext ==
  ASSUME ProfilesOK, PlaceOK, AtEnd, NextProfile, profiles' = profiles, NEW a
  PROVE  SeenIn(a)' = SeenIn(a) /\ next' \notin SeenIn(a)
<1>1. next' = next + 1 /\ pos' = 1 /\ next \in DOMAIN profiles /\ pos \notin DOMAIN profiles[next]
  BY DEF AtEnd, NextProfile
<1>2. DOMAIN profiles = 1 .. Len(profiles)
      /\ \A i \in DOMAIN profiles : DOMAIN profiles[i] = 1 .. Len(profiles[i])
                                    /\ Len(profiles[i]) \in Nat
  BY ProfileFacts
<1>3. pos = Len(profiles[next]) + 1
  BY <1>1, <1>2 DEF PlaceOK
<1>4. ASSUME NEW i \in DOMAIN profiles
      PROVE  i \in SeenIn(a)' <=> i \in SeenIn(a)
  BY <1>1, <1>2, <1>3 DEF SeenIn
<1>5. next' \notin SeenIn(a)
  BY <1>1, <1>2 DEF SeenIn
<1>6. QED BY <1>4, <1>5 DEF SeenIn

LEMMA SeenInAll ==
  ASSUME ProfilesOK, PlaceOK, next \notin DOMAIN profiles, NEW a
  PROVE  SeenIn(a) = HasAddr(a)
<1>1. DOMAIN profiles = 1 .. Len(profiles) /\ Len(profiles) \in Nat
  BY ProfileFacts
<1>2. \A i \in DOMAIN profiles : i < next
  BY <1>1 DEF PlaceOK
<1>3. QED BY <1>2 DEF SeenIn, HasAddr

\* Before anything is read nothing is seen.
LEMMA SeenInNone ==
  ASSUME ProfilesOK, next = 1, pos = 1, NEW a
  PROVE  SeenIn(a) = {}
<1>1. DOMAIN profiles = 1 .. Len(profiles)
      /\ \A i \in DOMAIN profiles : DOMAIN profiles[i] = 1 .. Len(profiles[i])
  BY ProfileFacts
<1>2. QED BY <1>1 DEF SeenIn

LEMMA FunctionsStep ==
  ASSUME ReportInv, [ReportNext]_report_vars
  PROVE  FunctionsOK'
<1>1. CASE CountEntry /\ ~((lined /\ pos % 2 = 0) \/ Here.a \in seen)
  <2>1. functions' = OneMore(functions, Here.a) /\ InProfile
    BY <1>1 DEF CountEntry
  <2>2. Here.a \in Addresses
    BY <1>1, <2>1, HereFacts, EntryFacts DEF ReportInv
  <2>3. QED BY <2>1, <2>2 DEF ReportInv, FunctionsOK, OneMore
<1>2. CASE ~(CountEntry /\ ~((lined /\ pos % 2 = 0) \/ Here.a \in seen))
  <2>1. functions' = functions
    BY <1>2 DEF ReportNext, report_vars, CountEntry, CountedProfile, GetTop, InTree, SkipAssembler,
         CountLine, SkipDuplicate, AddChild, MarkLast, StartFilter, FilterTop
  <2>2. QED BY <2>1 DEF ReportInv, FunctionsOK
<1>3. QED BY <1>1, <1>2

LEMMA CallsStep ==
  ASSUME ReportInv, [ReportNext]_report_vars
  PROVE  CallsOK'
<1>1. ProfilesOK /\ PlaceOK /\ FunctionsOK /\ CallsOK /\ profiles' = profiles /\ lined' = lined
  BY ProfilesStep DEF ReportInv
<1>2. CASE CountEntry
  <2>1. stage = "top" /\ stage' = "top" /\ InProfile /\ NextEntry
    BY <1>2 DEF CountEntry, NextEntry
  <2>2. /\ Here \in Entries /\ (Here.kind = "line" <=> (lined /\ pos % 2 = 0))
        /\ Here.kind = "line" <=> Here.a \notin Addresses
    BY <1>1, <2>1, HereFacts, EntryFacts, AddressFacts
  <2>3. ASSUME NEW a \in Addresses
        PROVE  Calls(a)' = Cardinality(SeenIn(a)') /\ (a \in seen' <=> next' \in SeenIn(a)')
    <3>1. Calls(a) = Cardinality(SeenIn(a)) /\ (a \in seen <=> next \in SeenIn(a))
      BY <1>1, <2>1 DEF CallsOK
    <3>2. /\ SeenIn(a)' = SeenIn(a) \cup (IF Here.a = a THEN {next} ELSE {}) /\ next' = next
          /\ next \notin SeenIn(a) => Cardinality(SeenIn(a) \cup {next}) = Cardinality(SeenIn(a)) + 1
      BY <1>1, <2>1, SeenInStep
    <3>3. CASE Here.a # a
      <4>1. Calls(a)' = Calls(a) /\ (a \in seen' <=> a \in seen)
        BY <1>1, <1>2, <3>3 DEF CountEntry, Calls, OneMore, FunctionsOK
      <4>2. QED BY <3>1, <3>2, <3>3, <4>1
    <3>4. CASE Here.a = a /\ a \in seen
      <4>1. functions' = functions /\ seen' = seen
        BY <1>2, <3>4 DEF CountEntry
      <4>2. SeenIn(a)' = SeenIn(a)
        BY <3>1, <3>2, <3>4
      <4>3. QED BY <3>1, <3>2, <4>1, <4>2, <3>4 DEF Calls
    <3>5. CASE Here.a = a /\ a \notin seen
      <4>1. functions' = OneMore(functions, a) /\ seen' = seen \cup {a}
        BY <1>2, <2>2, <3>5 DEF CountEntry
      <4>2. Calls(a)' = Calls(a) + 1
        BY <1>1, <4>1 DEF Calls, OneMore, FunctionsOK
      <4>3. Cardinality(SeenIn(a)') = Cardinality(SeenIn(a)) + 1
        BY <3>1, <3>2, <3>5
      <4>4. QED BY <3>1, <3>2, <3>5, <4>1, <4>2, <4>3
    <3>6. QED BY <3>3, <3>4, <3>5
  <2>4. seen' \subseteq Addresses
    BY <1>1, <1>2, <2>1, <2>2 DEF CountEntry, CallsOK
  <2>5. QED BY <2>1, <2>3, <2>4 DEF CallsOK
<1>3. CASE CountedProfile
  <2>1. stage = "top" /\ stage' = "top" /\ AtEnd /\ NextProfile /\ seen' = {} /\ functions' = functions
    BY <1>3 DEF CountedProfile, NextProfile
  <2>2. ASSUME NEW a \in Addresses
        PROVE  Calls(a)' = Cardinality(SeenIn(a)') /\ (a \in seen' <=> next' \in SeenIn(a)')
    <3>1. SeenIn(a)' = SeenIn(a) /\ next' \notin SeenIn(a)
      BY <1>1, <2>1, SeenInNext
    <3>2. Calls(a)' = Calls(a) /\ Calls(a) = Cardinality(SeenIn(a))
      BY <1>1, <2>1 DEF Calls, CallsOK
    <3>3. QED BY <2>1, <3>1, <3>2
  <2>3. QED BY <2>1, <2>2 DEF CallsOK
<1>4. CASE GetTop
  <2>1. stage = "top" /\ stage' \in {"tree", "empty"} /\ next \notin DOMAIN profiles
        /\ functions' = functions
    BY <1>4 DEF GetTop, Begin
  <2>2. ASSUME NEW a \in Addresses
        PROVE  Calls(a)' = Cardinality(HasAddr(a)')
    <3>1. SeenIn(a) = HasAddr(a)
      BY <1>1, <2>1, SeenInAll
    <3>2. Calls(a)' = Calls(a) /\ Calls(a) = Cardinality(SeenIn(a))
      BY <1>1, <2>1 DEF Calls, CallsOK
    <3>3. HasAddr(a)' = HasAddr(a)
      BY <1>1 DEF HasAddr
    <3>4. QED BY <3>1, <3>2, <3>3
  <2>3. QED BY <2>1, <2>2 DEF CallsOK
<1>5. CASE ~(CountEntry \/ CountedProfile \/ GetTop)
  <2>1. functions' = functions /\ seen' = seen
        /\ \/ UNCHANGED <<stage, next, pos>>
           \/ stage # "top" /\ stage' # "top"
    BY <1>5 DEF ReportNext, report_vars, loop, InTree, SkipAssembler, CountLine, SkipDuplicate,
         AddChild, MarkLast, StartFilter, FilterTop, NextEntry, NextProfile, Begin
  <2>2. ASSUME NEW a
        PROVE  Calls(a)' = Calls(a) /\ HasAddr(a)' = HasAddr(a)
               /\ (UNCHANGED <<next, pos>> => SeenIn(a)' = SeenIn(a))
    BY <1>1, <2>1 DEF Calls, HasAddr, SeenIn
  <2>3. QED BY <1>1, <2>1, <2>2 DEF CallsOK
<1>6. QED BY <1>2, <1>3, <1>4, <1>5

-----------------------------------------------------------------------------
(* Steps: the tree *)

LEMMA NodeFacts ==
  ASSUME NEW n \in Nat, NEW i \in Nat
  PROVE  /\ Node(n, i) \in Nodes
         /\ Node(n, i).count = n /\ \A k \in Kinds : Node(n, i).meta[k] = 0
<1>1. << >> \in Dicts
  <2>1. << >> \in [{} -> Nat]
    OBVIOUS
  <2>2. QED BY <2>1 DEF Dicts
<1>2. [k \in Kinds |-> 0] \in [Kinds -> Nat]
  OBVIOUS
<1>3. QED BY <1>1, <1>2 DEF Node, Nodes

\* get_top puts one node there, for all profiles.
LEMMA TopTree ==
  ASSUME ReportInv, GetTop, stage' # "empty"
  PROVE  /\ stage' = "tree" /\ next' = 1 /\ pos' = 1 /\ cur' = cur /\ last' = root'
         /\ profiles' = profiles /\ cur = <<>> /\ root' \in Addresses
         /\ tree' \in [{<<>>} -> Nodes]
         /\ tree'[<<>>].count = Len(profiles) /\ \A k \in Kinds : tree'[<<>>].meta[k] = 0
<1>1. ProfilesOK /\ stage = "top" /\ stage' = "tree" /\ next' = 1 /\ pos' = 1 /\ cur' = cur
      /\ last' = root' /\ profiles' = profiles
  BY DEF GetTop, Begin, ReportInv
<1>2. cur = <<>>
  BY <1>1 DEF ReportInv, TreeOK
<1>3. PICK i \in DOMAIN profiles : profiles[i] # <<>> /\ root' = profiles[i][1].a
  BY <1>1 DEF GetTop, Begin
<1>4. 1 \in DOMAIN profiles[i]
  <2>1. profiles[i] \in Seq(Entries)
    BY <1>1 DEF ProfilesOK
  <2>2. QED BY <1>3, <2>1
<1>5. root' \in Addresses
  BY <1>1, <1>3, <1>4, ProfileFacts, EntryFacts
<1>6. tree' = [p \in {<<>>} |-> Node(Len(profiles), 0)]
  BY <1>1 DEF GetTop, Begin
<1>7. QED BY <1>1, <1>2, <1>5, <1>6, NodeFacts, ProfileFacts

\* A line, a child and a mark: what they change in the tree.
LEMMA LineTree ==
  ASSUME ReportInv, CountLine
  PROVE  /\ tree' \in [DOMAIN tree -> Nodes]
         /\ \A p \in DOMAIN tree : tree'[p].count = tree[p].count /\ tree'[p].meta = tree[p].meta
<1>1. /\ tree \in [DOMAIN tree -> Nodes] /\ cur \in DOMAIN tree
      /\ tree' = [tree EXCEPT ![cur].lines = OneMore(@, -Here.a)]
  BY DEF CountLine, InTree, ReportInv, TreeOK, HasTree
<1>2. -Here.a \in Nat
  BY HereFacts, EntryFacts DEF CountLine, ReportInv
<1>3. ASSUME NEW d \in Dicts
      PROVE  OneMore(d, -Here.a) \in Dicts
  <2>1. PICK D \in SUBSET Nat : d \in [D -> Nat]
    BY DEF Dicts
  <2> DEFINE n == -Here.a
  <2>2. n \in Nat
    BY <1>2
  <2> HIDE DEF n
  <2>3. OneMore(d, n) \in [D \cup {n} -> Nat] /\ D \cup {n} \in SUBSET Nat
    BY <2>1, <2>2 DEF OneMore
  <2>4. OneMore(d, n) \in Dicts
    BY <2>3 DEF Dicts
  <2>5. QED BY <2>4 DEF n
<1> DEFINE one == OneMore(tree[cur].lines, -Here.a)
<1>4. tree' = [tree EXCEPT ![cur] = [tree[cur] EXCEPT !.lines = one]]
  BY <1>1
<1>5. one \in Dicts
  BY <1>1, <1>3 DEF Nodes
<1> HIDE DEF one
<1>6. [tree[cur] EXCEPT !.lines = one] \in Nodes
  BY <1>1, <1>5 DEF Nodes
<1>7. QED BY <1>1, <1>4, <1>5, <1>6 DEF Nodes

LEMMA MarkTree ==
  ASSUME ReportInv, MarkLast
  PROVE  /\ tree' \in [DOMAIN tree -> Nodes]
         /\ \A p \in DOMAIN tree :
              /\ tree'[p].count = tree[p].count
              /\ \A k \in Kinds :
                   tree'[p].meta[k] = tree[p].meta[k] + IF p = cur /\ k = addr.kind THEN 1 ELSE 0
<1>1. /\ tree \in [DOMAIN tree -> Nodes] /\ cur \in DOMAIN tree
      /\ tree' = IF addr.kind \in Kinds THEN [tree EXCEPT ![cur].meta[addr.kind] = @ + 1] ELSE tree
  BY DEF MarkLast, InTree, ReportInv, TreeOK, HasTree
<1>2. \A p \in DOMAIN tree : tree[p].meta \in [Kinds -> Nat]
  BY <1>1 DEF Nodes
<1>3. CASE addr.kind \notin Kinds
  <2>1. \A p \in DOMAIN tree : \A k \in Kinds : tree[p].meta[k] + 0 = tree[p].meta[k]
    BY <1>2
  <2>2. QED BY <1>1, <1>3, <2>1
<1>4. CASE addr.kind \in Kinds
  <2> DEFINE m == [tree[cur].meta EXCEPT ![addr.kind] = @ + 1]
  <2>1. tree' = [tree EXCEPT ![cur] = [tree[cur] EXCEPT !.meta = m]]
    BY <1>1, <1>4
  <2>2. m \in [Kinds -> Nat]
        /\ \A k \in Kinds : m[k] = tree[cur].meta[k] + IF k = addr.kind THEN 1 ELSE 0
    BY <1>1, <1>2, <1>4
  <2> HIDE DEF m
  <2>3. [tree[cur] EXCEPT !.meta = m] \in Nodes
        /\ [tree[cur] EXCEPT !.meta = m].count = tree[cur].count
        /\ [tree[cur] EXCEPT !.meta = m].meta = m
    BY <1>1, <2>2 DEF Nodes
  <2>4. tree' \in [DOMAIN tree -> Nodes]
    BY <1>1, <2>1, <2>3
  <2>5. ASSUME NEW p \in DOMAIN tree, NEW k \in Kinds
        PROVE  /\ tree'[p].count = tree[p].count
               /\ tree'[p].meta[k] = tree[p].meta[k] + IF p = cur /\ k = addr.kind THEN 1 ELSE 0
    <3>1. CASE p = cur
      BY <1>1, <2>1, <2>2, <2>3, <3>1
    <3>2. CASE p # cur
      <4>1. tree'[p] = tree[p]
        BY <1>1, <2>1, <3>2
      <4>2. tree[p].meta[k] \in Nat
        BY <1>2
      <4>3. QED BY <3>2, <4>1, <4>2
    <3>3. QED BY <3>1, <3>2
  <2>6. QED BY <2>4, <2>5 DEF Kinds
<1>5. QED BY <1>3, <1>4

LEMMA ChildTree ==
  ASSUME ReportInv, AddChild
  PROVE  /\ Here.a \in Functions /\ Here.a # AddrOf(cur) /\ root' = root
         /\ cur' = Append(cur, Here.a) /\ cur' \in Seq(Functions) /\ cur \in Seq(Functions)
         /\ tree' \in [DOMAIN tree \cup {cur'} -> Nodes]
         /\ \A p \in DOMAIN tree : /\ p # cur' => tree'[p].count = tree[p].count
                                   /\ tree'[p].meta = tree[p].meta
         /\ tree'[cur'].count = (IF cur' \in DOMAIN tree THEN tree[cur'].count ELSE 0) + 1
         /\ cur' \notin DOMAIN tree => \A k \in Kinds : tree'[cur'].meta[k] = 0
<1>1. /\ stage = "tree" /\ ProfilesOK /\ PlaceOK /\ InProfile /\ Here.kind # "asm" /\ Here.a > 0
      /\ Here.a # last /\ cur' = Append(cur, Here.a) /\ root' = root
      /\ tree' = IF cur' \in DOMAIN tree THEN [tree EXCEPT ![cur'].count = @ + 1]
                 ELSE [p \in DOMAIN tree \cup {cur'} |->
                         IF p = cur' THEN Node(1, Cardinality(DOMAIN tree)) ELSE tree[p]]
  BY DEF AddChild, InTree, ReportInv
<1>2. /\ tree \in [DOMAIN tree -> Nodes] /\ cur \in DOMAIN tree /\ last = AddrOf(cur)
      /\ DOMAIN tree \subseteq Seq(Functions) /\ IsFiniteSet(DOMAIN tree)
  BY <1>1 DEF ReportInv, TreeOK, HasTree
<1>3. Here.a \in Functions
  BY <1>1, HereFacts, EntryFacts
<1>4. cur \in Seq(Functions) /\ cur' \in Seq(Functions)
  BY <1>1, <1>2, <1>3, PathFacts
<1> DEFINE new == cur'
<1> HIDE DEF new
<1>5. CASE new \in DOMAIN tree
  <2>1. tree' = [tree EXCEPT ![new].count = @ + 1]
    BY <1>1, <1>5 DEF new
  <2> DEFINE c == tree[new].count + 1
             node == [tree[new] EXCEPT !.count = c]
  <2>2. tree' = [tree EXCEPT ![new] = node]
    BY <2>1
  <2>3. node \in Nodes /\ node.count = tree[new].count + 1 /\ node.meta = tree[new].meta
    <3>1. tree[new] \in Nodes
      BY <1>2, <1>5
    <3>2. c \in Nat
      BY <3>1 DEF Nodes
    <3>3. c = tree[new].count + 1
      OBVIOUS
    <3> HIDE DEF c
    <3>4. QED BY <3>1, <3>2, <3>3 DEF Nodes
  <2> HIDE DEF node
  <2>4. /\ tree' \in [DOMAIN tree -> Nodes] /\ tree'[new] = node
        /\ \A p \in DOMAIN tree : p # new => tree'[p] = tree[p]
    BY <1>2, <1>5, <2>2, <2>3
  <2>5. DOMAIN tree \cup {new} = DOMAIN tree
    BY <1>5
  <2>6. QED BY <1>1, <1>2, <1>3, <1>4, <1>5, <2>3, <2>4, <2>5 DEF new
<1>6. CASE new \notin DOMAIN tree
  <2> DEFINE node == Node(1, Cardinality(DOMAIN tree))
  <2>1. node \in Nodes /\ node.count = 1 /\ \A k \in Kinds : node.meta[k] = 0
    <3>1. Cardinality(DOMAIN tree) \in Nat
      BY <1>2, FS_CardinalityType
    <3>2. QED BY <3>1, NodeFacts
  <2> HIDE DEF node
  <2>2. tree' = [p \in DOMAIN tree \cup {new} |-> IF p = new THEN node ELSE tree[p]]
    BY <1>1, <1>6 DEF new, node
  <2>3. /\ tree' \in [DOMAIN tree \cup {new} -> Nodes] /\ tree'[new] = node
        /\ \A p \in DOMAIN tree : p # new => tree'[p] = tree[p]
    BY <1>2, <2>1, <2>2
  <2>4. \A p \in DOMAIN tree : tree'[p] = tree[p]
    BY <1>6, <2>3
  <2>5. tree'[new].count = 0 + 1 /\ \A k \in Kinds : tree'[new].meta[k] = 0
    BY <2>1, <2>3
  <2>6. new = cur' /\ cur' \notin DOMAIN tree
    BY <1>6 DEF new
  <2>7. QED BY <1>1, <1>2, <1>3, <1>4, <2>3, <2>4, <2>5, <2>6
<1>7. QED BY <1>5, <1>6

\* The other steps leave the tree alone.
LEMMA TreeKept ==
  ASSUME ReportInv, [ReportNext]_report_vars, HasTree,
         ~CountLine, ~AddChild, ~MarkLast
  PROVE  tree' = tree /\ root' = root /\ cur' = cur /\ last' = last
BY DEF ReportNext, report_vars, CountEntry, CountedProfile, GetTop, InTree, SkipAssembler,
       SkipDuplicate, StartFilter, FilterTop, HasTree

\* An argument with no units adds none.
LEMMA NoMoreUnit ==
  ASSUME NEW S, NEW x, NEW f \in [S -> Nat], NEW g \in [S \cup {x} -> Nat], x \notin S,
         \A y \in S : g[y] = f[y], g[x] = 0
  PROVE  Units(g) = Units(f)
<1>1. ASSUME NEW u PROVE u \in Units(f) <=> \E y \in S : \E n \in 1 .. f[y] : u = <<y, n>>
  BY UnitsMember
<1>2. ASSUME NEW u PROVE u \in Units(g) <=> \E y \in S \cup {x} : \E n \in 1 .. g[y] : u = <<y, n>>
  BY UnitsMember
<1>3. 1 .. g[x] = {}
  OBVIOUS
<1>4. ASSUME NEW u PROVE u \in Units(g) <=> u \in Units(f)
  BY <1>1, <1>2, <1>3
<1>5. QED BY <1>4

\* Only AddChild and GetTop change counts, only these and MarkLast marks.
LEMMA CountsKept ==
  ASSUME ReportInv, [ReportNext]_report_vars, HasTree, ~AddChild
  PROVE  /\ DOMAIN tree' = DOMAIN tree /\ root' = root /\ tree' \in [DOMAIN tree -> Nodes]
         /\ \A p \in DOMAIN tree : tree'[p].count = tree[p].count
         /\ ~MarkLast => \A p \in DOMAIN tree : tree'[p].meta = tree[p].meta
<1>1. CASE CountLine
  BY <1>1, LineTree DEF CountLine, InTree
<1>2. CASE MarkLast
  BY <1>2, MarkTree DEF MarkLast, InTree
<1>3. CASE ~CountLine /\ ~MarkLast
  <2>1. tree' = tree /\ root' = root
    BY <1>3, TreeKept
  <2>2. QED BY <2>1 DEF ReportInv, TreeOK
<1>4. QED BY <1>1, <1>2, <1>3

LEMMA TreeStep ==
  ASSUME ReportInv, [ReportNext]_report_vars
  PROVE  TreeOK'
<1>1. ProfilesOK /\ PlaceOK /\ TreeOK /\ profiles' = profiles
  BY ProfilesStep DEF ReportInv
<1>2. CASE CountEntry \/ CountedProfile
  <2>1. stage = "top" /\ stage' = "top" /\ cur' = cur
    BY <1>2 DEF CountEntry, CountedProfile, NextEntry, NextProfile
  <2>2. QED BY <1>1, <2>1 DEF TreeOK, HasTree, Folded
<1>3. CASE GetTop
  <2>1. CASE stage' = "empty"
    <3>1. stage = "top" /\ cur' = cur
      BY <1>3 DEF GetTop
    <3>2. QED BY <1>1, <2>1, <3>1 DEF TreeOK, HasTree, Folded
  <2>2. CASE stage' # "empty"
    <3>1. /\ stage' = "tree" /\ cur' = <<>> /\ last' = root' /\ root' \in Addresses
          /\ tree' \in [{<<>>} -> Nodes]
      BY <1>3, <2>2, TopTree DEF ReportInv
    <3>2. IsFiniteSet(DOMAIN tree') /\ DOMAIN tree' \subseteq Seq(Functions)
      <4>1. DOMAIN tree' = {<<>>}
        BY <3>1
      <4>2. <<>> \in Seq(Functions)
        OBVIOUS
      <4>3. QED BY <4>1, <4>2, FS_Singleton
    <3>3. QED BY <3>1, <3>2 DEF TreeOK, HasTree, Folded, AddrOf
  <2>3. QED BY <2>1, <2>2
<1>4. CASE AddChild
  <2>1. HasTree /\ stage = "tree" /\ stage' = "tree" /\ next' = next /\ next \in DOMAIN profiles
        /\ last' = Here.a
    BY <1>4 DEF AddChild, InTree, HasTree, NextEntry, InProfile
  <2>2. /\ Here.a \in Functions /\ root' = root /\ cur' = Append(cur, Here.a)
        /\ cur' \in Seq(Functions) /\ cur \in Seq(Functions)
        /\ tree' \in [DOMAIN tree \cup {cur'} -> Nodes]
    BY <1>4, ChildTree
  <2>3. cur' # <<>> /\ Front(cur') = cur /\ Last(cur') = Here.a
    BY <2>2, PathFacts
  <2>4. DOMAIN tree' = DOMAIN tree \cup {cur'} /\ IsFiniteSet(DOMAIN tree')
    <3>1. IsFiniteSet(DOMAIN tree)
      BY <1>1, <2>1 DEF TreeOK
    <3>2. IsFiniteSet(DOMAIN tree \cup {cur'})
      BY <3>1, FS_AddElement
    <3>3. DOMAIN tree' = DOMAIN tree \cup {cur'}
      BY <2>2
    <3>4. QED BY <3>2, <3>3
  <2>5. \A p \in DOMAIN tree' : p # <<>> => Front(p) \in DOMAIN tree'
    BY <1>1, <2>1, <2>3, <2>4 DEF TreeOK
  <2>6. DOMAIN tree' \subseteq Seq(Functions) /\ <<>> \in DOMAIN tree' /\ root' \in Addresses
        /\ cur' \in DOMAIN tree'
    BY <1>1, <2>1, <2>2, <2>4 DEF TreeOK
  <2>7. last' = AddrOf(cur)'
    BY <2>1, <2>3 DEF AddrOf
  <2>8. tree' \in [DOMAIN tree' -> Nodes]
    BY <2>2, <2>4
  <2>9. ~Folded' /\ (stage = "tree")' /\ (next \in DOMAIN profiles)'
    BY <1>1, <2>1 DEF Folded
  <2>10. QED BY <2>4, <2>5, <2>6, <2>7, <2>8, <2>9 DEF TreeOK
<1>5. CASE HasTree /\ ~AddChild
  <2>1. /\ DOMAIN tree' = DOMAIN tree /\ root' = root /\ tree' \in [DOMAIN tree -> Nodes]
    BY <1>5, CountsKept
  <2>2. /\ cur' \in DOMAIN tree /\ last' = AddrOf(cur')
        /\ ~(stage' = "tree" /\ next' \in DOMAIN profiles) => cur' = <<>>
    <3>1. CASE MarkLast
      BY <1>1, <1>5, <3>1 DEF MarkLast, TreeOK, AddrOf
    <3>2. CASE StartFilter
      BY <1>1, <1>5, <3>2 DEF StartFilter, Begin, TreeOK
    <3>3. CASE FilterTop
      BY <1>1, <1>5, <3>3 DEF FilterTop, TreeOK
    <3>4. CASE SkipAssembler \/ CountLine \/ SkipDuplicate
      BY <1>1, <1>5, <3>4 DEF SkipAssembler, CountLine, SkipDuplicate, NextEntry, InTree, TreeOK
    <3>5. CASE UNCHANGED report_vars
      BY <1>1, <1>5, <3>5 DEF report_vars, loop, TreeOK
    <3>6. QED BY <1>5, <3>1, <3>2, <3>3, <3>4, <3>5
            DEF ReportNext, HasTree, CountEntry, CountedProfile, GetTop
  <2>3. Folded' => shown' \in DOMAIN tree
    <3>1. CASE StartFilter
      BY <1>1, <1>5, <3>1 DEF StartFilter, TreeOK
    <3>2. CASE FilterTop
      <4>1. shown' \in Children(shown) \/ shown' = shown \/ shown' = <<>>
        BY <3>2 DEF FilterTop, Biggest
      <4>2. shown \in DOMAIN tree
        BY <1>1, <3>2 DEF FilterTop, TreeOK, Folded
      <4>3. QED BY <1>1, <1>5, <4>1, <4>2 DEF Children, TreeOK
    <3>3. CASE SkipAssembler \/ CountLine \/ SkipDuplicate \/ MarkLast
      BY <3>3 DEF SkipAssembler, CountLine, SkipDuplicate, MarkLast, InTree, NextEntry, NextProfile, Folded
    <3>4. CASE UNCHANGED report_vars
      BY <1>1, <1>5, <3>4 DEF report_vars, loop, TreeOK, Folded
    <3>5. QED BY <1>5, <3>1, <3>2, <3>3, <3>4
            DEF ReportNext, HasTree, CountEntry, CountedProfile, GetTop
  <2>4. AddrOf(cur') = AddrOf(cur)'
    BY <2>1 DEF AddrOf
  <2>5. QED BY <1>1, <1>5, <2>1, <2>2, <2>3, <2>4 DEF TreeOK
<1>6. CASE ~HasTree /\ UNCHANGED report_vars
  BY <1>1, <1>6 DEF report_vars, loop, TreeOK, HasTree, Folded
<1>7. QED
  BY <1>2, <1>3, <1>4, <1>5, <1>6
     DEF ReportNext, HasTree, SkipAssembler, CountLine, SkipDuplicate, MarkLast, InTree,
         StartFilter, FilterTop

LEMMA UnitsFiniteStep ==
  ASSUME ReportInv, [ReportNext]_report_vars
  PROVE  UnitsFinite'
<1>1. TreeOK /\ UnitsFinite
  BY DEF ReportInv
<1>2. SUFFICES ASSUME HasTree'
               PROVE  /\ IsFiniteSet(Units([p \in DOMAIN tree' |-> tree'[p].count]))
                      /\ \A k \in Kinds : IsFiniteSet(Units([p \in DOMAIN tree' |-> tree'[p].meta[k]]))
  BY DEF UnitsFinite
<1>3. CASE GetTop
  <2>1. /\ tree' \in [{<<>>} -> Nodes]
        /\ tree'[<<>>].count = Len(profiles) /\ \A k \in Kinds : tree'[<<>>].meta[k] = 0
    BY <1>2, <1>3, TopTree DEF HasTree
  <2>2. Len(profiles) \in Nat
    BY ProfileFacts DEF ReportInv
  <2>3. [p \in DOMAIN tree' |-> tree'[p].count] = [p \in {<<>>} |-> Len(profiles)]
    BY <2>1
  <2>4. \A k \in Kinds : [p \in DOMAIN tree' |-> tree'[p].meta[k]] = [p \in {<<>>} |-> 0]
    BY <2>1
  <2>5. IsFiniteSet(Units([p \in {<<>>} |-> Len(profiles)])) /\ IsFiniteSet(Units([p \in {<<>>} |-> 0]))
    BY <2>2, TotalOfOne
  <2>6. IsFiniteSet(Units([p \in DOMAIN tree' |-> tree'[p].count]))
    BY <2>3, <2>5
  <2>7. ASSUME NEW k \in Kinds
        PROVE  IsFiniteSet(Units([p \in DOMAIN tree' |-> tree'[p].meta[k]]))
    <3>1. [p \in DOMAIN tree' |-> tree'[p].meta[k]] = [p \in {<<>>} |-> 0]
      BY <2>4
    <3>2. QED BY <2>5, <3>1
  <2>8. QED BY <2>6, <2>7
<1>4. CASE AddChild
  <2>1. HasTree
    BY <1>4 DEF AddChild, InTree, HasTree
  <2>2. /\ tree' \in [DOMAIN tree \cup {cur'} -> Nodes]
        /\ \A p \in DOMAIN tree : /\ p # cur' => tree'[p].count = tree[p].count
                                  /\ tree'[p].meta = tree[p].meta
        /\ tree'[cur'].count = (IF cur' \in DOMAIN tree THEN tree[cur'].count ELSE 0) + 1
        /\ cur' \notin DOMAIN tree => \A k \in Kinds : tree'[cur'].meta[k] = 0
    BY <1>4, ChildTree
  <2>3. tree \in [DOMAIN tree -> Nodes]
    BY <1>1, <2>1 DEF TreeOK
  <2> DEFINE f == [p \in DOMAIN tree |-> tree[p].count]
             g == [p \in DOMAIN tree' |-> tree'[p].count]
  <2>4. /\ f \in [DOMAIN tree -> Nat] /\ g \in [DOMAIN tree \cup {cur'} -> Nat]
        /\ \A p \in DOMAIN tree \ {cur'} : g[p] = f[p]
        /\ g[cur'] = (IF cur' \in DOMAIN tree THEN f[cur'] ELSE 0) + 1
    BY <2>2, <2>3 DEF Nodes
  <2>5. IsFiniteSet(Units(f))
    BY <1>1, <2>1 DEF UnitsFinite
  <2> HIDE DEF f, g
  <2>6. IsFiniteSet(Units(g))
    BY <2>4, <2>5, OneMoreUnit
  <2>7. ASSUME NEW k \in Kinds
        PROVE  IsFiniteSet(Units([p \in DOMAIN tree' |-> tree'[p].meta[k]]))
    <3> DEFINE e == [p \in DOMAIN tree |-> tree[p].meta[k]]
               h == [p \in DOMAIN tree' |-> tree'[p].meta[k]]
    <3>1. IsFiniteSet(Units(e))
      BY <1>1, <2>1 DEF UnitsFinite
    <3>2. /\ e \in [DOMAIN tree -> Nat] /\ h \in [DOMAIN tree \cup {cur'} -> Nat]
          /\ \A p \in DOMAIN tree : h[p] = e[p]
          /\ cur' \notin DOMAIN tree => h[cur'] = 0
      BY <2>2, <2>3 DEF Nodes
    <3>3. DOMAIN tree' = DOMAIN tree \cup {cur'}
      BY <2>2
    <3>4. CASE cur' \in DOMAIN tree
      <4>1. h = e
        BY <2>2, <3>3, <3>4
      <4> HIDE DEF e, h
      <4>2. QED BY <3>1, <4>1 DEF h
    <3>5. CASE cur' \notin DOMAIN tree
      <4> HIDE DEF e, h
      <4>1. Units(h) = Units(e)
        BY <3>2, <3>5, NoMoreUnit
      <4>2. QED BY <3>1, <4>1 DEF h
    <3>6. QED BY <3>4, <3>5
  <2>8. QED BY <2>6, <2>7 DEF g
<1>5. CASE ~GetTop /\ ~AddChild
  <2>1. HasTree
    BY <1>2, <1>5 DEF HasTree, ReportNext, report_vars, loop, CountEntry, CountedProfile, InTree,
         SkipAssembler, CountLine, SkipDuplicate, MarkLast, StartFilter, FilterTop, NextEntry, NextProfile
  <2>2. /\ DOMAIN tree' = DOMAIN tree
        /\ \A p \in DOMAIN tree : tree'[p].count = tree[p].count
        /\ ~MarkLast => \A p \in DOMAIN tree : tree'[p].meta = tree[p].meta
    BY <1>5, <2>1, CountsKept
  <2>3. [p \in DOMAIN tree' |-> tree'[p].count] = [p \in DOMAIN tree |-> tree[p].count]
    BY <2>2
  <2>4. ASSUME NEW k \in Kinds
        PROVE  IsFiniteSet(Units([p \in DOMAIN tree' |-> tree'[p].meta[k]]))
    <3> DEFINE e == [p \in DOMAIN tree |-> tree[p].meta[k]]
               h == [p \in DOMAIN tree' |-> tree'[p].meta[k]]
    <3>1. IsFiniteSet(Units(e)) /\ e \in [DOMAIN tree -> Nat] /\ cur \in DOMAIN tree
      <4>1. tree \in [DOMAIN tree -> Nodes] /\ cur \in DOMAIN tree
        BY <1>1, <2>1 DEF TreeOK
      <4>2. QED BY <1>1, <2>1, <4>1 DEF UnitsFinite, Nodes
    <3>2. CASE MarkLast /\ k = addr.kind
      <4>1. tree' \in [DOMAIN tree -> Nodes]
            /\ \A p \in DOMAIN tree : tree'[p].meta[k] = tree[p].meta[k] + IF p = cur THEN 1 ELSE 0
        BY <3>2, MarkTree
      <4>2. /\ h \in [DOMAIN tree \cup {cur} -> Nat]
            /\ \A p \in DOMAIN tree \ {cur} : h[p] = e[p]
            /\ h[cur] = (IF cur \in DOMAIN tree THEN e[cur] ELSE 0) + 1
        <5>1. DOMAIN tree \cup {cur} = DOMAIN tree
          BY <3>1
        <5>2. \A p \in DOMAIN tree : e[p] = tree[p].meta[k] /\ e[p] \in Nat
          BY <3>1
        <5>3. \A p \in DOMAIN tree : h[p] = tree'[p].meta[k]
          BY <2>2
        <5>4. h \in [DOMAIN tree -> Nat]
          BY <2>2, <4>1 DEF Nodes
        <5> HIDE DEF e, h
        <5>5. QED BY <3>1, <4>1, <5>1, <5>2, <5>3, <5>4
      <4> HIDE DEF e, h
      <4>3. IsFiniteSet(Units(h))
        BY <3>1, <4>2, OneMoreUnit
      <4>4. QED BY <4>3 DEF h
    <3>3. CASE ~(MarkLast /\ k = addr.kind)
      <4>1. \A p \in DOMAIN tree : tree'[p].meta[k] = tree[p].meta[k]
        <5>1. CASE MarkLast
          <6>1. \A p \in DOMAIN tree : tree'[p].meta[k] = tree[p].meta[k] + 0
            BY <3>3, <5>1, MarkTree
          <6>2. \A p \in DOMAIN tree : e[p] = tree[p].meta[k] /\ e[p] \in Nat
            BY <3>1
          <6>3. QED BY <6>1, <6>2
        <5>2. CASE ~MarkLast
          BY <2>2, <5>2
        <5>3. QED BY <5>1, <5>2
      <4>2. h = e
        BY <2>2, <4>1
      <4> HIDE DEF e, h
      <4>3. QED BY <3>1, <4>2 DEF h
    <3>4. QED BY <3>2, <3>3
  <2>5. QED BY <1>1, <2>1, <2>3, <2>4 DEF UnitsFinite
<1>6. QED BY <1>3, <1>4, <1>5

-----------------------------------------------------------------------------
(* Steps: what the counts of nodes add up to *)

LEMMA TotalOfNone ==
  ASSUME NEW f, DOMAIN f = {}
  PROVE  IsFiniteSet(Units(f)) /\ Total(f) = 0
<1>1. Units(f) = {}
  BY UnitsMember
<1>2. QED BY <1>1, FS_EmptySet DEF Total

LEMMA CountsMonotone ==
  ASSUME TreeOK, UnitsFinite, HasTree, NEW T \in SUBSET DOMAIN tree, NEW U \in SUBSET T
  PROVE  /\ CountOf(T) \in Nat /\ CountOf(U) \in Nat /\ CountOf(U) <= CountOf(T)
         /\ IsFiniteSet(Units([p \in T |-> tree[p].count]))
         /\ [p \in T |-> tree[p].count] \in [T -> Nat]
<1> DEFINE all == [p \in DOMAIN tree |-> tree[p].count]
           t == [p \in T |-> tree[p].count]
           u == [p \in U |-> tree[p].count]
<1>1. \A p \in DOMAIN tree : tree[p].count \in Nat
  BY DEF TreeOK, Nodes
<1>2. /\ all \in [DOMAIN tree -> Nat] /\ t \in [T -> Nat] /\ u \in [U -> Nat]
      /\ \A p \in T : t[p] <= all[p]
      /\ \A p \in U : u[p] <= t[p]
  BY <1>1
<1>3. IsFiniteSet(Units(all))
  BY DEF UnitsFinite
<1> HIDE DEF all, t, u
<1>4. IsFiniteSet(Units(t)) /\ Total(t) \in Nat
  BY <1>2, <1>3, TotalMonotone
<1>5. Total(u) \in Nat /\ Total(u) <= Total(t)
  BY <1>2, <1>4, TotalMonotone
<1>6. QED BY <1>2, <1>4, <1>5 DEF CountOf, t, u

LEMMA CountAfterOthers ==
  ASSUME ReportInv, [ReportNext]_report_vars, HasTree, ~AddChild, NEW T \in SUBSET DOMAIN tree
  PROVE  Total([p \in T |-> tree'[p].count]) = CountOf(T)
<1>1. [p \in T |-> tree'[p].count] = [p \in T |-> tree[p].count]
  BY CountsKept
<1>2. QED BY <1>1 DEF CountOf

LEMMA CountAfterChild ==
  ASSUME ReportInv, AddChild, NEW T \in SUBSET DOMAIN tree
  PROVE  /\ cur' \notin T => Total([p \in T |-> tree'[p].count]) = CountOf(T)
         /\ (cur' \in DOMAIN tree => cur' \in T)
              => Total([p \in T \cup {cur'} |-> tree'[p].count]) = CountOf(T) + 1
<1>1. HasTree /\ TreeOK /\ UnitsFinite
  BY DEF AddChild, InTree, HasTree, ReportInv
<1>2. /\ tree' \in [DOMAIN tree \cup {cur'} -> Nodes]
      /\ \A p \in DOMAIN tree : p # cur' => tree'[p].count = tree[p].count
      /\ tree'[cur'].count = (IF cur' \in DOMAIN tree THEN tree[cur'].count ELSE 0) + 1
  BY ChildTree
<1> DEFINE new == cur'
           f == [p \in T |-> tree[p].count]
           g == [p \in T \cup {new} |-> tree'[p].count]
<1>3. IsFiniteSet(Units(f)) /\ f \in [T -> Nat]
  BY <1>1, CountsMonotone
<1>4. ASSUME cur' \notin T
      PROVE  Total([p \in T |-> tree'[p].count]) = CountOf(T)
  <2>1. [p \in T |-> tree'[p].count] = [p \in T |-> tree[p].count]
    BY <1>2, <1>4
  <2>2. QED BY <2>1 DEF CountOf
<1>5. ASSUME cur' \in DOMAIN tree => cur' \in T
      PROVE  Total([p \in T \cup {cur'} |-> tree'[p].count]) = CountOf(T) + 1
  <2>1. \A p \in T \cup {new} : tree'[p].count \in Nat
    BY <1>2 DEF Nodes
  <2>2. tree'[new].count = (IF new \in T THEN tree[new].count ELSE 0) + 1
    BY <1>2, <1>5
  <2>3. /\ g \in [T \cup {new} -> Nat]
        /\ \A p \in T \ {new} : g[p] = f[p]
        /\ g[new] = (IF new \in T THEN f[new] ELSE 0) + 1
    BY <1>2, <2>1, <2>2
  <2> HIDE DEF f, g
  <2>4. Total(g) = Total(f) + 1
    BY <1>3, <2>3, OneMoreUnit
  <2>5. QED BY <2>4 DEF CountOf, f, g
<1>6. QED BY <1>4, <1>5

LEMMA TopmostStep ==
  ASSUME ReportInv, [ReportNext]_report_vars
  PROVE  TopmostOK'
<1>1. /\ ProfilesOK /\ PlaceOK /\ TreeOK /\ UnitsFinite /\ TopmostOK
      /\ profiles' = profiles
  BY ProfilesStep DEF ReportInv
<1>2. CASE AddChild
  <2>1. /\ HasTree /\ stage = "tree" /\ stage' = "tree" /\ InProfile /\ NextEntry
    BY <1>2 DEF AddChild, InTree, HasTree, NextEntry
  <2>2. /\ Here.a \in Functions /\ root' = root /\ cur' = Append(cur, Here.a)
        /\ cur \in Seq(Functions) /\ DOMAIN tree' = DOMAIN tree \cup {cur'}
    BY <1>2, ChildTree
  <2>3. /\ cur' # <<>> /\ Last(cur') = Here.a /\ Len(cur') = Len(cur) + 1 /\ Len(cur) \in Nat
        /\ \A i \in 1 .. Len(cur) : cur'[i] = cur[i]
        /\ cur'[Len(cur) + 1] = Here.a
        /\ DOMAIN cur = 1 .. Len(cur) /\ DOMAIN cur' = 1 .. Len(cur) + 1
    BY <2>2, PathFacts
  <2>4. ASSUME NEW a \in Functions \ {root}
        PROVE  /\ CountOf(Topmost(a))' = Cardinality(SeenIn(a)')
               /\ (\E i \in DOMAIN cur' : cur'[i] = a) <=> next' \in SeenIn(a)'
    <3>1. /\ CountOf(Topmost(a)) = Cardinality(SeenIn(a))
          /\ (\E i \in DOMAIN cur : cur[i] = a) <=> next \in SeenIn(a)
      BY <1>1, <2>1 DEF TopmostOK
    <3>2. /\ SeenIn(a)' = SeenIn(a) \cup (IF Here.a = a THEN {next} ELSE {}) /\ next' = next
          /\ next \notin SeenIn(a) => Cardinality(SeenIn(a) \cup {next}) = Cardinality(SeenIn(a)) + 1
      BY <1>1, <2>1, SeenInStep
    <3>3. ASSUME NEW p \in DOMAIN tree PROVE p \in Topmost(a)' <=> p \in Topmost(a)
      BY <2>2 DEF Topmost, AddrOf
    <3>4. cur' \in Topmost(a)' <=> Here.a = a /\ next \notin SeenIn(a)
      <4>1. cur' \in Topmost(a)' <=> AddrOf(cur)' = a /\ \A i \in 1 .. Len(cur') - 1 : cur'[i] # a
        BY <2>2 DEF Topmost, AddrOf
      <4>2. AddrOf(cur)' = Here.a
        BY <2>3 DEF AddrOf
      <4>3. (\A i \in 1 .. Len(cur') - 1 : cur'[i] # a) <=> ~\E i \in DOMAIN cur : cur[i] = a
        BY <2>3
      <4>4. QED BY <3>1, <4>1, <4>2, <4>3
    <3>5. (\E i \in DOMAIN cur' : cur'[i] = a) <=> Here.a = a \/ next \in SeenIn(a)
      BY <2>3, <3>1
    <3>6. Topmost(a)' \subseteq DOMAIN tree \cup {cur'} /\ Topmost(a) \in SUBSET DOMAIN tree
      BY <2>2 DEF Topmost
    <3>7. CountOf(Topmost(a))' = Total([p \in Topmost(a)' |-> tree'[p].count])
      BY DEF CountOf
    <3>8. CASE Here.a = a /\ next \notin SeenIn(a)
      <4>1. Topmost(a)' = Topmost(a) \cup {cur'}
        BY <3>3, <3>4, <3>6, <3>8
      <4>2. cur' \in DOMAIN tree => cur' \in Topmost(a)
        BY <3>3, <3>4, <3>8
      <4>3. CountOf(Topmost(a))' = CountOf(Topmost(a)) + 1
        BY <1>2, <3>6, <3>7, <4>1, <4>2, CountAfterChild
      <4>4. QED BY <3>1, <3>2, <3>5, <3>8, <4>3
    <3>9. CASE ~(Here.a = a /\ next \notin SeenIn(a))
      <4>1. Topmost(a)' = Topmost(a) /\ cur' \notin Topmost(a)
        BY <3>3, <3>4, <3>6, <3>9
      <4>2. CountOf(Topmost(a))' = CountOf(Topmost(a))
        BY <1>2, <3>6, <3>7, <4>1, CountAfterChild
      <4>3. SeenIn(a)' = SeenIn(a)
        BY <3>2, <3>9
      <4>4. QED BY <3>1, <3>2, <3>5, <3>9, <4>2, <4>3
    <3>10. QED BY <3>8, <3>9
  <2>5. ~Folded'
    BY <2>1 DEF Folded
  <2>6. root' = root
    BY <2>2
  <2>7. QED BY <2>4, <2>5, <2>6 DEF TopmostOK
<1>3. CASE GetTop
  <2>1. CASE stage' = "empty"
    BY <2>1 DEF TopmostOK, Folded
  <2>2. CASE stage' # "empty"
    <3>1. /\ stage' = "tree" /\ next' = 1 /\ pos' = 1 /\ cur' = <<>>
          /\ tree' \in [{<<>>} -> Nodes]
      BY <1>3, <2>2, TopTree DEF ReportInv
    <3>2. ASSUME NEW a \in Functions \ {root'}
          PROVE  /\ CountOf(Topmost(a))' = Cardinality(SeenIn(a)')
                 /\ (\E i \in DOMAIN cur' : cur'[i] = a) <=> next' \in SeenIn(a)'
      <4>1. Topmost(a)' = {}
        BY <3>1 DEF Topmost, AddrOf
      <4>2. CountOf(Topmost(a))' = 0
        BY <4>1, TotalOfNone DEF CountOf
      <4>3. SeenIn(a)' = {}
        <5>1. DOMAIN profiles = 1 .. Len(profiles)
              /\ \A i \in DOMAIN profiles : DOMAIN profiles[i] = 1 .. Len(profiles[i])
          BY <1>1, ProfileFacts
        <5>2. QED BY <1>1, <3>1, <5>1 DEF SeenIn
      <4>4. QED BY <3>1, <4>2, <4>3, FS_EmptySet
    <3>3. QED BY <3>1, <3>2 DEF TopmostOK, Folded
  <2>3. QED BY <2>1, <2>2
<1>4. ASSUME HasTree, ~AddChild, NEW a
      PROVE  /\ CountOf(Topmost(a))' = CountOf(Topmost(a)) /\ root' = root
             /\ HasAddr(a)' = HasAddr(a)
  <2>1. DOMAIN tree' = DOMAIN tree /\ root' = root
    BY <1>4, CountsKept
  <2>2. Topmost(a)' = Topmost(a) /\ Topmost(a) \in SUBSET DOMAIN tree
    BY <2>1 DEF Topmost, AddrOf
  <2>3. CountOf(Topmost(a))' = Total([p \in Topmost(a) |-> tree'[p].count])
    BY <2>2 DEF CountOf
  <2>4. QED BY <1>1, <1>4, <2>1, <2>2, <2>3, CountAfterOthers DEF HasAddr
<1>5. CASE SkipAssembler \/ CountLine \/ SkipDuplicate
  <2>1. /\ HasTree /\ ~AddChild /\ stage = "tree" /\ stage' = "tree" /\ InProfile /\ NextEntry /\ cur' = cur
    <3>1. ~AddChild
      BY <1>5 DEF SkipAssembler, CountLine, SkipDuplicate, AddChild
    <3>2. QED
      BY <1>5, <3>1 DEF SkipAssembler, CountLine, SkipDuplicate, InTree, HasTree, NextEntry
  <2>2. /\ Here \in Entries
        /\ Here.a \in Functions \ {root} => cur # <<>> /\ cur[Len(cur)] = Here.a
    <3>1. Here \in Entries
      BY <1>1, <2>1, HereFacts
    <3>2. CASE SkipAssembler \/ CountLine
      <4>1. Here.a \notin Functions
        BY <3>1, <3>2, EntryFacts, AddressFacts DEF SkipAssembler, CountLine
      <4>2. QED BY <3>1, <4>1
    <3>3. CASE SkipDuplicate
      <4>1. Here.a = AddrOf(cur)
        BY <1>1, <2>1, <3>3 DEF SkipDuplicate, TreeOK
      <4>2. QED BY <3>1, <4>1 DEF AddrOf, Last
    <3>4. QED BY <1>5, <3>2, <3>3
  <2>3. cur \in Seq(Functions)
    BY <1>1, <2>1 DEF TreeOK
  <2>4. ASSUME NEW a \in Functions \ {root}
        PROVE  SeenIn(a)' = SeenIn(a) /\ next' = next
               /\ ((\E i \in DOMAIN cur : cur[i] = a) <=> next \in SeenIn(a))
               /\ CountOf(Topmost(a)) = Cardinality(SeenIn(a))
    <3>1. /\ CountOf(Topmost(a)) = Cardinality(SeenIn(a))
          /\ (\E i \in DOMAIN cur : cur[i] = a) <=> next \in SeenIn(a)
      BY <1>1, <2>1 DEF TopmostOK
    <3>2. /\ SeenIn(a)' = SeenIn(a) \cup (IF Here.a = a THEN {next} ELSE {}) /\ next' = next
      BY <1>1, <2>1, SeenInStep
    <3>3. Here.a = a => next \in SeenIn(a)
      <4>1. SUFFICES ASSUME Here.a = a PROVE \E i \in DOMAIN cur : cur[i] = a
        BY <3>1
      <4>2. cur # <<>> /\ cur[Len(cur)] = a
        BY <2>2, <4>1
      <4>3. Len(cur) \in DOMAIN cur
        BY <2>3, <4>2
      <4>4. QED BY <4>2, <4>3
    <3>4. QED BY <3>1, <3>2, <3>3
  <2>5. ~Folded' /\ root' = root
    BY <1>4, <2>1 DEF Folded
  <2>6. QED BY <1>4, <2>1, <2>4, <2>5 DEF TopmostOK
<1>6. CASE MarkLast
  <2>1. /\ HasTree /\ ~AddChild /\ stage = "tree" /\ stage' = "tree" /\ AtEnd /\ NextProfile
        /\ cur' = <<>>
    BY <1>6 DEF MarkLast, AddChild, InTree, HasTree, AtEnd, NextProfile, InProfile
  <2>2. ASSUME NEW a \in Functions \ {root}
        PROVE  SeenIn(a)' = SeenIn(a) /\ next' \notin SeenIn(a)
               /\ CountOf(Topmost(a)) = Cardinality(SeenIn(a))
    BY <1>1, <2>1, SeenInNext DEF TopmostOK
  <2>3. ~Folded' /\ root' = root
    BY <1>4, <2>1 DEF Folded
  <2>4. QED BY <1>4, <2>1, <2>2, <2>3 DEF TopmostOK
<1>7. CASE StartFilter
  <2>1. /\ HasTree /\ ~AddChild /\ stage = "tree" /\ stage' = "filter" /\ next \notin DOMAIN profiles
    BY <1>7 DEF StartFilter, AddChild, Begin, HasTree, InProfile
  <2>2. ASSUME NEW a \in Functions \ {root}
        PROVE  SeenIn(a) = HasAddr(a) /\ CountOf(Topmost(a)) = Cardinality(SeenIn(a))
    BY <1>1, <2>1, SeenInAll DEF TopmostOK
  <2>3. root' = root
    BY <1>4, <2>1
  <2>4. ASSUME NEW a \in Functions \ {root}
        PROVE  CountOf(Topmost(a))' = Cardinality(HasAddr(a)')
    BY <1>4, <2>1, <2>2
  <2>5. QED BY <2>1, <2>3, <2>4 DEF TopmostOK
<1>8. CASE FilterTop
  <2>1. /\ HasTree /\ ~AddChild /\ Folded /\ stage' # "tree"
    BY <1>8 DEF FilterTop, AddChild, InTree, HasTree, Folded
  <2>2. ASSUME NEW a \in Functions \ {root}
        PROVE  CountOf(Topmost(a)) = Cardinality(HasAddr(a))
    BY <1>1, <2>1 DEF TopmostOK
  <2>3. root' = root
    BY <1>4, <2>1
  <2>4. ASSUME NEW a \in Functions \ {root}
        PROVE  CountOf(Topmost(a))' = Cardinality(HasAddr(a)')
    BY <1>4, <2>1, <2>2
  <2>5. QED BY <2>1, <2>3, <2>4 DEF TopmostOK
<1>9. CASE CountEntry \/ CountedProfile
  BY <1>9 DEF CountEntry, CountedProfile, NextEntry, NextProfile, TopmostOK, Folded
<1>10. CASE UNCHANGED report_vars
  <2>1. UNCHANGED <<profiles, tree, root, cur, stage, next, pos>>
    BY <1>10 DEF report_vars, loop
  <2>2. ASSUME NEW a
        PROVE  /\ CountOf(Topmost(a))' = CountOf(Topmost(a))
               /\ SeenIn(a)' = SeenIn(a) /\ HasAddr(a)' = HasAddr(a)
    <3>1. Topmost(a)' = Topmost(a)
      BY <2>1 DEF Topmost, AddrOf
    <3>2. QED BY <2>1, <3>1 DEF CountOf, SeenIn, HasAddr
  <2>3. QED BY <1>1, <2>1, <2>2 DEF TopmostOK, Folded
<1>11. QED BY <1>2, <1>3, <1>5, <1>6, <1>7, <1>8, <1>9, <1>10 DEF ReportNext

-----------------------------------------------------------------------------
(* Steps: the marks *)

LEMMA AddrStep ==
  ASSUME ReportInv, [ReportNext]_report_vars
  PROVE  AddrOK'
<1>1. /\ ProfilesOK /\ PlaceOK /\ TreeOK /\ AddrOK /\ profiles' = profiles
  BY ProfilesStep DEF ReportInv
<1>2. SUFFICES ASSUME stage' = "tree", next' \in DOMAIN profiles,
                      \E j \in 1 .. pos' - 1 : profiles[next'][j].kind # "asm"
               PROVE  \E j \in 1 .. pos' - 1 :
                        /\ addr' = profiles[next'][j] /\ addr'.kind # "asm"
                        /\ \A m \in j + 1 .. pos' - 1 : profiles[next'][m].kind = "asm"
                        /\ addr'.kind # "line" => addr'.a = AddrOf(cur)'
  BY <1>1 DEF AddrOK
<1>3. CASE CountLine \/ SkipDuplicate \/ AddChild
  <2>1. /\ stage = "tree" /\ HasTree /\ InProfile /\ next' = next /\ pos' = pos + 1 /\ addr' = Here
        /\ Here.kind # "asm" /\ Here = profiles[next][pos] /\ root' = root
    BY <1>3 DEF CountLine, SkipDuplicate, AddChild, InTree, HasTree, NextEntry, Here
  <2>2. Here \in Entries /\ pos \in Nat \ {0}
    BY <1>1, <2>1, HereFacts DEF PlaceOK
  <2>3. Here.kind # "line" => Here.a = AddrOf(cur)'
    <3>1. CASE CountLine
      BY <2>2, <3>1, EntryFacts DEF CountLine
    <3>2. CASE SkipDuplicate
      BY <1>1, <2>1, <3>2 DEF SkipDuplicate, TreeOK, AddrOf
    <3>3. CASE AddChild
      <4>1. /\ Here.a \in Functions /\ cur' = Append(cur, Here.a) /\ cur \in Seq(Functions)
        BY <3>3, ChildTree
      <4>2. cur' # <<>> /\ Last(cur') = Here.a
        BY <4>1, PathFacts
      <4>3. QED BY <4>2 DEF AddrOf
    <3>4. QED BY <1>3, <3>1, <3>2, <3>3
  <2>4. pos \in 1 .. pos' - 1 /\ \A m \in pos + 1 .. pos' - 1 : FALSE
    BY <2>1, <2>2
  <2>5. QED BY <2>1, <2>3, <2>4
<1>4. CASE SkipAssembler
  <2>1. /\ stage = "tree" /\ InProfile /\ next' = next /\ pos' = pos + 1 /\ addr' = addr
        /\ profiles[next][pos].kind = "asm" /\ root' = root /\ cur' = cur
        /\ pos \in Nat \ {0} /\ next \in DOMAIN profiles
    BY <1>1, <1>4 DEF SkipAssembler, InTree, NextEntry, Here, PlaceOK, InProfile
  <2>2. \E j \in 1 .. pos - 1 : profiles[next][j].kind # "asm"
    BY <1>2, <2>1
  <2>3. PICK j \in 1 .. pos - 1 :
          /\ addr = profiles[next][j] /\ addr.kind # "asm"
          /\ \A m \in j + 1 .. pos - 1 : profiles[next][m].kind = "asm"
          /\ addr.kind # "line" => addr.a = AddrOf(cur)
    BY <1>1, <2>1, <2>2 DEF AddrOK
  <2>4. j \in 1 .. pos' - 1 /\ \A m \in j + 1 .. pos' - 1 : m = pos \/ m \in j + 1 .. pos - 1
    BY <2>1
  <2>5. AddrOf(cur)' = AddrOf(cur)
    BY <2>1 DEF AddrOf
  <2>6. QED BY <2>1, <2>3, <2>4, <2>5
<1>5. CASE MarkLast \/ GetTop
  <2>1. pos' = 1
    BY <1>5 DEF MarkLast, GetTop, NextProfile, Begin
  <2>2. QED BY <1>2, <2>1
<1>6. CASE UNCHANGED report_vars
  <2>1. UNCHANGED <<tree, root, cur, addr, stage, next, pos>>
    BY <1>6 DEF report_vars, loop
  <2>2. AddrOf(cur)' = AddrOf(cur)
    BY <2>1 DEF AddrOf
  <2>3. QED BY <1>1, <1>2, <2>1, <2>2 DEF AddrOK
<1>7. QED
  BY <1>2, <1>3, <1>4, <1>5, <1>6
     DEF ReportNext, CountEntry, CountedProfile, StartFilter, FilterTop, Begin, NextEntry, NextProfile

\* At the end of a profile with a node, addr says how it ends.
LEMMA EndOfProfile ==
  ASSUME ReportInv, MarkLast, Placed, NEW a \in Functions, NEW k \in Kinds
  PROVE  /\ EndsIn(profiles[next], k, a) <=> addr.kind = k /\ AddrOf(cur) = a
         /\ next \in DOMAIN profiles /\ stage = "tree"
<1>1. /\ ProfilesOK /\ PlaceOK /\ TreeOK /\ AddrOK /\ AtEnd /\ stage = "tree"
      /\ next \in DOMAIN profiles /\ pos \notin DOMAIN profiles[next]
  BY DEF MarkLast, InTree, ReportInv, AtEnd
<1> DEFINE s == profiles[next]
<1>2. DOMAIN s = 1 .. Len(s) /\ Len(s) \in Nat /\ pos = Len(s) + 1
      /\ \A j \in 1 .. Len(s) : s[j] \in Entries
  <2>1. DOMAIN s = 1 .. Len(s) /\ Len(s) \in Nat /\ \A j \in 1 .. Len(s) : s[j] \in Entries
    BY <1>1, ProfileFacts
  <2>2. pos = Len(s) + 1
    BY <1>1, <2>1 DEF PlaceOK
  <2>3. QED BY <2>1, <2>2
<1>3. \E j \in 1 .. pos - 1 : s[j].kind # "asm"
  BY <1>1, <1>2 DEF Placed
<1>4. PICK j \in 1 .. pos - 1 :
        /\ addr = s[j] /\ addr.kind # "asm"
        /\ \A m \in j + 1 .. pos - 1 : s[m].kind = "asm"
        /\ addr.kind # "line" => addr.a = AddrOf(cur)
  BY <1>1, <1>3 DEF AddrOK
<1> HIDE DEF s
<1>5. addr = Entry(addr.kind, addr.a)
  BY <1>2, <1>4, EntryFacts
<1>6. ASSUME addr.kind = k, AddrOf(cur) = a
      PROVE  EndsIn(s, k, a)
  <2>1. addr.a = a
    BY <1>4, <1>6 DEF Kinds
  <2>2. s[j] = Entry(k, a)
    BY <1>4, <1>5, <1>6, <2>1
  <2>3. QED BY <1>2, <1>4, <2>2 DEF EndsIn
<1>7. ASSUME EndsIn(s, k, a)
      PROVE  addr.kind = k /\ AddrOf(cur) = a
  <2>1. PICK i \in 1 .. Len(s) : s[i] = Entry(k, a) /\ \A m \in i + 1 .. Len(s) : s[m].kind = "asm"
    BY <1>2, <1>7 DEF EndsIn
  <2>2. s[i].kind = k /\ s[i].a = a /\ k # "asm" /\ k # "line"
    BY <2>1 DEF Entry, Kinds
  <2>3. i = j
    BY <1>2, <1>4, <2>1, <2>2
  <2>4. QED BY <1>4, <2>2, <2>3
<1>8. QED BY <1>1, <1>6, <1>7 DEF s

LEMMA MarksMeasured ==
  ASSUME TreeOK, UnitsFinite, HasTree, NEW a, NEW k \in Kinds
  PROVE  LET f == [p \in {q \in DOMAIN tree : AddrOf(q) = a} |-> tree[p].meta[k]]
         IN  /\ f \in [{q \in DOMAIN tree : AddrOf(q) = a} -> Nat]
             /\ IsFiniteSet(Units(f))
<1> DEFINE S == {q \in DOMAIN tree : AddrOf(q) = a}
           f == [p \in S |-> tree[p].meta[k]]
           all == [p \in DOMAIN tree |-> tree[p].meta[k]]
<1>1. \A p \in DOMAIN tree : tree[p].meta[k] \in Nat
  BY DEF TreeOK, Nodes
<1>2. /\ f \in [S -> Nat] /\ all \in [DOMAIN tree -> Nat] /\ S \subseteq DOMAIN tree
      /\ \A p \in S : f[p] <= all[p]
  BY <1>1
<1>3. IsFiniteSet(Units(all))
  BY DEF UnitsFinite
<1> HIDE DEF f, all, S
<1>4. IsFiniteSet(Units(f))
  BY <1>2, <1>3, TotalMonotone
<1>5. QED BY <1>2, <1>4 DEF f, S

LEMMA MarksStep ==
  ASSUME ReportInv, [ReportNext]_report_vars
  PROVE  MarksOK'
<1>1. /\ ProfilesOK /\ PlaceOK /\ TreeOK /\ UnitsFinite /\ MarksOK /\ profiles' = profiles
  BY ProfilesStep DEF ReportInv
<1>2. SUFFICES ASSUME Placed, NEW a \in Functions, NEW k \in Kinds
               PROVE  /\ stage' = "tree" => MarksOf(k, a)' = Cardinality(EndedIn(k, a)')
                      /\ Folded' => MarksOf(k, a)' = Cardinality(Ended(k, a)')
  <2>1. Placed' => Placed
    BY <1>1 DEF Placed
  <2>2. QED BY <1>2, <2>1 DEF MarksOK
<1>3. /\ stage = "tree" => MarksOf(k, a) = Cardinality(EndedIn(k, a))
      /\ Folded => MarksOf(k, a) = Cardinality(Ended(k, a))
  BY <1>1, <1>2 DEF MarksOK
<1>4. /\ next' = next => EndedIn(k, a)' = EndedIn(k, a)
      /\ Ended(k, a)' = Ended(k, a)
  BY <1>1 DEF EndedIn, Ended, EndsIn
<1> DEFINE S == {q \in DOMAIN tree : AddrOf(q) = a}
           f == [p \in S |-> tree[p].meta[k]]
           T == {q \in DOMAIN tree' : AddrOf(q)' = a}
           g == [p \in T |-> tree'[p].meta[k]]
<1>5. MarksOf(k, a) = Total(f) /\ MarksOf(k, a)' = Total(g)
  BY DEF MarksOf
<1>6. HasTree => f \in [S -> Nat] /\ IsFiniteSet(Units(f))
  BY <1>1, MarksMeasured
<1>7. CASE MarkLast
  <2>1. /\ HasTree /\ stage = "tree" /\ stage' = "tree" /\ next' = next + 1 /\ root' = root
    BY <1>7 DEF MarkLast, InTree, HasTree, NextProfile
  <2>2. /\ tree' \in [DOMAIN tree -> Nodes]
        /\ \A p \in DOMAIN tree :
             tree'[p].meta[k] = tree[p].meta[k] + IF p = cur /\ k = addr.kind THEN 1 ELSE 0
    BY <1>7, MarkTree DEF ReportInv
  <2>3. T = S
    BY <2>1, <2>2 DEF AddrOf
  <2>4. cur \in DOMAIN tree
    BY <1>1, <2>1 DEF TreeOK
  <2>5. \A p \in S : f[p] \in Nat /\ f[p] = tree[p].meta[k]
    BY <1>6, <2>1
  <2>6. g \in [S -> Nat]
    BY <2>2, <2>3 DEF Nodes
  <2>7. EndedIn(k, a)' = EndedIn(k, a) \cup
          IF addr.kind = k /\ AddrOf(cur) = a THEN {next} ELSE {}
    <3>1. /\ EndsIn(profiles[next], k, a) <=> addr.kind = k /\ AddrOf(cur) = a
          /\ next \in DOMAIN profiles
      BY <1>2, <1>7, EndOfProfile DEF ReportInv
    <3>2. DOMAIN profiles = 1 .. Len(profiles)
      BY <1>1, ProfileFacts
    <3>3. ASSUME NEW i \in DOMAIN profiles
          PROVE  i < next' <=> i < next \/ i = next
      BY <2>1, <3>1, <3>2
    <3>4. QED BY <1>1, <3>1, <3>3 DEF EndedIn, EndsIn
  <2>8. next \notin EndedIn(k, a) /\ IsFiniteSet(EndedIn(k, a))
    <3>1. next \in Int /\ EndedIn(k, a) \in SUBSET DOMAIN profiles
      BY <1>1 DEF PlaceOK, EndedIn
    <3>2. IsFiniteSet(EndedIn(k, a))
      BY <1>1, <3>1, ProfileFacts, FS_Subset
    <3>3. QED BY <3>1, <3>2 DEF EndedIn
  <2>9. CASE addr.kind = k /\ AddrOf(cur) = a
    <3>1. cur \in S
      BY <2>4, <2>9
    <3>2. /\ \A p \in S \ {cur} : g[p] = f[p]
          /\ g[cur] = (IF cur \in S THEN f[cur] ELSE 0) + 1
      <4>1. \A p \in S : g[p] = f[p] + IF p = cur THEN 1 ELSE 0
        BY <2>2, <2>3, <2>9
      <4>2. QED BY <2>5, <3>1, <4>1
    <3>3. S \cup {cur} = S
      BY <3>1
    <3>4. g \in [S \cup {cur} -> Nat]
      BY <2>6, <3>3
    <3> HIDE DEF f, g, S, T
    <3>5. Total(g) = Total(f) + 1
      BY <1>6, <2>1, <3>2, <3>4, OneMoreUnit
    <3>6. Cardinality(EndedIn(k, a)') = Cardinality(EndedIn(k, a)) + 1
      BY <2>7, <2>8, <2>9, FS_AddElement
    <3>7. QED BY <1>3, <1>5, <2>1, <3>5, <3>6 DEF Folded
  <2>10. CASE ~(addr.kind = k /\ AddrOf(cur) = a)
    <3>1. \A p \in S : g[p] = f[p] + 0
      BY <2>2, <2>3, <2>10
    <3>2. \A p \in S : g[p] = f[p]
      BY <2>5, <3>1
    <3>3. DOMAIN f = S /\ DOMAIN g = S
      BY <2>3
    <3>4. g = f
      BY <2>3, <3>2
    <3>5. EndedIn(k, a)' = EndedIn(k, a)
      BY <2>7, <2>10
    <3> HIDE DEF f, g, S, T
    <3>6. QED BY <1>3, <1>5, <2>1, <3>4, <3>5 DEF Folded
  <2>11. QED BY <2>9, <2>10
<1>8. CASE AddChild
  <2>1. /\ HasTree /\ stage = "tree" /\ stage' = "tree" /\ next' = next
    BY <1>8 DEF AddChild, InTree, HasTree, NextEntry
  <2>2. /\ root' = root /\ tree' \in [DOMAIN tree \cup {cur'} -> Nodes]
        /\ \A p \in DOMAIN tree : tree'[p].meta = tree[p].meta
        /\ cur' \notin DOMAIN tree => tree'[cur'].meta[k] = 0
    BY <1>8, ChildTree DEF ReportInv
  <2>3. ASSUME NEW p PROVE AddrOf(p)' = AddrOf(p)
    BY <2>2 DEF AddrOf
  <2>4. \A p \in S : p \in T /\ g[p] = f[p]
    BY <2>2, <2>3
  <2>5. T \subseteq S \cup {cur'}
    BY <2>2, <2>3
  <2>6. Total(g) = Total(f)
    <3>1. CASE cur' \in S \/ cur' \notin T
      <4>1. T = S
        BY <2>4, <2>5, <3>1
      <4>2. g = f
        BY <2>4, <4>1
      <4> HIDE DEF f, g, S, T
      <4>3. QED BY <4>2
    <3>2. CASE cur' \notin S /\ cur' \in T
      <4>1. T = S \cup {cur'} /\ cur' \notin DOMAIN tree
        BY <2>3, <2>4, <2>5, <3>2
      <4>2. g[cur'] = 0
        BY <2>2, <3>2, <4>1
      <4>3. g \in [S \cup {cur'} -> Nat]
        <5>1. \A p \in T : tree'[p].meta[k] \in Nat
          BY <2>2 DEF Nodes
        <5>2. QED BY <4>1, <5>1
      <4> HIDE DEF f, g, S, T
      <4>4. Units(g) = Units(f)
        BY <1>6, <2>1, <2>4, <3>2, <4>2, <4>3, NoMoreUnit
      <4>5. QED BY <4>4 DEF Total
    <3>3. QED BY <3>1, <3>2
  <2> HIDE DEF f, g, S, T
  <2>7. QED BY <1>3, <1>4, <1>5, <2>1, <2>6 DEF Folded
<1>9. CASE GetTop
  <2>1. CASE stage' = "empty"
    BY <2>1 DEF Folded
  <2>2. CASE stage' # "empty"
    <3>1. /\ stage' = "tree" /\ next' = 1 /\ tree' \in [{<<>>} -> Nodes]
          /\ tree'[<<>>].meta[k] = 0
      BY <1>9, <2>2, TopTree DEF ReportInv
    <3>2. Total(g) = 0
      <4>1. CASE T = {}
        <5>1. DOMAIN g = {}
          BY <4>1
        <5> HIDE DEF g, T
        <5>2. QED BY <5>1, TotalOfNone
      <4>2. CASE T # {}
        <5>1. T = {<<>>}
          BY <3>1, <4>2
        <5>2. g = [p \in {<<>>} |-> 0]
          BY <3>1, <5>1
        <5>3. Total([p \in {<<>>} |-> 0]) = 0
          BY TotalOfOne
        <5> HIDE DEF g, T
        <5>4. QED BY <5>2, <5>3
      <4>3. QED BY <4>1, <4>2
    <3>3. EndedIn(k, a)' = {}
      <4>1. DOMAIN profiles = 1 .. Len(profiles)
        BY <1>1, ProfileFacts
      <4>2. QED BY <1>1, <3>1, <4>1 DEF EndedIn
    <3>4. QED BY <1>5, <3>1, <3>2, <3>3, FS_EmptySet DEF Folded
  <2>3. QED BY <2>1, <2>2
<1>10. CASE HasTree /\ ~MarkLast /\ ~AddChild /\ ~GetTop
  <2>1. /\ DOMAIN tree' = DOMAIN tree /\ root' = root
        /\ \A p \in DOMAIN tree : tree'[p].meta = tree[p].meta
    BY <1>10, CountsKept
  <2>2. T = S
    BY <2>1 DEF AddrOf
  <2>3. g = f
    BY <2>1, <2>2
  <2>4. MarksOf(k, a)' = MarksOf(k, a)
    <3> HIDE DEF f, g, S, T
    <3>1. QED BY <1>5, <2>3
  <2>5. CASE StartFilter
    <3>1. stage = "tree" /\ stage' = "filter" /\ next \notin DOMAIN profiles
      BY <2>5 DEF StartFilter, Begin
    <3>2. \A i \in DOMAIN profiles : i < next
      <4>1. DOMAIN profiles = 1 .. Len(profiles) /\ Len(profiles) \in Nat
        BY <1>1, ProfileFacts
      <4>2. QED BY <1>1, <3>1, <4>1 DEF PlaceOK
    <3>3. EndedIn(k, a) = Ended(k, a)
      BY <3>2 DEF EndedIn, Ended
    <3>4. QED BY <1>3, <1>4, <2>4, <3>1, <3>3
  <2>6. CASE FilterTop
    <3>1. Folded /\ stage' # "tree"
      BY <2>6 DEF FilterTop, Folded
    <3>2. QED BY <1>3, <1>4, <2>4, <3>1
  <2>7. CASE SkipAssembler \/ CountLine \/ SkipDuplicate
    <3>1. stage = "tree" /\ stage' = "tree" /\ next' = next
      BY <2>7 DEF SkipAssembler, CountLine, SkipDuplicate, InTree, NextEntry
    <3>2. QED BY <1>3, <1>4, <2>4, <3>1 DEF Folded
  <2>8. CASE UNCHANGED report_vars
    <3>1. stage' = stage /\ next' = next
      BY <2>8 DEF report_vars, loop
    <3>2. QED BY <1>3, <1>4, <2>4, <3>1 DEF Folded
  <2>9. QED
    BY <1>10, <2>5, <2>6, <2>7, <2>8 DEF ReportNext, CountEntry, CountedProfile, HasTree
<1>11. CASE ~HasTree /\ ~GetTop
  <2>1. stage' \notin {"tree", "filter", "done"}
    BY <1>11 DEF ReportNext, report_vars, loop, CountEntry, CountedProfile, InTree,
         SkipAssembler, CountLine, SkipDuplicate, AddChild, MarkLast, StartFilter, FilterTop,
         NextEntry, NextProfile, HasTree
  <2>2. QED BY <2>1 DEF Folded
<1>12. QED BY <1>7, <1>8, <1>9, <1>10, <1>11

-----------------------------------------------------------------------------
(* Steps: a node has the samples of its children *)

LEMMA SamplesStep ==
  ASSUME ReportInv, [ReportNext]_report_vars
  PROVE  SamplesOK'
<1>1. /\ ProfilesOK /\ PlaceOK /\ TreeOK /\ UnitsFinite /\ SamplesOK /\ profiles' = profiles
  BY ProfilesStep DEF ReportInv
<1>2. CASE AddChild
  <2>1. /\ HasTree /\ stage = "tree" /\ stage' = "tree" /\ next' = next /\ ~Folded /\ ~Folded'
    BY <1>2 DEF AddChild, InTree, HasTree, NextEntry, Folded
  <2>2. /\ Here.a \in Functions /\ cur' = Append(cur, Here.a) /\ cur \in Seq(Functions)
        /\ tree' \in [DOMAIN tree \cup {cur'} -> Nodes]
        /\ \A p \in DOMAIN tree : p # cur' => tree'[p].count = tree[p].count
        /\ tree'[cur'].count = (IF cur' \in DOMAIN tree THEN tree[cur'].count ELSE 0) + 1
    BY <1>2, ChildTree
  <2>3. cur' # <<>> /\ Front(cur') = cur /\ cur' # cur
    BY <2>2, PathFacts
  <2>4. /\ <<>> \in DOMAIN tree /\ cur \in DOMAIN tree /\ tree \in [DOMAIN tree -> Nodes]
        /\ \A p \in DOMAIN tree : p # <<>> => Front(p) \in DOMAIN tree
        /\ next \in Int
    BY <1>1, <2>1 DEF TreeOK, PlaceOK
  <2>5. ASSUME NEW p \in DOMAIN tree'
        PROVE  /\ Children(p)' = Children(p) \cup (IF p = cur THEN {cur'} ELSE {})
               /\ Children(p) \in SUBSET DOMAIN tree
               /\ cur' \in Children(p) => p = cur
               /\ p \notin DOMAIN tree => Children(p) = {}
               /\ p = cur /\ cur' \in DOMAIN tree => cur' \in Children(p)
    BY <2>2, <2>3, <2>4 DEF Children
  <2>6. ASSUME NEW p \in DOMAIN tree'
        PROVE  CountOf(Children(p))' = CountOf(Children(p)) + IF p = cur THEN 1 ELSE 0
    <3>1. CountOf(Children(p))' = Total([q \in Children(p)' |-> tree'[q].count])
      BY DEF CountOf
    <3>2. CountOf(Children(p)) \in Nat
      BY <1>1, <2>1, <2>5, CountsMonotone
    <3>3. CASE p = cur
      BY <1>2, <2>5, <3>1, <3>3, CountAfterChild
    <3>4. CASE p # cur
      <4>1. Children(p)' = Children(p) /\ cur' \notin Children(p)
        BY <2>5, <3>4
      <4>2. CountOf(Children(p))' = CountOf(Children(p))
        BY <1>2, <2>5, <3>1, <4>1, CountAfterChild
      <4>3. QED BY <3>2, <3>4, <4>2
    <3>5. QED BY <3>3, <3>4
  <2>7. ASSUME NEW p \in DOMAIN tree'
        PROVE  CountOf(Children(p))' + (IF stage' = "tree" /\ p = cur' THEN 1 ELSE 0) <= Samples(p)'
    <3>1. /\ CountOf(Children(p)) \in Nat
          /\ p \in DOMAIN tree => CountOf(Children(p)) + (IF p = cur THEN 1 ELSE 0) <= Samples(p)
      BY <1>1, <2>1, <2>5, CountsMonotone DEF SamplesOK
    <3>2. CASE p # cur'
      <4>1. p \in DOMAIN tree /\ tree'[p].count = tree[p].count
        BY <2>2, <3>2
      <4>2. Samples(p)' = Samples(p)
        BY <2>1, <4>1 DEF Samples
      <4>3. QED BY <2>1, <2>6, <3>1, <3>2, <4>1, <4>2
    <3>3. CASE p = cur' /\ p \in DOMAIN tree
      <4>1. Samples(p)' = Samples(p) + 1 /\ Samples(p) \in Nat
        BY <2>1, <2>2, <2>3, <2>4, <3>3 DEF Samples, Nodes
      <4>2. QED BY <2>1, <2>3, <2>6, <3>1, <3>3, <4>1
    <3>4. CASE p = cur' /\ p \notin DOMAIN tree
      <4>1. Samples(p)' = 1
        BY <2>1, <2>2, <2>3, <3>4 DEF Samples
      <4>2. CountOf(Children(p)) = 0
        BY <2>5, <3>4, TotalOfNone DEF CountOf
      <4>3. QED BY <2>1, <2>3, <2>6, <3>4, <4>1, <4>2
    <3>5. QED BY <3>2, <3>3, <3>4
  <2>8. tree'[<<>>].count = Len(profiles)
    BY <1>1, <2>1, <2>2, <2>3, <2>4 DEF SamplesOK
  <2>9. QED BY <1>1, <2>7, <2>8 DEF SamplesOK
<1>3. CASE GetTop
  <2>1. CASE stage' = "empty"
    BY <2>1 DEF SamplesOK, HasTree
  <2>2. CASE stage' # "empty"
    <3>1. /\ stage' = "tree" /\ next' = 1 /\ cur' = <<>> /\ tree' \in [{<<>>} -> Nodes]
          /\ tree'[<<>>].count = Len(profiles)
      BY <1>3, <2>2, TopTree DEF ReportInv
    <3>2. Children(<<>>)' = {}
      BY <3>1 DEF Children
    <3>3. CountOf(Children(<<>>))' = 0
      BY <3>2, TotalOfNone DEF CountOf
    <3>4. Samples(<<>>)' = 1
      BY <3>1 DEF Samples, Folded
    <3>5. QED BY <1>1, <3>1, <3>3, <3>4 DEF SamplesOK
  <2>3. QED BY <2>1, <2>2
<1>4. CASE HasTree /\ ~AddChild
  <2>1. /\ DOMAIN tree' = DOMAIN tree /\ root' = root
        /\ \A p \in DOMAIN tree : tree'[p].count = tree[p].count
        /\ <<>> \in DOMAIN tree
    BY <1>1, <1>4, CountsKept DEF TreeOK
  <2>2. ASSUME NEW p \in DOMAIN tree
        PROVE  /\ CountOf(Children(p))' = CountOf(Children(p)) /\ CountOf(Children(p)) \in Nat
               /\ CountOf(Children(p)) + (IF stage = "tree" /\ p = cur THEN 1 ELSE 0) <= Samples(p)
    <3>1. Children(p)' = Children(p) /\ Children(p) \in SUBSET DOMAIN tree
      BY <2>1 DEF Children
    <3>2. CountOf(Children(p))' = Total([q \in Children(p) |-> tree'[q].count])
      BY <3>1 DEF CountOf
    <3>3. CountOf(Children(p))' = CountOf(Children(p))
      BY <1>4, <3>1, <3>2, CountAfterOthers
    <3>4. QED BY <1>1, <1>4, <3>1, <3>3, CountsMonotone DEF SamplesOK
  <2>3. SUFFICES ASSUME NEW p \in DOMAIN tree
                 PROVE  CountOf(Children(p)) + (IF stage' = "tree" /\ p = cur' THEN 1 ELSE 0)
                          <= Samples(p)'
    BY <1>1, <1>4, <2>1, <2>2 DEF SamplesOK
  <2>4. next \in Int /\ Len(profiles) \in Nat /\ tree[p].count \in Nat
        /\ tree[<<>>].count = Len(profiles)
    BY <1>1, <1>4, ProfileFacts DEF PlaceOK, TreeOK, Nodes, SamplesOK
  <2>5. CASE MarkLast
    <3>1. stage = "tree" /\ stage' = "tree" /\ next' = next + 1 /\ cur' = <<>>
      BY <2>5 DEF MarkLast, InTree, NextProfile
    <3>2. CASE p = <<>>
      <4>1. Samples(p) = next /\ Samples(p)' = next + 1
        BY <3>1, <3>2 DEF Samples, Folded
      <4>2. QED BY <2>2, <2>4, <3>1, <3>2, <4>1
    <3>3. CASE p # <<>>
      <4>1. Samples(p)' = Samples(p) /\ Samples(p) \in Nat
        BY <2>1, <2>4, <3>3 DEF Samples
      <4>2. QED BY <2>2, <3>1, <3>3, <4>1
    <3>4. QED BY <3>2, <3>3
  <2>6. CASE StartFilter
    <3>1. stage = "tree" /\ stage' = "filter" /\ next \notin DOMAIN profiles /\ cur = <<>>
      BY <1>1, <2>6 DEF StartFilter, Begin, TreeOK
    <3>2. next = Len(profiles) + 1
      BY <1>1, <2>4, <3>1, ProfileFacts DEF PlaceOK
    <3>3. Samples(p)' = tree[p].count
      BY <2>1, <3>1 DEF Samples, Folded
    <3>4. CASE p = <<>>
      <4>1. Samples(p) = next
        BY <3>1, <3>4 DEF Samples, Folded
      <4>2. QED BY <2>2, <2>4, <3>1, <3>2, <3>3, <3>4, <4>1
    <3>5. CASE p # <<>>
      <4>1. Samples(p) = tree[p].count
        BY <3>5 DEF Samples
      <4>2. QED BY <2>2, <2>4, <3>1, <3>3, <3>5, <4>1
    <3>6. QED BY <3>4, <3>5
  <2>7. CASE FilterTop
    <3>1. Folded /\ Folded' /\ stage # "tree" /\ stage' # "tree"
      BY <2>7 DEF FilterTop, Folded
    <3>2. Samples(p)' = Samples(p)
      BY <2>1, <3>1 DEF Samples
    <3>3. QED BY <2>2, <3>1, <3>2
  <2>8. CASE SkipAssembler \/ CountLine \/ SkipDuplicate \/ UNCHANGED report_vars
    <3>1. stage' = stage /\ next' = next /\ cur' = cur
      BY <2>8 DEF SkipAssembler, CountLine, SkipDuplicate, InTree, NextEntry, report_vars, loop
    <3>2. Samples(p)' = Samples(p)
      BY <2>1, <3>1 DEF Samples, Folded
    <3>3. QED BY <2>2, <3>1, <3>2
  <2>9. QED
    BY <1>4, <2>5, <2>6, <2>7, <2>8
       DEF ReportNext, CountEntry, CountedProfile, GetTop, HasTree
<1>5. CASE ~HasTree /\ ~GetTop
  <2>1. ~HasTree'
    BY <1>5 DEF ReportNext, report_vars, loop, CountEntry, CountedProfile, InTree,
         SkipAssembler, CountLine, SkipDuplicate, AddChild, MarkLast, StartFilter, FilterTop,
         NextEntry, NextProfile, HasTree
  <2>2. QED BY <2>1 DEF SamplesOK
<1>6. QED BY <1>2, <1>3, <1>4, <1>5

LEMMA ReportInductive == ReportSpec => []ReportInv
<1>1. ReportInit => ReportInv
  BY ReportStarts
<1>2. ReportInv /\ [ReportNext]_report_vars => ReportInv'
  <2>1. SUFFICES ASSUME ReportInv, [ReportNext]_report_vars PROVE ReportInv'
    OBVIOUS
  <2>2. ProfilesOK' /\ PlaceOK' /\ FunctionsOK' /\ TreeOK' /\ UnitsFinite'
    BY <2>1, ProfilesStep, PlaceStep, FunctionsStep, TreeStep, UnitsFiniteStep
  <2>3. CallsOK' /\ TopmostOK' /\ AddrOK' /\ MarksOK' /\ SamplesOK'
    BY <2>1, CallsStep, TopmostStep, AddrStep, MarksStep, SamplesStep
  <2>4. QED BY <2>2, <2>3 DEF ReportInv
<1>3. QED BY <1>1, <1>2, PTL DEF ReportSpec

\* However many profiles of whatever depth, the topmost nodes of a function
\* count the profiles it is in, as generate_top does (Stats).
THEOREM TreesMatchTops == ReportSpec => []TreeMatchesTop
<1>1. ReportInv => TreeMatchesTop
  <2>1. SUFFICES ASSUME ReportInv, Done, NEW a \in Functions \ {root}
                 PROVE  CountOf(Topmost(a)) = Calls(a)
    BY DEF TreeMatchesTop, Functions, Topmost, Calls
  <2>2. stage # "top" /\ Folded /\ a \in Addresses
    BY <2>1, AddressFacts DEF Done, Folded
  <2>3. QED BY <2>1, <2>2 DEF ReportInv, TopmostOK, CallsOK
<1>2. QED BY <1>1, ReportInductive, PTL

\* When every profile has a node, its kind is counted once, at the function in
\* which it ended (get_tree).
THEOREM MarksAreOfProfiles == ReportSpec => []MarksAddUp
<1>1. ReportInv => MarksAddUp
  <2>1. SUFFICES ASSUME ReportInv, Done, Placed, NEW a \in Functions, NEW k \in Kinds
                 PROVE  MarksOf(k, a) = Cardinality(Ended(k, a))
    BY DEF MarksAddUp, Functions, Placed, Ended
  <2>2. Folded
    BY <2>1 DEF Done, Folded
  <2>3. QED BY <2>1, <2>2 DEF ReportInv, MarksOK
<1>2. QED BY <1>1, ReportInductive, PTL

-----------------------------------------------------------------------------
(* The flat times *)

LEMMA BelowFacts ==
  ASSUME TreeOK, Folded
  PROVE  LET B == Below(shown)
             R == B \ {shown}
         IN  /\ B \in SUBSET DOMAIN tree /\ shown \in B
             /\ \A q \in R : q # <<>> /\ Front(q) \in B
             /\ \A p \in B : Children(p) \subseteq R
<1> DEFINE B == Below(shown)
<1>1. /\ shown \in DOMAIN tree /\ DOMAIN tree \subseteq Seq(Functions)
      /\ \A p \in DOMAIN tree : p # <<>> => Front(p) \in DOMAIN tree
  BY DEF TreeOK, Folded, HasTree
<1>2. ASSUME NEW p \in DOMAIN tree
      PROVE  p \in B <=> Len(shown) <= Len(p) /\ \A i \in 1 .. Len(shown) : shown[i] = p[i]
  <2>1. shown \in Seq(Functions) /\ p \in Seq(Functions)
    BY <1>1
  <2>2. IsPrefix(shown, p) <=> Len(shown) <= Len(p) /\ \A i \in 1 .. Len(shown) : shown[i] = p[i]
    BY <2>1 DEF IsPrefix
  <2>3. QED BY <2>2 DEF Below
<1>3. B \in SUBSET DOMAIN tree
  BY DEF Below
<1>4. shown \in B
  <2>1. Len(shown) \in Nat
    BY <1>1
  <2>2. QED BY <1>1, <1>2, <2>1
<1>5. ASSUME NEW p \in DOMAIN tree, p # <<>>
      PROVE  /\ Front(p) \in Seq(Functions) /\ Len(p) \in Nat /\ Len(Front(p)) = Len(p) - 1
             /\ \A i \in 1 .. Len(p) - 1 : Front(p)[i] = p[i]
             /\ p \in Seq(Functions)
  <2>1. p \in Seq(Functions) /\ Len(p) \in Nat
    BY <1>1
  <2>2. Len(p) - 1 \in Nat
    BY <1>5, <2>1
  <2>3. Front(p) = [i \in 1 .. Len(p) - 1 |-> p[i]]
    BY DEF Front
  <2>4. \A i \in 1 .. Len(p) - 1 : p[i] \in Functions
    BY <2>1
  <2>5. [i \in 1 .. Len(p) - 1 |-> p[i]] \in [1 .. Len(p) - 1 -> Functions]
    BY <2>4
  <2>6. QED BY <2>1, <2>2, <2>3, <2>5
<1> HIDE DEF B
<1>6. ASSUME NEW q \in B, q # shown
      PROVE  q # <<>> /\ Front(q) \in B
  <2>1. q \in DOMAIN tree /\ q \in Seq(Functions) /\ shown \in Seq(Functions)
    BY <1>1, <1>3
  <2>2. Len(shown) <= Len(q) /\ \A i \in 1 .. Len(shown) : shown[i] = q[i]
    BY <1>2, <2>1
  <2>3. Len(shown) # Len(q)
    <3>1. SUFFICES ASSUME Len(shown) = Len(q) PROVE shown = q
      BY <1>6
    <3>2. QED BY <2>1, <2>2, <3>1
  <2>4. Len(q) > 0 /\ Len(shown) <= Len(q) - 1
    BY <2>1, <2>2, <2>3
  <2>5. q # <<>>
    BY <2>4
  <2>6. QED BY <1>1, <1>2, <1>5, <2>1, <2>2, <2>4, <2>5
<1>7. ASSUME NEW p \in B, NEW q \in Children(p)
      PROVE  q \in B \ {shown}
  <2>1. q \in DOMAIN tree /\ q # <<>> /\ Front(q) = p /\ p \in DOMAIN tree
    BY <1>3 DEF Children
  <2>2. Len(shown) <= Len(p) /\ \A i \in 1 .. Len(shown) : shown[i] = p[i]
    BY <1>2, <2>1
  <2>3. Len(shown) \in Nat /\ Len(p) \in Nat
    BY <1>1, <2>1
  <2>4. Len(p) = Len(q) - 1 /\ Len(q) \in Nat /\ \A i \in 1 .. Len(p) : p[i] = q[i]
    BY <1>5, <2>1
  <2>5. Len(shown) <= Len(q) /\ Len(shown) # Len(q) /\ \A i \in 1 .. Len(shown) : shown[i] = q[i]
    BY <2>2, <2>3, <2>4
  <2>6. QED BY <1>2, <2>1, <2>5
<1>8. QED BY <1>3, <1>4, <1>6, <1>7 DEF B

LEMMA CalleesFacts ==
  ASSUME TreeOK, Folded, NEW a
  PROVE  /\ NodesOf(a) \in SUBSET Below(shown)
         /\ Callees(a) = {q \in Below(shown) \ {shown} : AddrOf(Front(q)) = a}
         /\ \A p \in NodesOf(a) : Children(p) = {q \in Callees(a) : Front(q) = p}
         /\ \A q \in Callees(a) : Front(q) \in NodesOf(a)
<1>1. /\ Below(shown) \in SUBSET DOMAIN tree
      /\ \A q \in Below(shown) \ {shown} : q # <<>> /\ Front(q) \in Below(shown)
      /\ \A p \in Below(shown) : Children(p) \subseteq Below(shown) \ {shown}
  BY BelowFacts
<1>2. NodesOf(a) \in SUBSET Below(shown)
  BY DEF NodesOf
<1>3. ASSUME NEW q \in Callees(a)
      PROVE  q \in Below(shown) \ {shown} /\ AddrOf(Front(q)) = a /\ Front(q) \in NodesOf(a)
  <2>1. PICK p \in NodesOf(a) : q \in Children(p)
    BY DEF Callees
  <2>2. Front(q) = p /\ AddrOf(p) = a /\ p \in Below(shown)
    BY <2>1 DEF Children, NodesOf
  <2>3. QED BY <1>1, <2>1, <2>2
<1>4. ASSUME NEW q \in Below(shown) \ {shown}, AddrOf(Front(q)) = a
      PROVE  q \in Callees(a)
  <2>1. Front(q) \in NodesOf(a) /\ q \in Children(Front(q))
    BY <1>1, <1>4 DEF NodesOf, Children
  <2>2. QED BY <2>1 DEF Callees
<1>5. ASSUME NEW p \in NodesOf(a), NEW q
      PROVE  q \in Children(p) <=> q \in Callees(a) /\ Front(q) = p
  <2>1. q \in Children(p) => q \in Callees(a) /\ Front(q) = p
    BY DEF Callees, Children
  <2>2. q \in Callees(a) /\ Front(q) = p => q \in Children(p)
    BY <1>1, <1>3 DEF Children
  <2>3. QED BY <2>1, <2>2
<1>6. QED BY <1>2, <1>3, <1>4, <1>5

\* What a function calls takes no more than the function.
LEMMA CalleesCost ==
  ASSUME TreeOK, UnitsFinite, SamplesOK, Folded, NEW a
  PROVE  /\ CountOf(Callees(a)) \in Nat /\ CountOf(NodesOf(a)) \in Nat
         /\ CountOf(Callees(a)) <= CountOf(NodesOf(a))
         /\ Callees(a) \in SUBSET DOMAIN tree
<1> DEFINE S == Callees(a)
           A == NodesOf(a)
           f == [q \in S |-> tree[q].count]
           h == [q \in S |-> Front(q)]
           C == [p \in A |-> Children(p)]
           F == [p \in A |-> [q \in Children(p) |-> tree[q].count]]
           g == [p \in A |-> Total(F[p])]
           n == [p \in A |-> tree[p].count]
<1>1. HasTree /\ S \in SUBSET DOMAIN tree /\ A \in SUBSET DOMAIN tree
  BY CalleesFacts, BelowFacts DEF HasTree, Folded
<1>2. /\ f \in [S -> Nat] /\ IsFiniteSet(Units(f)) /\ Total(f) = CountOf(S)
      /\ n \in [A -> Nat] /\ IsFiniteSet(Units(n)) /\ Total(n) = CountOf(A)
      /\ CountOf(S) \in Nat /\ CountOf(A) \in Nat
  BY <1>1, CountsMonotone DEF CountOf
<1>3. h \in [S -> A] /\ \A q \in S : h[q] = Front(q)
  BY CalleesFacts
<1>4. ASSUME NEW p \in A
      PROVE  /\ \A x : x \in C[p] <=> x \in S /\ h[x] = p
             /\ F[p] \in [C[p] -> Nat] /\ \A x \in C[p] : F[p][x] = f[x]
             /\ g[p] = Total(F[p]) /\ g[p] \in Nat /\ g[p] <= n[p]
  <2>1. Children(p) = {y \in S : h[y] = p}
    BY CalleesFacts
  <2>2. Children(p) \in SUBSET DOMAIN tree
    BY DEF Children
  <2>3. F[p] = [q \in Children(p) |-> tree[q].count] /\ g[p] = CountOf(Children(p))
    BY DEF CountOf
  <2>4. CountOf(Children(p)) \in Nat /\ F[p] \in [Children(p) -> Nat]
    BY <1>1, <2>2, <2>3, CountsMonotone
  <2>5. CountOf(Children(p)) + 0 <= tree[p].count
    BY <1>1 DEF SamplesOK, Samples, Folded
  <2>6. n[p] = tree[p].count /\ g[p] = Total(F[p])
    OBVIOUS
  <2>7. \A x \in S : h[x] = p => F[p][x] = f[x]
    BY <2>1, <2>3
  <2>9. C[p] = Children(p)
    OBVIOUS
  <2> HIDE DEF g, n, F, f, h, S, A, C
  <2>8. QED BY <2>1, <2>2, <2>3, <2>4, <2>5, <2>6, <2>7, <2>9
<1>5. IsFiniteSet(Units(g)) /\ Total(g) = Total(f) /\ g \in [A -> Nat]
  <2>1. g \in [A -> Nat]
    BY <1>4
  <2> HIDE DEF f, h, n, S, A, C, F, g
  <2>2. \A p \in A : \A x : x \in C[p] <=> x \in S /\ h[x] = p
    BY <1>4
  <2>3. \A p \in A : F[p] \in [C[p] -> Nat]
    BY <1>4
  <2>4. \A p \in A : \A x \in C[p] : F[p][x] = f[x]
    BY <1>4
  <2>5. \A p \in A : g[p] = Total(F[p])
    BY <1>4
  <2>6. f \in [S -> Nat] /\ IsFiniteSet(Units(f)) /\ h \in [S -> A]
    BY <1>2, <1>3
  <2>7. IsFiniteSet(Units(g)) /\ Total(g) = Total(f)
    <3>1. Parted(S, A, f, h, C, F, g)
      BY <2>1, <2>2, <2>3, <2>4, <2>5, <2>6 DEF Parted
    <3>2. QED BY <3>1, TotalByFiber
  <2>8. QED BY <2>1, <2>7
<1> HIDE DEF f, h, n, S, A, C, F, g
<1>6. Total(g) <= Total(n)
  BY <1>2, <1>4, <1>5, TotalMonotone
<1>7. QED BY <1>1, <1>2, <1>5, <1>6 DEF S, A

\* The flat times add up to the count of the node that is shown.
LEMMA FlatSum ==
  ASSUME TreeOK, UnitsFinite, SamplesOK, Folded
  PROVE  Total([a \in Addresses |-> FlatOf(a)]) = tree[shown].count
<1> DEFINE B == Below(shown)
           R == B \ {shown}
           all == [p \in B |-> tree[p].count]
           rest == [p \in R |-> tree[p].count]
           own == [p \in B |-> AddrOf(p)]
           caller == [p \in R |-> AddrOf(Front(p))]
           F == [a \in Addresses |-> CountOf(NodesOf(a))]
           G == [a \in Addresses |-> CountOf(Callees(a))]
           ownC == [a \in Addresses |-> NodesOf(a)]
           callC == [a \in Addresses |-> Callees(a)]
           ofOwn == [a \in Addresses |-> [p \in NodesOf(a) |-> tree[p].count]]
           ofCaller == [a \in Addresses |-> [p \in Callees(a) |-> tree[p].count]]
<1>1. /\ HasTree /\ B \in SUBSET DOMAIN tree /\ R \in SUBSET DOMAIN tree /\ shown \in B
      /\ \A q \in R : Front(q) \in B
  BY BelowFacts DEF HasTree, Folded
<1>2. /\ all \in [B -> Nat] /\ IsFiniteSet(Units(all)) /\ Total(all) = CountOf(B)
      /\ rest \in [R -> Nat] /\ IsFiniteSet(Units(rest)) /\ Total(rest) = CountOf(R)
      /\ CountOf(B) \in Nat /\ CountOf(R) \in Nat
  BY <1>1, CountsMonotone DEF CountOf
<1>3. own \in [B -> Addresses] /\ caller \in [R -> Addresses]
  <2>1. \A p \in B : AddrOf(p) \in Addresses
    BY <1>1, AddrOfPath
  <2> HIDE DEF B
  <2>2. QED BY <1>1, <2>1
<1>4. ASSUME NEW a \in Addresses
      PROVE  /\ \A x : x \in ownC[a] <=> x \in B /\ own[x] = a
             /\ ofOwn[a] \in [ownC[a] -> Nat] /\ \A x \in ownC[a] : ofOwn[a][x] = all[x]
             /\ F[a] \in Nat /\ F[a] = Total(ofOwn[a])
  <2>1. NodesOf(a) = {y \in B : own[y] = a} /\ NodesOf(a) \in SUBSET DOMAIN tree
    BY <1>1 DEF NodesOf
  <2>2. ofOwn[a] = [p \in NodesOf(a) |-> tree[p].count] /\ F[a] = CountOf(NodesOf(a))
    OBVIOUS
  <2>3. ofOwn[a] \in [NodesOf(a) -> Nat] /\ F[a] \in Nat
    BY <1>1, <2>1, <2>2, CountsMonotone
  <2>4. F[a] = Total(ofOwn[a])
    BY <2>2 DEF CountOf
  <2>5. \A x \in B : own[x] = a => ofOwn[a][x] = all[x]
    BY <2>1
  <2>7. ownC[a] = NodesOf(a)
    OBVIOUS
  <2> HIDE DEF B, own, all, F, ofOwn, ownC
  <2>6. QED BY <2>1, <2>3, <2>4, <2>5, <2>7
<1>5. ASSUME NEW a \in Addresses
      PROVE  /\ \A x : x \in callC[a] <=> x \in R /\ caller[x] = a
             /\ ofCaller[a] \in [callC[a] -> Nat]
             /\ \A x \in callC[a] : ofCaller[a][x] = rest[x]
             /\ G[a] \in Nat /\ G[a] = Total(ofCaller[a])
  <2>1. Callees(a) = {y \in R : caller[y] = a} /\ Callees(a) \in SUBSET DOMAIN tree
    BY <1>1, CalleesFacts
  <2>2. ofCaller[a] = [p \in Callees(a) |-> tree[p].count] /\ G[a] = CountOf(Callees(a))
    OBVIOUS
  <2>3. ofCaller[a] \in [Callees(a) -> Nat] /\ G[a] \in Nat
    BY <1>1, <2>1, <2>2, CountsMonotone
  <2>4. G[a] = Total(ofCaller[a])
    BY <2>2 DEF CountOf
  <2>5. \A x \in R : caller[x] = a => ofCaller[a][x] = rest[x]
    BY <2>1
  <2>7. callC[a] = Callees(a)
    OBVIOUS
  <2> HIDE DEF B, R, caller, rest, G, ofCaller, callC
  <2>6. QED BY <2>1, <2>3, <2>4, <2>5, <2>7
<1>6. \A a \in Addresses : G[a] <= F[a] /\ FlatOf(a) = F[a] - G[a]
  <2>1. TAKE a \in Addresses
  <2>2. F[a] = CountOf(NodesOf(a)) /\ G[a] = CountOf(Callees(a))
    OBVIOUS
  <2>3. CountOf(Callees(a)) <= CountOf(NodesOf(a))
    BY CalleesCost
  <2> HIDE DEF F, G
  <2>4. QED BY <2>2, <2>3 DEF FlatOf
<1>7. F \in [Addresses -> Nat] /\ G \in [Addresses -> Nat]
  BY <1>4, <1>5
<1> HIDE DEF F, G, own, caller, all, rest, ofOwn, ofCaller, ownC, callC
<1>8. IsFiniteSet(Units(F)) /\ Total(F) = Total(all)
  <2> HIDE DEF B
  <2>1. \A a \in Addresses : \A x : x \in ownC[a] <=> x \in B /\ own[x] = a
    BY <1>4
  <2>2. \A a \in Addresses : ofOwn[a] \in [ownC[a] -> Nat]
    BY <1>4
  <2>3. \A a \in Addresses : \A x \in ownC[a] : ofOwn[a][x] = all[x]
    BY <1>4
  <2>4. \A a \in Addresses : F[a] = Total(ofOwn[a])
    BY <1>4
  <2>5. Parted(B, Addresses, all, own, ownC, ofOwn, F)
    BY <1>2, <1>3, <1>7, <2>1, <2>2, <2>3, <2>4 DEF Parted
  <2>6. QED BY <2>5, TotalByFiber
<1>9. IsFiniteSet(Units(G)) /\ Total(G) = Total(rest)
  <2> HIDE DEF R
  <2>1. \A a \in Addresses : \A x : x \in callC[a] <=> x \in R /\ caller[x] = a
    BY <1>5
  <2>2. \A a \in Addresses : ofCaller[a] \in [callC[a] -> Nat]
    BY <1>5
  <2>3. \A a \in Addresses : \A x \in callC[a] : ofCaller[a][x] = rest[x]
    BY <1>5
  <2>4. \A a \in Addresses : G[a] = Total(ofCaller[a])
    BY <1>5
  <2>5. Parted(R, Addresses, rest, caller, callC, ofCaller, G)
    BY <1>2, <1>3, <1>7, <2>1, <2>2, <2>3, <2>4 DEF Parted
  <2>6. QED BY <2>5, TotalByFiber
<1>10. Total([a \in Addresses |-> F[a] - G[a]]) = Total(F) - Total(G)
  BY <1>6, <1>7, <1>8, <1>9, TotalOfDifference
<1>11. [a \in Addresses |-> FlatOf(a)] = [a \in Addresses |-> F[a] - G[a]]
  BY <1>6
<1>12. Total(all) = Total(rest) + tree[shown].count
  <2>1. R \cup {shown} = B /\ R \cap {shown} = {}
    BY <1>1
  <2>2. all \in [R \cup {shown} -> Nat]
    BY <1>2, <2>1
  <2> DEFINE tip == [p \in {shown} |-> all[p]]
  <2>3. \A p \in B : all[p] = tree[p].count
    BY DEF all
  <2>4. rest = [p \in R |-> all[p]]
    BY <2>1, <2>3 DEF rest
  <2>5. Total(all) = Total(rest) + Total(tip)
    <3> HIDE DEF B, R
    <3>1. QED BY <1>2, <2>1, <2>2, <2>4, TotalSplits
  <2>6. all[shown] \in Nat /\ all[shown] = tree[shown].count
    BY <1>1, <1>2, <2>1, <2>2, <2>3
  <2>7. tip = [p \in {shown} |-> all[shown]]
    OBVIOUS
  <2>8. Total([p \in {shown} |-> all[shown]]) = all[shown]
    BY <2>6, TotalOfOne
  <2> HIDE DEF tip
  <2>9. QED BY <2>5, <2>6, <2>7, <2>8
<1>13. tree[shown].count \in Nat
  BY <1>1 DEF TreeOK, Nodes
<1>14. Total([a \in Addresses |-> FlatOf(a)]) = Total(all) - Total(rest)
  BY <1>7, <1>8, <1>9, <1>10, <1>11
<1>15. QED BY <1>2, <1>12, <1>13, <1>14

\* Whatever the tree, and whatever of it is shown, the flat times are times and
\* add up to what is shown; native callees only add to them (FlatPrinter).
THEOREM FlatTimesAddUp == ReportSpec => []FlatAddsUp
<1>1. ReportInv => FlatAddsUp
  <2>1. SUFFICES ASSUME ReportInv, Done PROVE FlatAddsUp
    BY DEF FlatAddsUp
  <2>2. TreeOK /\ UnitsFinite /\ SamplesOK /\ Folded /\ HasTree
    BY <2>1 DEF ReportInv, Done, Folded, HasTree
  <2>3. ASSUME NEW a \in Addresses
        PROVE  /\ 0 <= FlatOf(a)
               /\ FlatOf(a) <= FlatNoNative(a) /\ FlatNoNative(a) <= CountOf(NodesOf(a))
    <3> DEFINE called == {p \in Callees(a) : AddrOf(p) \notin Natives}
    <3>1. /\ CountOf(Callees(a)) \in Nat /\ CountOf(NodesOf(a)) \in Nat
          /\ CountOf(Callees(a)) <= CountOf(NodesOf(a))
          /\ Callees(a) \in SUBSET DOMAIN tree
      BY <2>2, CalleesCost
    <3>2. called \in SUBSET Callees(a)
      OBVIOUS
    <3>3. CountOf(called) \in Nat /\ CountOf(called) <= CountOf(Callees(a))
      BY <2>2, <3>1, <3>2, CountsMonotone
    <3>4. FlatNoNative(a) = CountOf(NodesOf(a)) - CountOf(called)
      BY DEF FlatNoNative
    <3> HIDE DEF called
    <3>5. QED BY <3>1, <3>3, <3>4 DEF FlatOf
  <2>4. Total([a \in Addresses |-> FlatOf(a)]) = tree[shown].count
    BY <2>2, FlatSum
  <2>5. QED BY <2>3, <2>4 DEF FlatAddsUp
<1>2. QED BY <1>1, ReportInductive, PTL

-----------------------------------------------------------------------------
(***************************************************************************)
(* JitLog.                                                                 *)
(***************************************************************************)

USE JitLogAssumption

-----------------------------------------------------------------------------
(* Types *)

\* The functions from some of the members of X to Y.
Partial(X, Y) == UNION {[D -> Y] : D \in SUBSET X}

MarksOrNone == Marks \cup {NoMark}
Types    == {"none", "init", "prefixed"}
StageSet == [ops : Seq(Ops), points : Nat, types : Types]
Stages   == Partial(Marks, StageSet)
Down     == [descr : Descrs, trace : Ids]
Up       == [trace : Ids, at : Nat]
TraceSet == [id : Ids, type : {"loop", "bridge"}, mark : MarksOrNone,
             stages : Stages, counter : Nat, counts : Partial(Nat, Nat),
             links : Seq(Down), up : Seq(Up), lines : Seq(Lines)]
Point    == [trace : Ids, at : Nat, inc : Nat]

\* The current mark of a trace is one of its stages; the traces that points,
\* addresses and links speak of are in the forest, each under one id.
TypeOK ==
  /\ traces \in Seq(TraceSet)
  /\ points \in Partial(Descrs, Point)
  /\ addrs \in Partial(Addrs, Ids)
MarkInv == \A i \in DOMAIN traces :
             traces[i].mark # NoMark => traces[i].mark \in DOMAIN traces[i].stages

\* What Put and AddTo do to a function.
LEMMA PutPartial ==
  ASSUME NEW X, NEW Y, NEW f \in Partial(X, Y), NEW x \in X, NEW y \in Y
  PROVE  /\ Put(f, x, y) \in Partial(X, Y)
         /\ DOMAIN Put(f, x, y) = DOMAIN f \cup {x}
         /\ Put(f, x, y)[x] = y
         /\ \A z \in DOMAIN f : z # x => Put(f, x, y)[z] = f[z]
<1>1. PICK D \in SUBSET X : f \in [D -> Y]
  BY DEF Partial
<1>2. Put(f, x, y) \in [D \cup {x} -> Y]
  BY <1>1 DEF Put
<1>3. D \cup {x} \in SUBSET X
  BY <1>1
<1>4. Put(f, x, y) \in Partial(X, Y)
  BY <1>2, <1>3 DEF Partial
<1>q. QED BY <1>1, <1>4 DEF Put

LEMMA AddToPartial ==
  ASSUME NEW f \in Partial(Nat, Nat), NEW x \in Nat, NEW n \in Nat
  PROVE  AddTo(f, x, n) \in Partial(Nat, Nat)
<1>1. PICK D \in SUBSET Nat : f \in [D -> Nat]
  BY DEF Partial
<1>2. (n + IF x \in DOMAIN f THEN f[x] ELSE 0) \in Nat
  BY <1>1
<1>q. QED BY <1>2, PutPartial DEF AddTo

LEMMA PartialValue ==
  ASSUME NEW X, NEW Y, NEW f \in Partial(X, Y), NEW x \in DOMAIN f
  PROVE  x \in X /\ f[x] \in Y
<1>1. PICK D \in SUBSET X : f \in [D -> Y]
  BY DEF Partial
<1>q. QED BY <1>1

LEMMA PartialExcept ==
  ASSUME NEW X, NEW Y, NEW f \in Partial(X, Y), NEW x \in DOMAIN f, NEW y \in Y
  PROVE  /\ [f EXCEPT ![x] = y] \in Partial(X, Y)
         /\ DOMAIN [f EXCEPT ![x] = y] = DOMAIN f
<1>1. PICK D \in SUBSET X : f \in [D -> Y]
  BY DEF Partial
<1>2. [f EXCEPT ![x] = y] \in [D -> Y]
  BY <1>1
<1>q. QED BY <1>1, <1>2 DEF Partial

LEMMA EmptyPartial == ASSUME NEW X, NEW Y PROVE << >> \in Partial(X, Y) /\ DOMAIN << >> = {}
<1>1. << >> \in [{} -> Y]
  BY SMT
<1>q. QED BY <1>1 DEF Partial

\* The current trace is the last one.
LEMMA CurrentTrace ==
  ASSUME TypeOK, Started
  PROVE  /\ Current \in TraceSet /\ Len(traces) \in DOMAIN traces
         /\ Len(traces) \in Nat \ {0} /\ Current = traces[Len(traces)]
  BY DEF TypeOK, Started, Current, Last

LEMMA CurrentStage ==
  ASSUME TypeOK, MarkInv, HasStage
  PROVE  /\ Stage \in StageSet /\ Current.mark \in Marks
         /\ Current.mark \in DOMAIN Current.stages
<1>1. Current \in TraceSet /\ Len(traces) \in DOMAIN traces /\ Current = traces[Len(traces)]
  BY CurrentTrace DEF HasStage
<1>2. Current.mark \in DOMAIN Current.stages
  BY <1>1 DEF MarkInv, HasStage
<1>3. Current.stages \in Partial(Marks, StageSet)
  BY <1>1 DEF TraceSet, Stages
<1>q. QED BY <1>2, <1>3, PartialValue DEF Stage

\* SetCurrent replaces the last trace, ReplaceAt one of them.
LEMMA Replaced ==
  ASSUME TypeOK, NEW i \in DOMAIN traces, NEW t \in TraceSet,
         traces' = [traces EXCEPT ![i] = t]
  PROVE  /\ traces' \in Seq(TraceSet) /\ Len(traces') = Len(traces)
         /\ DOMAIN traces' = DOMAIN traces
         /\ traces'[i] = t
         /\ \A k \in DOMAIN traces : k # i => traces'[k] = traces[k]
  BY DEF TypeOK

-----------------------------------------------------------------------------
(* What the records do to the traces *)

\* A step leaves alone what identifies trace i and what links it.
SameShape(i) == /\ traces'[i].id = traces[i].id
                /\ traces'[i].links = traces[i].links
                /\ traces'[i].up = traces[i].up

\* A step that changes neither the machine code of the traces nor their links.
Kept == /\ traces' \in Seq(TraceSet) /\ MarkInv'
        /\ Len(traces') = Len(traces)
        /\ \A i \in DOMAIN traces : SameShape(i) /\ AsmOps(i)' = AsmOps(i)

LEMMA UnchangedKept == ASSUME TypeOK, MarkInv, UNCHANGED traces PROVE Kept
  BY DEF TypeOK, MarkInv, Kept, SameShape, AsmOps

\* A parser that writes to the current stage of the current trace, and to its
\* lines, leaves the other traces, and the other stages, alone.
LEMMA StageWritten ==
  ASSUME TypeOK, MarkInv, HasStage, NEW s \in StageSet, NEW ls \in Seq(Lines),
         NEW t, SetCurrent(t),
         t = [Current EXCEPT !.stages = [Current.stages EXCEPT ![Current.mark] = s],
                             !.lines = ls]
  PROVE  /\ traces' \in Seq(TraceSet) /\ MarkInv' /\ Len(traces') = Len(traces)
         /\ \A i \in DOMAIN traces :
              /\ SameShape(i)
              /\ AsmOps(i)' = IF i = Len(traces) /\ Current.mark = "asm"
                             THEN s.ops ELSE AsmOps(i)
<1> DEFINE ss == [Current.stages EXCEPT ![Current.mark] = s]
<1>1. Current \in TraceSet /\ Len(traces) \in DOMAIN traces /\ Current = traces[Len(traces)]
  BY CurrentTrace DEF HasStage
<1>2. Current.mark \in Marks /\ Current.mark \in DOMAIN Current.stages
  BY CurrentStage
<1>3. Current.stages \in Partial(Marks, StageSet)
  BY <1>1 DEF TraceSet, Stages
<1>4. ss \in Stages /\ DOMAIN ss = DOMAIN Current.stages
  BY <1>2, <1>3, PartialExcept DEF Stages
<1>5. /\ ss[Current.mark] = s
      /\ \A m \in DOMAIN Current.stages : m # Current.mark => ss[m] = Current.stages[m]
  BY <1>2
<1>6. t = [Current EXCEPT !.stages = ss, !.lines = ls]
  OBVIOUS
<1> HIDE DEF ss
<1>7. /\ t \in TraceSet /\ t.stages = ss /\ t.mark = Current.mark
      /\ t.id = Current.id /\ t.links = Current.links /\ t.up = Current.up
  BY <1>1, <1>4, <1>6 DEF TraceSet
<1>8. traces' = [traces EXCEPT ![Len(traces)] = t]
  BY DEF SetCurrent, ReplaceAt
<1>9. /\ traces' \in Seq(TraceSet) /\ Len(traces') = Len(traces)
      /\ DOMAIN traces' = DOMAIN traces
      /\ traces'[Len(traces)] = t
      /\ \A k \in DOMAIN traces : k # Len(traces) => traces'[k] = traces[k]
  BY <1>1, <1>7, <1>8, Replaced
<1>10. MarkInv'
  BY <1>1, <1>2, <1>4, <1>7, <1>9 DEF MarkInv
<1>11. ASSUME NEW i \in DOMAIN traces
      PROVE  /\ SameShape(i)
             /\ AsmOps(i)' = IF i = Len(traces) /\ Current.mark = "asm"
                            THEN s.ops ELSE AsmOps(i)
  <2>1. CASE i # Len(traces)
    BY <1>9, <2>1 DEF SameShape, AsmOps
  <2>2. CASE i = Len(traces)
    <3>1. traces'[i] = t /\ traces[i] = Current
      BY <1>1, <1>9, <2>2
    <3>2. SameShape(i)
      BY <1>7, <3>1 DEF SameShape
    <3>3. AsmOps(i)' = IF "asm" \in DOMAIN ss THEN ss["asm"].ops ELSE <<>>
      BY <1>7, <3>1 DEF AsmOps
    <3>4. AsmOps(i) = IF "asm" \in DOMAIN Current.stages
                      THEN Current.stages["asm"].ops ELSE <<>>
      BY <3>1 DEF AsmOps
    <3>5. CASE Current.mark = "asm"
      BY <1>2, <1>4, <1>5, <2>2, <3>2, <3>3, <3>5
    <3>6. CASE Current.mark # "asm"
      BY <1>4, <1>5, <3>2, <3>3, <3>4, <3>6
    <3>q. QED BY <3>5, <3>6
  <2>q. QED BY <2>1, <2>2
<1>q. QED BY <1>9, <1>10, <1>11

LEMMA StageOps ==
  ASSUME TypeOK, MarkInv, HasStage, Current.mark = "asm"
  PROVE  AsmOps(Len(traces)) = Stage.ops
<1>1. Current = traces[Len(traces)] /\ Current.mark \in DOMAIN Current.stages
  BY CurrentTrace, CurrentStage DEF HasStage
<1>q. QED BY <1>1 DEF AsmOps, Stage

\* start_mark begins an empty stage, or goes on with the one there is.
LEMMA StartMarkKept ==
  ASSUME TypeOK, MarkInv, Started, NEW mark \in Marks, StartMark(mark)
  PROVE  Kept
<1>1. Current \in TraceSet /\ Len(traces) \in DOMAIN traces /\ Current = traces[Len(traces)]
  BY CurrentTrace
<1>2. CASE mark = "noopt" /\ Current.mark = "noopt"
  BY <1>2, UnchangedKept DEF StartMark
<1>3. CASE ~(mark = "noopt" /\ Current.mark = "noopt")
  <2> DEFINE ss == IF mark \in DOMAIN Current.stages THEN Current.stages
                   ELSE Put(Current.stages, mark, NewStage)
             t == [Current EXCEPT !.mark = mark, !.stages = ss]
  <2>1. NewStage \in StageSet /\ NewStage.ops = <<>>
    BY DEF NewStage, StageSet, Types
  <2>2. Current.stages \in Partial(Marks, StageSet)
    BY <1>1 DEF TraceSet, Stages
  <2>3. /\ ss \in Stages /\ mark \in DOMAIN ss
        /\ DOMAIN ss = DOMAIN Current.stages \cup {mark}
        /\ \A m \in DOMAIN Current.stages : ss[m] = Current.stages[m]
        /\ mark \notin DOMAIN Current.stages => ss[mark].ops = <<>>
    <3>1. CASE mark \in DOMAIN Current.stages
      BY <2>2, <3>1 DEF Stages
    <3>2. CASE mark \notin DOMAIN Current.stages
      <4>1. ss = Put(Current.stages, mark, NewStage)
        BY <3>2
      <4> HIDE DEF ss
      <4>2. ASSUME NEW f, f = Current.stages
           PROVE  /\ Put(f, mark, NewStage) \in Partial(Marks, StageSet)
                  /\ DOMAIN Put(f, mark, NewStage) = DOMAIN f \cup {mark}
                  /\ Put(f, mark, NewStage)[mark] = NewStage
                  /\ \A m \in DOMAIN f : m # mark => Put(f, mark, NewStage)[m] = f[m]
        <5>1. f \in Partial(Marks, StageSet) /\ NewStage \in StageSet
          BY <2>1, <2>2, <4>2
        <5> HIDE DEF t
        <5>q. QED BY <5>1, PutPartial
      <4>q. QED BY <2>1, <3>2, <4>1, <4>2 DEF Stages
    <3>q. QED BY <3>1, <3>2
  <2>4. SetCurrent(t)
    BY <1>3 DEF StartMark
  <2> HIDE DEF ss
  <2>5. /\ t \in TraceSet /\ t.stages = ss /\ t.mark = mark
        /\ t.id = Current.id /\ t.links = Current.links /\ t.up = Current.up
    BY <1>1, <2>3 DEF TraceSet, MarksOrNone
  <2> HIDE DEF t
  <2>6. traces' = [traces EXCEPT ![Len(traces)] = t]
    BY <2>4 DEF SetCurrent, ReplaceAt
  <2>7. /\ traces' \in Seq(TraceSet) /\ Len(traces') = Len(traces)
        /\ DOMAIN traces' = DOMAIN traces
        /\ traces'[Len(traces)] = t
        /\ \A k \in DOMAIN traces : k # Len(traces) => traces'[k] = traces[k]
    BY <1>1, <2>5, <2>6, Replaced
  <2>8. MarkInv'
    BY <2>3, <2>5, <2>7 DEF MarkInv
  <2>9. ASSUME NEW i \in DOMAIN traces
       PROVE  SameShape(i) /\ AsmOps(i)' = AsmOps(i)
    <3>1. CASE i # Len(traces)
      BY <2>7, <3>1 DEF SameShape, AsmOps
    <3>2. CASE i = Len(traces)
      BY <1>1, <2>3, <2>5, <2>7, <3>2 DEF SameShape, AsmOps
    <3>q. QED BY <3>1, <3>2
  <2>q. QED BY <2>7, <2>8, <2>9 DEF Kept
<1>q. QED BY <1>2, <1>3

LEMMA StageSetTo ==
  ASSUME TypeOK, MarkInv, HasStage, NEW s \in StageSet, SetStage(s)
  PROVE  /\ traces' \in Seq(TraceSet) /\ MarkInv' /\ Len(traces') = Len(traces)
         /\ \A i \in DOMAIN traces :
              /\ SameShape(i)
              /\ AsmOps(i)' = IF i = Len(traces) /\ Current.mark = "asm"
                             THEN s.ops ELSE AsmOps(i)
<1> DEFINE ss == [Current.stages EXCEPT ![Current.mark] = s]
           t  == [Current EXCEPT !.stages = ss]
           u  == [Current EXCEPT !.stages = ss, !.lines = Current.lines]
<1>1. Current \in TraceSet
  BY CurrentTrace DEF HasStage
<1>2. t = u
  <2> HIDE DEF ss
  <2>q. QED BY <1>1 DEF TraceSet
<1>3. SetCurrent(t)
  BY DEF SetStage
<1>4. Current.lines \in Seq(Lines)
  BY <1>1 DEF TraceSet
<1> HIDE DEF t
<1>5. t = [Current EXCEPT !.stages = [Current.stages EXCEPT ![Current.mark] = s],
                          !.lines = Current.lines]
  BY <1>2
<1>q. QED BY <1>3, <1>4, <1>5, StageWritten

\* The records of merge points write to the stage, not to its operations.
LEMMA InitMergePointKept ==
  ASSUME TypeOK, MarkInv, InitMergePoint PROVE Kept
<1>1. CASE ~HasStage
  BY <1>1, UnchangedKept DEF InitMergePoint, Parse, Raise, forest
<1>2. CASE HasStage
  <2> DEFINE s == [Stage EXCEPT !.types = "init"]
  <2>1. SetStage(s)
    BY <1>2 DEF InitMergePoint, Parse
  <2>2. s \in StageSet /\ s.ops = Stage.ops
    BY <1>2, CurrentStage DEF StageSet, Types
  <2> HIDE DEF s
  <2>q. QED BY <1>2, <2>1, <2>2, StageSetTo, StageOps DEF Kept
<1>q. QED BY <1>1, <1>2

LEMMA CommonPrefixKept ==
  ASSUME TypeOK, MarkInv, CommonPrefix PROVE Kept
<1>1. CASE ~(HasStage /\ Stage.types # "none")
  BY <1>1, UnchangedKept DEF CommonPrefix, Parse, Raise, forest
<1>2. CASE HasStage /\ Stage.types # "none"
  <2> DEFINE s == [Stage EXCEPT !.types = "prefixed"]
  <2>1. SetStage(s)
    BY <1>2 DEF CommonPrefix, Parse
  <2>2. s \in StageSet /\ s.ops = Stage.ops
    BY <1>2, CurrentStage DEF StageSet, Types
  <2> HIDE DEF s
  <2>q. QED BY <1>2, <2>1, <2>2, StageSetTo, StageOps DEF Kept
<1>q. QED BY <1>1, <1>2

LEMMA MergePointKept ==
  ASSUME TypeOK, MarkInv, NEW line \in Lines, NEW c \in BOOLEAN, MergePoint(line, c)
  PROVE  Kept
<1> DEFINE ok == HasStage /\ Stage.types # "none" /\ (c => Stage.types = "prefixed")
<1>1. CASE ~ok
  BY <1>1, UnchangedKept DEF MergePoint, Parse, Raise, forest
<1>2. CASE ok
  <2> DEFINE s  == [Stage EXCEPT !.points = Stage.points + 1]
             ls == Append(Current.lines, line)
             t  == [Current EXCEPT !.stages = [Current.stages EXCEPT ![Current.mark] = s],
                                   !.lines = ls]
  <2>1. SetCurrent(t)
    BY <1>2 DEF MergePoint, Parse, Stage
  <2>2. Current \in TraceSet
    BY <1>2, CurrentTrace DEF HasStage
  <2>3. ls \in Seq(Lines)
    BY <2>2 DEF TraceSet
  <2>4. s \in StageSet /\ s.ops = Stage.ops
    BY <1>2, CurrentStage DEF StageSet
  <2> HIDE DEF s, ls
  <2>5. t = [Current EXCEPT !.stages = [Current.stages EXCEPT ![Current.mark] = s],
                            !.lines = ls]
    OBVIOUS
  <2> HIDE DEF t
  <2>q. QED BY <1>2, <2>1, <2>3, <2>4, <2>5, StageWritten, StageOps DEF Kept
<1>q. QED BY <1>1, <1>2

\* A counter belongs to one trace, and is all that a counter record changes.
LEMMA TraceCounted ==
  ASSUME TypeOK, MarkInv, NEW i \in DOMAIN traces, NEW t \in TraceSet,
         traces' = [traces EXCEPT ![i] = t],
         t.id = traces[i].id, t.mark = traces[i].mark, t.stages = traces[i].stages,
         t.links = traces[i].links, t.up = traces[i].up
  PROVE  Kept
<1>1. /\ traces' \in Seq(TraceSet) /\ Len(traces') = Len(traces)
      /\ DOMAIN traces' = DOMAIN traces /\ traces'[i] = t
      /\ \A k \in DOMAIN traces : k # i => traces'[k] = traces[k]
  BY Replaced
<1>2. MarkInv'
  BY <1>1 DEF MarkInv
<1>3. ASSUME NEW k \in DOMAIN traces PROVE SameShape(k) /\ AsmOps(k)' = AsmOps(k)
  BY <1>1 DEF SameShape, AsmOps
<1>q. QED BY <1>1, <1>2, <1>3 DEF Kept

\* The traces that points and addresses name are in the forest.
KnownInv == /\ \A d \in DOMAIN points : Known(points[d].trace)
            /\ \A a \in DOMAIN addrs : Known(addrs[a])

LEMMA KnownIndex ==
  ASSUME NEW id, Known(id)
  PROVE  IndexOf(id) \in DOMAIN traces /\ traces[IndexOf(id)].id = id
  BY DEF Known, IndexOf

LEMMA JitlogCounterKept ==
  ASSUME TypeOK, MarkInv, KnownInv, NEW key \in Ids \cup Descrs, NEW type,
         JitlogCounter(key, type)
  PROVE  Kept /\ UNCHANGED points
<1>0. UNCHANGED points
  BY DEF JitlogCounter
<1>1. ASSUME NEW i \in DOMAIN traces,
             traces' = [traces EXCEPT ![i] = [traces[i] EXCEPT !.counter = @ + 1]]
     PROVE  Kept
  <2> DEFINE c == traces[i].counter + 1
             t == [traces[i] EXCEPT !.counter = c]
  <2>1. traces[i] \in TraceSet
    BY DEF TypeOK
  <2>c. c \in Nat
    BY <2>1 DEF TraceSet
  <2>3. traces' = [traces EXCEPT ![i] = t]
    BY <1>1
  <2> HIDE DEF c
  <2>2. /\ t \in TraceSet /\ t.id = traces[i].id /\ t.mark = traces[i].mark
        /\ t.stages = traces[i].stages /\ t.links = traces[i].links
        /\ t.up = traces[i].up
    BY <2>1, <2>c DEF TraceSet
  <2> HIDE DEF t
  <2>q. QED BY <2>2, <2>3, TraceCounted
<1>2. ASSUME NEW i \in DOMAIN traces, NEW n \in Nat,
             traces' = [traces EXCEPT ![i] = [traces[i] EXCEPT !.counts = AddTo(@, n, 1)]]
     PROVE  Kept
  <2> DEFINE cs == AddTo(traces[i].counts, n, 1)
             t  == [traces[i] EXCEPT !.counts = cs]
  <2>1. traces[i] \in TraceSet
    BY DEF TypeOK
  <2>2. cs \in Partial(Nat, Nat)
    BY <2>1, AddToPartial DEF TraceSet
  <2>3. traces' = [traces EXCEPT ![i] = t]
    BY <1>2
  <2> HIDE DEF cs
  <2>4. /\ t \in TraceSet /\ t.id = traces[i].id /\ t.mark = traces[i].mark
        /\ t.stages = traces[i].stages /\ t.links = traces[i].links
        /\ t.up = traces[i].up
    BY <2>1, <2>2 DEF TraceSet
  <2> HIDE DEF t
  <2>q. QED BY <2>3, <2>4, TraceCounted
<1>3. CASE Known(key)
  BY <1>1, <1>3, KnownIndex DEF JitlogCounter
<1>4. CASE ~Known(key) /\ (type = "e" \/ key \notin DOMAIN points)
  BY <1>4, UnchangedKept DEF JitlogCounter
<1>5. CASE ~Known(key) /\ ~(type = "e" \/ key \notin DOMAIN points)
  <2>1. points[key] \in Point
    BY <1>5, PartialValue DEF TypeOK
  <2>2. points[key].inc \in Nat
    BY <2>1 DEF Point
  <2>3. IndexOf(points[key].trace) \in DOMAIN traces
    BY <1>5, KnownIndex DEF KnownInv
  <2>4. CASE type = "b"
    BY <1>1, <1>5, <2>3, <2>4 DEF JitlogCounter
  <2>5. CASE type # "b" /\ points[key].inc = NoInc
    BY <1>5, <2>5, UnchangedKept DEF JitlogCounter
  <2>6. CASE type # "b" /\ points[key].inc # NoInc
    BY <1>2, <1>5, <2>2, <2>3, <2>6 DEF JitlogCounter
  <2>q. QED BY <2>4, <2>5, <2>6
<1>q. QED BY <1>0, <1>3, <1>4, <1>5

\* A new trace has no stage and no link.
LEMMA StartTraceAdds ==
  ASSUME TypeOK, MarkInv, NEW id \in Ids, NEW type \in {"loop", "bridge"},
         traces' = Append(traces, NewTrace(id, type))
  PROVE  /\ traces' \in Seq(TraceSet) /\ MarkInv' /\ Len(traces') = Len(traces) + 1
         /\ \A i \in DOMAIN traces : SameShape(i) /\ AsmOps(i)' = AsmOps(i)
         /\ traces'[Len(traces) + 1].id = id
         /\ traces'[Len(traces) + 1].links = <<>>
         /\ traces'[Len(traces) + 1].up = <<>>
         /\ \A i : i = Len(traces) + 1 => AsmOps(i)' = <<>>
<1> DEFINE t == NewTrace(id, type)
<1>1. << >> \in Partial(Marks, StageSet) /\ << >> \in Partial(Nat, Nat) /\ DOMAIN << >> = {}
  BY EmptyPartial
<1>2. /\ t \in TraceSet /\ t.id = id /\ t.mark = NoMark /\ t.stages = << >>
      /\ t.links = <<>> /\ t.up = <<>>
  BY <1>1 DEF NewTrace, TraceSet, MarksOrNone, Stages, NoMark
<1> HIDE DEF t
<1>3. traces' = Append(traces, t)
  BY DEF t
<1>4. /\ traces' \in Seq(TraceSet) /\ Len(traces') = Len(traces) + 1
      /\ traces'[Len(traces) + 1] = t
      /\ DOMAIN traces' = DOMAIN traces \cup {Len(traces) + 1}
      /\ \A k \in DOMAIN traces : traces'[k] = traces[k]
  BY <1>2, <1>3 DEF TypeOK
<1>5. MarkInv'
  BY <1>2, <1>4 DEF MarkInv
<1>6. ASSUME NEW k \in DOMAIN traces PROVE SameShape(k) /\ AsmOps(k)' = AsmOps(k)
  BY <1>4 DEF SameShape, AsmOps
<1>7. ASSUME NEW i, i = Len(traces) + 1 PROVE AsmOps(i)' = <<>>
  <2>1. "asm" \notin DOMAIN traces'[i].stages
    BY <1>1, <1>2, <1>4, <1>7
  <2>q. QED BY <2>1 DEF AsmOps
<1>q. QED BY <1>2, <1>4, <1>5, <1>6, <1>7

\* A link is written in two places: to the trace it leads from and to the one it
\* leads to, which may be the same.
LEMMA LinkAdds ==
  ASSUME TypeOK, MarkInv, KnownInv,
         NEW d \in DOMAIN points, NEW to \in Ids, Known(to), Link(d, to)
  PROVE  /\ traces' \in Seq(TraceSet) /\ MarkInv' /\ Len(traces') = Len(traces)
         /\ \A i \in DOMAIN traces :
              /\ traces'[i].id = traces[i].id /\ AsmOps(i)' = AsmOps(i)
              /\ traces'[i].links =
                   IF i = IndexOf(points[d].trace)
                   THEN Append(traces[i].links, [descr |-> d, trace |-> to])
                   ELSE traces[i].links
              /\ traces'[i].up =
                   IF i = IndexOf(to)
                   THEN Append(traces[i].up, [trace |-> points[d].trace, at |-> points[d].at])
                   ELSE traces[i].up
<1> DEFINE f == IndexOf(points[d].trace)
           t == IndexOf(to)
           l == [descr |-> d, trace |-> to]
           u == [trace |-> points[d].trace, at |-> points[d].at]
           ls == Append(traces[f].links, l)
           one == [traces[f] EXCEPT !.links = ls]
           down == [traces EXCEPT ![f] = one]
           us == Append(down[t].up, u)
           two == [down[t] EXCEPT !.up = us]
<1>1. f \in DOMAIN traces /\ t \in DOMAIN traces
  BY KnownIndex DEF KnownInv
<1>2. d \in Descrs /\ points[d] \in Point
  BY PartialValue DEF TypeOK
<1>3. l \in Down /\ u \in Up
  BY <1>2 DEF Down, Up, Point
<1>4. traces' = [down EXCEPT ![t] = two]
  BY DEF Link
<1> HIDE DEF f, t, l, u
<1>5. traces[f] \in TraceSet /\ DOMAIN traces = 1..Len(traces)
  BY <1>1 DEF TypeOK
<1>6. ls \in Seq(Down)
  BY <1>3, <1>5 DEF TraceSet
<1>7. /\ one \in TraceSet /\ one.id = traces[f].id /\ one.mark = traces[f].mark
      /\ one.stages = traces[f].stages /\ one.up = traces[f].up
      /\ one.links = ls
  <2> HIDE DEF ls
  <2>q. QED BY <1>5, <1>6 DEF TraceSet
<1> HIDE DEF one
<1>8. /\ down \in Seq(TraceSet) /\ Len(down) = Len(traces)
      /\ DOMAIN down = DOMAIN traces /\ down[f] = one
      /\ \A k \in DOMAIN traces : k # f => down[k] = traces[k]
  BY <1>1, <1>7 DEF TypeOK
<1> HIDE DEF down
<1>9. down[t] \in TraceSet
  BY <1>1, <1>5, <1>8
<1>10. us \in Seq(Up)
  BY <1>3, <1>9 DEF TraceSet
<1>11. /\ two \in TraceSet /\ two.id = down[t].id /\ two.mark = down[t].mark
       /\ two.stages = down[t].stages /\ two.links = down[t].links
       /\ two.up = us
  <2> HIDE DEF us
  <2>q. QED BY <1>9, <1>10 DEF TraceSet
<1> HIDE DEF two
<1>12. /\ traces' \in Seq(TraceSet) /\ Len(traces') = Len(traces)
       /\ DOMAIN traces' = DOMAIN traces /\ traces'[t] = two
       /\ \A k \in DOMAIN traces : k # t => traces'[k] = down[k]
  BY <1>1, <1>4, <1>8, <1>11
<1>13. \A k \in DOMAIN traces :
         /\ down[k].id = traces[k].id /\ down[k].mark = traces[k].mark
         /\ down[k].stages = traces[k].stages /\ down[k].up = traces[k].up
         /\ down[k].links = IF k = f THEN Append(traces[k].links, l) ELSE traces[k].links
  BY <1>7, <1>8
<1>14. \A k \in DOMAIN traces :
         /\ traces'[k].id = traces[k].id /\ traces'[k].mark = traces[k].mark
         /\ traces'[k].stages = traces[k].stages
         /\ traces'[k].links = IF k = f THEN Append(traces[k].links, l) ELSE traces[k].links
         /\ traces'[k].up = IF k = t THEN Append(traces[k].up, u) ELSE traces[k].up
  BY <1>11, <1>12, <1>13
<1>15. MarkInv'
  BY <1>12, <1>14 DEF MarkInv
<1>16. \A k \in DOMAIN traces : AsmOps(k)' = AsmOps(k)
  BY <1>14 DEF AsmOps
<1>q. QED BY <1>12, <1>14, <1>15, <1>16 DEF f, t, l, u

-----------------------------------------------------------------------------
(* Operations *)

\* An operation is written at the end of its stage; in the machine code its descr
\* becomes a point if it was not one, and points keep their place.
LEMMA ResopAdds ==
  ASSUME TypeOK, MarkInv, NEW op \in Ops, Resop(op), known, HasStage
  PROVE  /\ traces' \in Seq(TraceSet) /\ MarkInv' /\ Len(traces') = Len(traces)
         /\ \A i \in DOMAIN traces :
              /\ SameShape(i)
              /\ AsmOps(i)' = IF i = Len(traces) /\ Current.mark = "asm"
                             THEN Append(AsmOps(i), op) ELSE AsmOps(i)
         /\ points' \in Partial(Descrs, Point)
         /\ DOMAIN points' = DOMAIN points
              \cup (IF Current.mark = "asm" /\ op.descr # NoDescr THEN {op.descr} ELSE {})
         /\ \A d \in DOMAIN points :
              points'[d].trace = points[d].trace /\ points'[d].at = points[d].at
         /\ Current.mark = "asm" /\ op.descr # NoDescr /\ op.descr \notin DOMAIN points
              => /\ points'[op.descr].trace = Current.id
                 /\ points'[op.descr].at = Len(AsmOps(Len(traces))) + 1
<1> DEFINE os == Append(Stage.ops, op)
           s == [Stage EXCEPT !.ops = os]
           reg == Registered(op)
<1>1. Stage \in StageSet /\ Current \in TraceSet
  BY CurrentStage, CurrentTrace DEF HasStage
<1>2. s \in StageSet /\ s.ops = os
  <2>1. os \in Seq(Ops)
    BY <1>1 DEF StageSet
  <2> HIDE DEF os
  <2>q. QED BY <1>1, <2>1 DEF StageSet
<1>3. SetStage(s) /\ points' = Counted(op, reg)
  BY DEF Resop
<1>4. op.descr \in Descrs \cup {NoDescr}
  BY DEF Ops
<1> HIDE DEF s
<1>5. /\ traces' \in Seq(TraceSet) /\ MarkInv' /\ Len(traces') = Len(traces)
      /\ \A i \in DOMAIN traces :
           /\ SameShape(i)
           /\ AsmOps(i)' = IF i = Len(traces) /\ Current.mark = "asm"
                          THEN Append(AsmOps(i), op) ELSE AsmOps(i)
  BY <1>2, <1>3, StageSetTo, StageOps
<1> DEFINE new == Current.mark = "asm" /\ op.descr # NoDescr
           p == [trace |-> Current.id, at |-> Len(Stage.ops) + 1, inc |-> NoInc]
<1>6. p \in Point
  BY <1>1 DEF Point, TraceSet, StageSet, NoInc
<1>7. /\ reg \in Partial(Descrs, Point)
      /\ DOMAIN reg = DOMAIN points \cup (IF new THEN {op.descr} ELSE {})
      /\ \A d \in DOMAIN points : reg[d] = points[d]
      /\ new /\ op.descr \notin DOMAIN points => reg[op.descr] = p
  <2>1. CASE new /\ op.descr \notin DOMAIN points
    <3>1. reg = Put(points, op.descr, p)
      BY <2>1 DEF Registered
    <3>2. op.descr \in Descrs
      BY <1>4, <2>1
    <3>3. points \in Partial(Descrs, Point)
      BY DEF TypeOK
    <3> HIDE DEF reg, p
    <3>4. /\ Put(points, op.descr, p) \in Partial(Descrs, Point)
          /\ DOMAIN Put(points, op.descr, p) = DOMAIN points \cup {op.descr}
          /\ Put(points, op.descr, p)[op.descr] = p
          /\ \A d \in DOMAIN points :
               d # op.descr => Put(points, op.descr, p)[d] = points[d]
      BY <1>6, <3>2, <3>3, PutPartial
    <3>q. QED BY <2>1, <3>1, <3>4
  <2>2. CASE ~(new /\ op.descr \notin DOMAIN points)
    <3>1. reg = points
      BY <2>2 DEF Registered
    <3> HIDE DEF reg
    <3>q. QED BY <2>2, <3>1 DEF TypeOK
  <2>q. QED BY <2>1, <2>2
<1> HIDE DEF reg
<1>8. /\ points' \in Partial(Descrs, Point) /\ DOMAIN points' = DOMAIN reg
      /\ \A d \in DOMAIN reg :
           points'[d].trace = reg[d].trace /\ points'[d].at = reg[d].at
  <2>1. CASE points' = reg
    BY <1>7, <2>1
  <2>2. CASE points' # reg
    <3> DEFINE b == Last(Stage.ops).descr
               n == Len(Stage.ops) + 1
               q == [reg[b] EXCEPT !.inc = n]
    <3>1. b \in DOMAIN reg /\ points' = [reg EXCEPT ![b] = q]
      BY <1>3, <2>2 DEF Counted
    <3>2. n \in Nat
      BY <1>1 DEF StageSet
    <3> HIDE DEF b, n
    <3>3. reg[b] \in Point
      BY <1>7, <3>1, PartialValue
    <3>4. q \in Point /\ q.trace = reg[b].trace /\ q.at = reg[b].at
      BY <3>2, <3>3 DEF Point
    <3> HIDE DEF q
    <3>5. points' \in Partial(Descrs, Point) /\ DOMAIN points' = DOMAIN reg
      BY <1>7, <3>1, <3>4, PartialExcept
    <3>q. QED BY <3>1, <3>4, <3>5
  <2>q. QED BY <2>1, <2>2
<1>9. new => Len(Stage.ops) = Len(AsmOps(Len(traces)))
  BY StageOps
<1>q. QED BY <1>5, <1>7, <1>8, <1>9

-----------------------------------------------------------------------------
(* The invariant of the forest *)

\* add_trace is called once for an id.
Distinct == \A i, j \in DOMAIN traces : traces[i].id = traces[j].id => i = j

\* A descr of the machine code is a point, and a point is the first operation with
\* its descr.
FirstInv ==
  /\ \A i \in DOMAIN traces, d \in Descrs : \A j : Has(i, j, d) => d \in DOMAIN points
  /\ \A d \in DOMAIN points : \E i \in DOMAIN traces :
       /\ traces[i].id = points[d].trace
       /\ Has(i, points[d].at, d)
       /\ \A k \in DOMAIN traces : \A j :
            Has(k, j, d) => k > i \/ (k = i /\ j >= points[d].at)

\* A link leads to a trace of the forest; a link up leads to an operation of the
\* parent with the descr of a link down to the trace.
LinkInv ==
  /\ \A i \in DOMAIN traces : \A m \in DOMAIN traces[i].links :
       Known(traces[i].links[m].trace)
  /\ \A i \in DOMAIN traces : \A n \in DOMAIN traces[i].up :
       \E p \in DOMAIN traces : \E m \in DOMAIN traces[p].links :
         /\ traces[p].id = traces[i].up[n].trace
         /\ traces[p].links[m].trace = traces[i].id
         /\ Has(p, traces[i].up[n].at, traces[p].links[m].descr)

PairInv == \A i, j \in DOMAIN traces :
             Count(traces[i].links, traces[j].id) = Count(traces[j].up, traces[i].id)

ForestInv == TypeOK /\ MarkInv /\ Distinct /\ KnownInv /\ FirstInv /\ LinkInv /\ PairInv

\* What a step can do to the forest.
Keeping  == /\ Kept /\ UNCHANGED points
            /\ addrs' \in Partial(Addrs, Ids)
            /\ \A a \in DOMAIN addrs' : Known(addrs'[a])
Starting == /\ UNCHANGED <<points, addrs>>
            /\ \E id \in Ids, type \in {"loop", "bridge"} :
                 ~Known(id) /\ traces' = Append(traces, NewTrace(id, type))
Writing  == /\ UNCHANGED addrs
            /\ \E op \in Ops : known /\ HasStage /\ Resop(op)
Linking  == /\ UNCHANGED <<points, addrs>>
            /\ \E d \in DOMAIN points, to \in Ids : Known(to) /\ Link(d, to)

LEMMA UnchangedKeeps ==
  ASSUME TypeOK, MarkInv, KnownInv, UNCHANGED <<traces, points, addrs>>
  PROVE  Keeping
  BY UnchangedKept DEF Keeping, TypeOK, KnownInv

LEMMA StepCases ==
  ASSUME TypeOK, MarkInv, KnownInv, Next
  PROVE  Keeping \/ Starting \/ Writing \/ Linking
<1> USE DEF forest, Parse, Raise
<1>0. ASSUME Kept, UNCHANGED <<points, addrs>> PROVE Keeping
  BY <1>0 DEF Keeping, TypeOK, KnownInv
<1>1. CASE Malformed \/ ResopMeta \/ AsmDump \/ Skipped \/ Upload \/ SourceCode({FirstLine})
  BY <1>1, UnchangedKeeps
     DEF Malformed, ResopMeta, AsmDump, Skipped, Upload, SourceCode
<1>2. CASE InitMergePoint
  BY <1>0, <1>2, InitMergePointKept DEF InitMergePoint
<1>3. CASE CommonPrefix
  BY <1>0, <1>3, CommonPrefixKept DEF CommonPrefix
<1>4. ASSUME NEW id \in Ids, NEW type \in {"loop", "bridge"}, StartTrace(id, type)
     PROVE  Keeping \/ Starting
  BY <1>4, UnchangedKeeps DEF StartTrace, Starting
<1>5. ASSUME NEW id \in Ids, NEW mark \in Marks, TraceMark(id, mark)
     PROVE  Keeping
  <2>1. CASE Started /\ id = Current.id
    BY <1>0, <1>5, <2>1, StartMarkKept DEF TraceMark
  <2>2. CASE ~(Started /\ id = Current.id)
    BY <1>5, <2>2, UnchangedKeeps DEF TraceMark
  <2>q. QED BY <2>1, <2>2
<1>6. ASSUME NEW id \in Ids, NEW d \in Descrs, RedirectAssembler(d, id)
     PROVE  Keeping \/ Linking
  BY <1>6, UnchangedKeeps DEF RedirectAssembler, Linking
<1>7. ASSUME NEW op \in Ops, Resop(op)
     PROVE  Keeping \/ Writing
  BY <1>7, UnchangedKeeps DEF Resop, Writing
<1>8. ASSUME NEW a \in Addrs, AsmAddr(a)
     PROVE  Keeping
  <2>1. CASE Started
    <3>1. addrs' = Put(addrs, a, Current.id) /\ UNCHANGED <<traces, points>>
      BY <1>8, <2>1 DEF AsmAddr
    <3>2. Current.id \in Ids /\ Known(Current.id)
      BY <2>1, CurrentTrace DEF TraceSet, Known
    <3>3. addrs \in Partial(Addrs, Ids)
      BY DEF TypeOK
    <3>4. PICK y \in Ids : y = Current.id
      BY <3>2
    <3>6. /\ Put(addrs, a, y) \in Partial(Addrs, Ids)
          /\ DOMAIN Put(addrs, a, y) = DOMAIN addrs \cup {a}
          /\ Put(addrs, a, y)[a] = y
          /\ \A z \in DOMAIN addrs : z # a => Put(addrs, a, y)[z] = addrs[z]
      BY <3>3, PutPartial
    <3>7. addrs' = Put(addrs, a, y) /\ Known(y)
      BY <3>1, <3>2, <3>4
    <3>5. \A z \in DOMAIN addrs' : Known(addrs'[z])
      BY <3>6, <3>7 DEF KnownInv
    <3>q. QED BY <3>1, <3>5, <3>6, <3>7, UnchangedKept DEF Keeping
  <2>2. CASE ~Started
    BY <1>8, <2>2, UnchangedKeeps DEF AsmAddr
  <2>q. QED BY <2>1, <2>2
<1>9. ASSUME NEW l \in Lines, NEW c \in BOOLEAN, MergePoint(l, c)
     PROVE  Keeping
  BY <1>0, <1>9, MergePointKept DEF MergePoint
<1>10. ASSUME NEW d \in Descrs, NEW a \in Addrs, StitchBridge(d, a)
     PROVE  Keeping \/ Linking
  <2>1. CASE a \in DOMAIN addrs /\ d \in DOMAIN points
    <3>1. addrs[a] \in Ids /\ Known(addrs[a])
      BY <2>1, PartialValue DEF TypeOK, KnownInv
    <3>q. QED BY <1>10, <2>1, <3>1 DEF StitchBridge, Linking
  <2>2. CASE ~(a \in DOMAIN addrs /\ d \in DOMAIN points)
    BY <1>10, <2>2, UnchangedKeeps DEF StitchBridge
  <2>q. QED BY <2>1, <2>2
<1>11. ASSUME NEW key \in Ids \cup Descrs, NEW type, JitlogCounter(key, type)
     PROVE  Keeping
  BY <1>0, <1>11, JitlogCounterKept DEF JitlogCounter
<1>q. QED BY <1>1, <1>2, <1>3, <1>4, <1>5, <1>6, <1>7, <1>8, <1>9, <1>10, <1>11 DEF Next

\* What was known stays known.
LEMMA KnownStays ==
  ASSUME TypeOK, traces' \in Seq(TraceSet), Len(traces') >= Len(traces),
         \A i \in DOMAIN traces : traces'[i].id = traces[i].id,
         NEW id, Known(id)
  PROVE  Known(id)'
<1>1. DOMAIN traces \subseteq DOMAIN traces'
  BY DEF TypeOK
<1>q. QED BY <1>1 DEF Known

LEMMA AsmOpsType == ASSUME TypeOK, NEW i \in DOMAIN traces PROVE AsmOps(i) \in Seq(Ops)
<1>0. traces[i] \in TraceSet
  BY DEF TypeOK
<1>1. traces[i].stages \in Partial(Marks, StageSet)
  BY <1>0 DEF TraceSet, Stages
<1>2. CASE "asm" \in DOMAIN traces[i].stages
  <2>1. traces[i].stages["asm"] \in StageSet
    BY <1>1, <1>2, PartialValue
  <2>q. QED BY <1>2, <2>1 DEF AsmOps, StageSet
<1>3. CASE "asm" \notin DOMAIN traces[i].stages
  BY <1>3 DEF AsmOps
<1>q. QED BY <1>2, <1>3

\* Counting in a sequence to which one is added.
LEMMA CountType == ASSUME NEW S, NEW s \in Seq(S), NEW id PROVE Count(s, id) \in Nat
<1>1. {k \in DOMAIN s : s[k].trace = id} \in SUBSET (1..Len(s))
  OBVIOUS
<1>2. IsFiniteSet(1..Len(s))
  BY FS_Interval
<1>q. QED BY <1>1, <1>2, FS_Subset, FS_CardinalityType DEF Count

LEMMA CountAppend ==
  ASSUME NEW S, NEW s \in Seq(S), NEW x \in S, NEW id
  PROVE  Count(Append(s, x), id) = Count(s, id) + (IF x.trace = id THEN 1 ELSE 0)
<1> DEFINE a == Append(s, x)
           old == {k \in DOMAIN s : s[k].trace = id}
           new == {k \in DOMAIN a : a[k].trace = id}
<1>1. /\ DOMAIN s = 1..Len(s) /\ DOMAIN a = DOMAIN s \cup {Len(s) + 1}
      /\ Len(s) \in Nat /\ a[Len(s) + 1] = x
      /\ \A k \in DOMAIN s : a[k] = s[k]
  OBVIOUS
<1>2. IsFiniteSet(old) /\ Cardinality(old) \in Nat
  <2>1. old \in SUBSET (1..Len(s))
    BY <1>1
  <2>2. IsFiniteSet(1..Len(s))
    BY <1>1, FS_Interval
  <2> HIDE DEF old
  <2>q. QED BY <2>1, <2>2, FS_Subset, FS_CardinalityType
<1>3. Len(s) + 1 \notin old
  BY <1>1
<1>0. Count(s, id) = Cardinality(old) /\ Count(a, id) = Cardinality(new)
  BY DEF Count
<1> HIDE DEF a
<1>4. CASE x.trace = id
  <2>1. new = old \cup {Len(s) + 1}
    BY <1>1, <1>4
  <2>2. Cardinality(new) = Cardinality(old) + 1
    <3> HIDE DEF old, new
    <3>q. QED BY <1>2, <1>3, <2>1, FS_AddElement
  <2>q. QED BY <1>0, <1>4, <2>2 DEF a
<1>5. CASE x.trace # id
  <2>1. new = old
    BY <1>1, <1>5
  <2> HIDE DEF old, new
  <2>q. QED BY <1>0, <1>2, <1>5, <2>1 DEF a
<1>q. QED BY <1>4, <1>5

LEMMA CountNone ==
  ASSUME NEW s, NEW id, \A k \in DOMAIN s : s[k].trace # id
  PROVE  Count(s, id) = 0
<1> DEFINE none == {k \in DOMAIN s : s[k].trace = id}
<1>1. none = {}
  OBVIOUS
<1>2. Count(s, id) = Cardinality(none)
  BY DEF Count
<1>3. Cardinality({}) = 0
  BY FS_EmptySet
<1> HIDE DEF none
<1>q. QED BY <1>1, <1>2, <1>3

LEMMA LinksType ==
  ASSUME TypeOK, NEW i \in DOMAIN traces
  PROVE  traces[i].links \in Seq(Down) /\ traces[i].up \in Seq(Up) /\ traces[i].id \in Ids
<1>1. traces[i] \in TraceSet
  BY DEF TypeOK
<1>q. QED BY <1>1 DEF TraceSet

-----------------------------------------------------------------------------
(* The steps keep the invariant *)

LEMMA KeepingForest == ASSUME ForestInv, Keeping PROVE ForestInv'
<1> USE DEF ForestInv
<1>1. /\ traces' \in Seq(TraceSet) /\ MarkInv' /\ Len(traces') = Len(traces)
      /\ DOMAIN traces' = DOMAIN traces /\ points' = points
      /\ \A i \in DOMAIN traces : /\ AsmOps(i)' = AsmOps(i)
                                 /\ traces'[i].id = traces[i].id
                                 /\ traces'[i].links = traces[i].links
                                 /\ traces'[i].up = traces[i].up
  BY DEF Keeping, Kept, SameShape, TypeOK
<1>2. TypeOK'
  BY <1>1 DEF TypeOK, Keeping
<1>3. Distinct'
  BY <1>1 DEF Distinct
<1>4. \A id : Known(id)' <=> Known(id)
  BY <1>1 DEF Known
<1>5. KnownInv'
  BY <1>1, <1>4 DEF KnownInv, Keeping
<1>6. \A i \in DOMAIN traces : \A j, d : Has(i, j, d)' <=> Has(i, j, d)
  BY <1>1 DEF Has
<1>7. FirstInv'
  BY <1>1, <1>6 DEF FirstInv
<1>8. LinkInv'
  <2>1. ASSUME NEW i \in DOMAIN traces, NEW m \in DOMAIN traces[i].links
       PROVE  Known(traces[i].links[m].trace)'
    <3>1. PICK id : id = traces[i].links[m].trace
      OBVIOUS
    <3>2. traces'[i].links[m].trace = id
      BY <1>1, <3>1
    <3>3. Known(id)'
      BY <1>4, <3>1 DEF LinkInv
    <3>q. QED BY <3>2, <3>3
  <2>2. ASSUME NEW i \in DOMAIN traces, NEW n \in DOMAIN traces[i].up
       PROVE  \E p \in DOMAIN traces' : \E m \in DOMAIN traces'[p].links :
                /\ traces'[p].id = traces'[i].up[n].trace
                /\ traces'[p].links[m].trace = traces'[i].id
                /\ Has(p, traces[i].up[n].at, traces[p].links[m].descr)'
    <3>1. PICK p \in DOMAIN traces : \E m \in DOMAIN traces[p].links :
                /\ traces[p].id = traces[i].up[n].trace
                /\ traces[p].links[m].trace = traces[i].id
                /\ Has(p, traces[i].up[n].at, traces[p].links[m].descr)
      BY DEF LinkInv
    <3>2. PICK m \in DOMAIN traces[p].links :
                /\ traces[p].id = traces[i].up[n].trace
                /\ traces[p].links[m].trace = traces[i].id
                /\ Has(p, traces[i].up[n].at, traces[p].links[m].descr)
      BY <3>1
    <3>3. Has(p, traces[i].up[n].at, traces[p].links[m].descr)'
      BY <1>1, <3>2 DEF Has
    <3>q. QED BY <1>1, <3>2, <3>3
  <2>q. QED BY <1>1, <2>1, <2>2 DEF LinkInv
<1>9. PairInv'
  BY <1>1 DEF PairInv
<1>q. QED BY <1>1, <1>2, <1>3, <1>5, <1>7, <1>8, <1>9

\* A new trace: nothing leads to it, nothing of it is a point.
LEMMA StartingForest == ASSUME ForestInv, Starting PROVE ForestInv'
<1> USE DEF ForestInv
<1>0. PICK id \in Ids, type \in {"loop", "bridge"} :
        ~Known(id) /\ traces' = Append(traces, NewTrace(id, type))
  BY DEF Starting
<1>n. PICK n : n = Len(traces) + 1
  OBVIOUS
<1>1. /\ traces' \in Seq(TraceSet) /\ MarkInv' /\ Len(traces') = Len(traces) + 1
      /\ DOMAIN traces' = DOMAIN traces \cup {n} /\ n \notin DOMAIN traces
      /\ \A i \in DOMAIN traces : /\ AsmOps(i)' = AsmOps(i) /\ i < n
                                 /\ traces'[i].id = traces[i].id
                                 /\ traces'[i].links = traces[i].links
                                 /\ traces'[i].up = traces[i].up
      /\ traces'[n].id = id /\ traces'[n].links = <<>> /\ traces'[n].up = <<>>
      /\ AsmOps(n)' = <<>>
  <2>1. traces \in Seq(TraceSet)
    BY DEF TypeOK
  <2>q. QED BY <1>0, <1>n, <2>1, StartTraceAdds DEF SameShape
<1>2. points' = points /\ addrs' = addrs
  BY DEF Starting
<1>3. TypeOK'
  BY <1>1, <1>2 DEF TypeOK
<1>4. \A i \in DOMAIN traces : traces[i].id # id
  BY <1>0 DEF Known
<1>5. Distinct'
  BY <1>1, <1>4 DEF Distinct
<1>6. \A x : Known(x) => Known(x)'
  BY <1>1 DEF Known
<1>7. KnownInv'
  BY <1>2, <1>6 DEF KnownInv
<1>8. \A i \in DOMAIN traces : \A j, d : Has(i, j, d)' <=> Has(i, j, d)
  BY <1>1 DEF Has
<1>9. \A j, d : ~Has(n, j, d)'
  BY <1>1 DEF Has
<1>10. FirstInv'
  <2>1. ASSUME NEW i \in DOMAIN traces', NEW d \in Descrs, NEW j, Has(i, j, d)'
       PROVE  d \in DOMAIN points'
    BY <1>1, <1>2, <1>8, <1>9, <2>1 DEF FirstInv
  <2>2. ASSUME NEW d \in DOMAIN points
       PROVE  \E i \in DOMAIN traces' :
                /\ traces'[i].id = points[d].trace
                /\ Has(i, points[d].at, d)'
                /\ \A k \in DOMAIN traces' : \A j :
                     Has(k, j, d)' => k > i \/ (k = i /\ j >= points[d].at)
    <3>1. PICK i \in DOMAIN traces :
                /\ traces[i].id = points[d].trace
                /\ Has(i, points[d].at, d)
                /\ \A k \in DOMAIN traces : \A j :
                     Has(k, j, d) => k > i \/ (k = i /\ j >= points[d].at)
      BY DEF FirstInv
    <3>2. Has(i, points[d].at, d)'
      BY <1>1, <1>2, <3>1 DEF Has
    <3>3. \A k \in DOMAIN traces' : \A j :
            Has(k, j, d)' => k > i \/ (k = i /\ j >= points[d].at)
      BY <1>1, <1>8, <1>9, <3>1
    <3>q. QED BY <1>1, <3>1, <3>2, <3>3
  <2>q. QED BY <1>2, <2>1, <2>2 DEF FirstInv
<1>11. LinkInv'
  <2>1. ASSUME NEW i \in DOMAIN traces', NEW m \in DOMAIN traces'[i].links
       PROVE  Known(traces[i].links[m].trace)'
    <3>1. i \in DOMAIN traces /\ m \in DOMAIN traces[i].links
      BY <1>1, <2>1
    <3>2. PICK x : x = traces[i].links[m].trace
      OBVIOUS
    <3>3. Known(x)' /\ traces'[i].links[m].trace = x
      BY <1>1, <1>6, <3>1, <3>2 DEF LinkInv
    <3>q. QED BY <3>3
  <2>2. ASSUME NEW i \in DOMAIN traces', NEW u \in DOMAIN traces'[i].up
       PROVE  \E p \in DOMAIN traces' : \E m \in DOMAIN traces'[p].links :
                /\ traces'[p].id = traces'[i].up[u].trace
                /\ traces'[p].links[m].trace = traces'[i].id
                /\ Has(p, traces[i].up[u].at, traces[p].links[m].descr)'
    <3>0. i \in DOMAIN traces /\ u \in DOMAIN traces[i].up
      BY <1>1, <2>2
    <3>1. PICK p \in DOMAIN traces : \E m \in DOMAIN traces[p].links :
                /\ traces[p].id = traces[i].up[u].trace
                /\ traces[p].links[m].trace = traces[i].id
                /\ Has(p, traces[i].up[u].at, traces[p].links[m].descr)
      BY <3>0 DEF LinkInv
    <3>2. PICK m \in DOMAIN traces[p].links :
                /\ traces[p].id = traces[i].up[u].trace
                /\ traces[p].links[m].trace = traces[i].id
                /\ Has(p, traces[i].up[u].at, traces[p].links[m].descr)
      BY <3>1
    <3>3. Has(p, traces[i].up[u].at, traces[p].links[m].descr)'
      BY <1>1, <3>0, <3>2 DEF Has
    <3>q. QED BY <1>1, <3>0, <3>2, <3>3
  <2>q. QED BY <2>1, <2>2 DEF LinkInv
<1>12. PairInv'
  <2>1. \A i \in DOMAIN traces : \A m \in DOMAIN traces[i].links :
          traces[i].links[m].trace # id
    BY <1>0 DEF LinkInv
  <2>2. \A i \in DOMAIN traces : \A u \in DOMAIN traces[i].up : traces[i].up[u].trace # id
    BY <1>4 DEF LinkInv
  <2>3. \A x : Count(<<>>, x) = 0
    BY CountNone
  <2>4. ASSUME NEW i \in DOMAIN traces', NEW j \in DOMAIN traces'
       PROVE  Count(traces'[i].links, traces'[j].id) = Count(traces'[j].up, traces'[i].id)
    <3>1. CASE i \in DOMAIN traces /\ j \in DOMAIN traces
      BY <1>1, <3>1 DEF PairInv
    <3>2. CASE i = n
      <4>1. CASE j = n
        BY <1>1, <2>3, <3>2, <4>1
      <4>2. CASE j # n
        <5>1. Count(traces[j].up, id) = 0
          BY <1>1, <2>2, <4>2, CountNone
        <5>q. QED BY <1>1, <2>3, <3>2, <4>2, <5>1
      <4>q. QED BY <4>1, <4>2
    <3>3. CASE i # n /\ j = n
      <4>1. Count(traces[i].links, id) = 0
        BY <1>1, <2>1, <3>3, CountNone
      <4>q. QED BY <1>1, <2>3, <3>3, <4>1
    <3>q. QED BY <1>1, <3>1, <3>2, <3>3
  <2>q. QED BY <2>4 DEF PairInv
<1>q. QED BY <1>1, <1>3, <1>5, <1>7, <1>10, <1>11, <1>12

\* The new operation comes after all others: it is the point of its descr only if
\* there was none.
LEMMA WritingForest == ASSUME ForestInv, Writing PROVE ForestInv'
<1> USE DEF ForestInv
<1>0. PICK op \in Ops : known /\ HasStage /\ Resop(op)
  BY DEF Writing
<1>n. PICK n : n = Len(traces)
  OBVIOUS
<1>a. PICK asm \in BOOLEAN : asm <=> Current.mark = "asm"
  OBVIOUS
<1>1. /\ traces' \in Seq(TraceSet) /\ MarkInv' /\ DOMAIN traces' = DOMAIN traces
      /\ n \in DOMAIN traces /\ \A i \in DOMAIN traces : i \in Nat /\ i <= n
      /\ \A i \in DOMAIN traces :
           /\ AsmOps(i)' = IF i = n /\ asm THEN Append(AsmOps(i), op) ELSE AsmOps(i)
           /\ traces'[i].id = traces[i].id
           /\ traces'[i].links = traces[i].links
           /\ traces'[i].up = traces[i].up
  <2>1. traces \in Seq(TraceSet) /\ n \in DOMAIN traces
    BY <1>0, <1>n, CurrentTrace DEF TypeOK, HasStage
  <2>2. /\ traces' \in Seq(TraceSet) /\ MarkInv' /\ Len(traces') = Len(traces)
        /\ \A i \in DOMAIN traces : SameShape(i)
    BY <1>0, ResopAdds
  <2>3. \A i \in DOMAIN traces : i = n /\ asm => AsmOps(i)' = Append(AsmOps(i), op)
    BY <1>0, <1>n, <1>a, ResopAdds
  <2>4. \A i \in DOMAIN traces : ~(i = n /\ asm) => AsmOps(i)' = AsmOps(i)
    BY <1>0, <1>n, <1>a, ResopAdds
  <2>5. /\ DOMAIN traces' = DOMAIN traces
        /\ \A i \in DOMAIN traces : i \in Nat /\ i <= n
    BY <1>n, <2>1, <2>2
  <2>6. \A i \in DOMAIN traces :
          AsmOps(i)' = IF i = n /\ asm THEN Append(AsmOps(i), op) ELSE AsmOps(i)
    BY <2>3, <2>4
  <2>q. QED BY <2>1, <2>2, <2>5, <2>6 DEF SameShape
<1>2. /\ points' \in Partial(Descrs, Point)
      /\ DOMAIN points' = DOMAIN points
              \cup (IF asm /\ op.descr # NoDescr THEN {op.descr} ELSE {})
      /\ \A d \in DOMAIN points :
              points'[d].trace = points[d].trace /\ points'[d].at = points[d].at
  BY <1>0, <1>a, ResopAdds
<1>p. asm /\ op.descr # NoDescr /\ op.descr \notin DOMAIN points
        => /\ points'[op.descr].trace = traces[n].id
           /\ points'[op.descr].at = Len(AsmOps(n)) + 1
  <2>1. Current.id = traces[n].id
    BY <1>0, <1>n, CurrentTrace DEF HasStage
  <2>q. QED BY <1>0, <1>a, <1>n, <2>1, ResopAdds
<1>3. TypeOK'
  BY <1>1, <1>2 DEF TypeOK, Writing
<1>4. Distinct'
  BY <1>1 DEF Distinct
<1>5. \A x : Known(x) => Known(x)'
  BY <1>1 DEF Known
<1>6. \A i \in DOMAIN traces : AsmOps(i) \in Seq(Ops)
  BY AsmOpsType
<1>7. \A i \in DOMAIN traces : \A j, d :
        Has(i, j, d)' <=> \/ Has(i, j, d)
                          \/ i = n /\ asm /\ j = Len(AsmOps(n)) + 1 /\ d = op.descr
  <2> TAKE i \in DOMAIN traces
  <2> TAKE j, d
  <2>1. CASE i = n /\ asm
    <3> DEFINE a == AsmOps(n)
               b == Append(a, op)
    <3>1. a \in Seq(Ops) /\ AsmOps(i)' = b
      BY <1>1, <1>6, <2>1
    <3>2. /\ DOMAIN b = DOMAIN a \cup {Len(a) + 1} /\ b[Len(a) + 1] = op
          /\ \A k \in DOMAIN a : b[k] = a[k] /\ k # Len(a) + 1
      BY <3>1
    <3> HIDE DEF b
    <3>q. QED BY <2>1, <3>1, <3>2 DEF Has
  <2>2. CASE ~(i = n /\ asm)
    BY <1>1, <2>2 DEF Has
  <2>q. QED BY <2>1, <2>2
<1>k. KnownInv'
  <2>1. Known(traces[n].id)
    BY <1>1 DEF Known
  <2>2. ASSUME NEW d \in DOMAIN points' PROVE Known(points[d].trace)'
    <3>1. CASE d \in DOMAIN points
      <4>1. PICK x : x = points[d].trace
        OBVIOUS
      <4>2. Known(x)' /\ points'[d].trace = x
        BY <1>2, <1>5, <3>1, <4>1 DEF KnownInv
      <4>q. QED BY <4>2
    <3>2. CASE d \notin DOMAIN points
      <4>1. PICK x : x = traces[n].id
        OBVIOUS
      <4>2. Known(x)' /\ points'[d].trace = x
        BY <1>2, <1>5, <1>p, <2>1, <2>2, <3>2, <4>1
      <4>q. QED BY <4>2
    <3>q. QED BY <3>1, <3>2
  <2>3. ASSUME NEW a \in DOMAIN addrs' PROVE Known(addrs[a])'
    <3>1. PICK x : x = addrs[a]
      OBVIOUS
    <3>2. addrs' = addrs
      BY DEF Writing
    <3>3. Known(x)' /\ addrs'[a] = x
      BY <1>5, <3>1, <3>2 DEF KnownInv
    <3>q. QED BY <3>3
  <2>q. QED BY <2>2, <2>3 DEF KnownInv
<1>f. FirstInv'
  <2>0. op.descr \in Descrs \cup {NoDescr} /\ NoDescr \notin Descrs
    BY DEF Ops, NoDescr
  <2>1. ASSUME NEW i \in DOMAIN traces', NEW d \in Descrs, NEW j, Has(i, j, d)'
       PROVE  d \in DOMAIN points'
    <3>1. CASE Has(i, j, d)
      BY <1>1, <1>2, <3>1 DEF FirstInv
    <3>2. CASE asm /\ d = op.descr
      BY <1>2, <2>0, <3>2
    <3>q. QED BY <1>1, <1>7, <2>1, <3>1, <3>2
  <2>2. ASSUME NEW d \in DOMAIN points'
       PROVE  \E i \in DOMAIN traces' :
                /\ traces'[i].id = points'[d].trace
                /\ Has(i, points[d].at, d)'
                /\ \A k \in DOMAIN traces' : \A j :
                     Has(k, j, d)' => k > i \/ (k = i /\ j >= points'[d].at)
    <3>1. CASE d \in DOMAIN points
      <4>1. PICK i \in DOMAIN traces :
                /\ traces[i].id = points[d].trace
                /\ Has(i, points[d].at, d)
                /\ \A k \in DOMAIN traces : \A j :
                     Has(k, j, d) => k > i \/ (k = i /\ j >= points[d].at)
        BY <3>1 DEF FirstInv
      <4>2. PICK at : at = points[d].at
        OBVIOUS
      <4>3. points'[d].at = at /\ points'[d].trace = points[d].trace
        BY <1>2, <3>1, <4>2
      <4>4. Has(i, at, d)'
        BY <1>7, <4>1, <4>2
      <4>5. ASSUME NEW k \in DOMAIN traces, NEW j, Has(k, j, d)'
           PROVE  k > i \/ (k = i /\ j >= at)
        <5>1. CASE Has(k, j, d)
          BY <4>1, <4>2, <5>1
        <5>2. CASE k = n /\ j = Len(AsmOps(n)) + 1
          <6>1. CASE i = n
            <7>1. at \in 1..Len(AsmOps(n)) /\ Len(AsmOps(n)) \in Nat
              BY <1>6, <1>1, <4>1, <4>2, <6>1 DEF Has
            <7>q. QED BY <5>2, <6>1, <7>1
          <6>2. CASE i # n
            BY <1>1, <5>2, <6>2
          <6>q. QED BY <6>1, <6>2
        <5>q. QED BY <1>7, <4>5, <5>1, <5>2
      <4>6. Has(i, points[d].at, d)'
        BY <4>3, <4>4 DEF Has
      <4>q. QED BY <1>1, <4>1, <4>3, <4>5, <4>6
    <3>2. CASE d \notin DOMAIN points
      <4>1. /\ asm /\ d = op.descr /\ d \in Descrs
            /\ points'[d].trace = traces[n].id /\ points'[d].at = Len(AsmOps(n)) + 1
        BY <1>2, <1>p, <2>0, <2>2, <3>2
      <4>2. PICK at : at = Len(AsmOps(n)) + 1
        OBVIOUS
      <4>3. Has(n, at, d)' /\ points'[d].at = at
        BY <1>1, <1>7, <4>1, <4>2
      <4>4. ASSUME NEW k \in DOMAIN traces, NEW j, Has(k, j, d)' PROVE k = n /\ j = at
        <5>1. ~Has(k, j, d)
          BY <3>2, <4>1 DEF FirstInv
        <5>q. QED BY <1>7, <4>2, <4>4, <5>1
      <4>5. Has(n, points[d].at, d)'
        BY <4>3 DEF Has
      <4>6. at \in Nat
        BY <1>1, <1>6, <4>2
      <4>q. QED BY <1>1, <4>1, <4>3, <4>4, <4>5, <4>6
    <3>q. QED BY <3>1, <3>2
  <2>q. QED BY <2>1, <2>2 DEF FirstInv
<1>11. LinkInv'
  <2>1. ASSUME NEW i \in DOMAIN traces', NEW m \in DOMAIN traces'[i].links
       PROVE  Known(traces[i].links[m].trace)'
    <3>2. PICK x : x = traces[i].links[m].trace
      OBVIOUS
    <3>3. Known(x)' /\ traces'[i].links[m].trace = x
      BY <1>1, <1>5, <2>1, <3>2 DEF LinkInv
    <3>q. QED BY <3>3
  <2>2. ASSUME NEW i \in DOMAIN traces', NEW u \in DOMAIN traces'[i].up
       PROVE  \E p \in DOMAIN traces' : \E m \in DOMAIN traces'[p].links :
                /\ traces'[p].id = traces'[i].up[u].trace
                /\ traces'[p].links[m].trace = traces'[i].id
                /\ Has(p, traces[i].up[u].at, traces[p].links[m].descr)'
    <3>0. i \in DOMAIN traces /\ u \in DOMAIN traces[i].up
      BY <1>1, <2>2
    <3>1. PICK p \in DOMAIN traces : \E m \in DOMAIN traces[p].links :
                /\ traces[p].id = traces[i].up[u].trace
                /\ traces[p].links[m].trace = traces[i].id
                /\ Has(p, traces[i].up[u].at, traces[p].links[m].descr)
      BY <3>0 DEF LinkInv
    <3>2. PICK m \in DOMAIN traces[p].links :
                /\ traces[p].id = traces[i].up[u].trace
                /\ traces[p].links[m].trace = traces[i].id
                /\ Has(p, traces[i].up[u].at, traces[p].links[m].descr)
      BY <3>1
    <3>4. PICK at, d : at = traces[i].up[u].at /\ d = traces[p].links[m].descr
      OBVIOUS
    <3>5. Has(p, at, d)' /\ traces'[i].up[u].at = at /\ traces'[p].links[m].descr = d
      BY <1>1, <1>7, <3>0, <3>2, <3>4
    <3>3. Has(p, traces[i].up[u].at, traces[p].links[m].descr)'
      BY <3>5 DEF Has
    <3>q. QED BY <1>1, <3>0, <3>2, <3>3
  <2>q. QED BY <2>1, <2>2 DEF LinkInv
<1>12. PairInv'
  BY <1>1 DEF PairInv
<1>q. QED BY <1>1, <1>3, <1>4, <1>k, <1>f, <1>11, <1>12

\* With distinct ids, the trace of an id is the one of its index.
LEMMA IndexOfId ==
  ASSUME Distinct, NEW i \in DOMAIN traces PROVE IndexOf(traces[i].id) = i
  BY DEF Distinct, IndexOf

\* A link: one more down at the parent, and one more up at the bridge, with the
\* place of the descr it leads from.
LEMMA LinkingForest == ASSUME ForestInv, Linking PROVE ForestInv'
<1> USE DEF ForestInv
<1>0. PICK d \in DOMAIN points, to \in Ids : Known(to) /\ Link(d, to)
  BY DEF Linking
<1>a. PICK f, t : f = IndexOf(points[d].trace) /\ t = IndexOf(to)
  OBVIOUS
<1>b. PICK from, at : from = points[d].trace /\ at = points[d].at
  OBVIOUS
<1>c. PICK l, u : l = [descr |-> d, trace |-> to] /\ u = [trace |-> from, at |-> at]
  OBVIOUS
<1>d. /\ f \in DOMAIN traces /\ traces[f].id = from
      /\ t \in DOMAIN traces /\ traces[t].id = to
  BY <1>0, <1>a, <1>b, KnownIndex DEF KnownInv
<1>1. /\ traces' \in Seq(TraceSet) /\ MarkInv' /\ DOMAIN traces' = DOMAIN traces
      /\ \A i \in DOMAIN traces :
           /\ traces'[i].id = traces[i].id /\ AsmOps(i)' = AsmOps(i)
           /\ traces'[i].links = IF i = f THEN Append(traces[i].links, l) ELSE traces[i].links
           /\ traces'[i].up = IF i = t THEN Append(traces[i].up, u) ELSE traces[i].up
  <2>1. /\ traces' \in Seq(TraceSet) /\ MarkInv' /\ Len(traces') = Len(traces)
        /\ \A i \in DOMAIN traces :
           /\ traces'[i].id = traces[i].id /\ AsmOps(i)' = AsmOps(i)
           /\ traces'[i].links = IF i = f THEN Append(traces[i].links, l) ELSE traces[i].links
           /\ traces'[i].up = IF i = t THEN Append(traces[i].up, u) ELSE traces[i].up
    BY <1>0, <1>a, <1>b, <1>c, LinkAdds
  <2>2. DOMAIN traces' = DOMAIN traces
    BY <2>1 DEF TypeOK
  <2>q. QED BY <2>1, <2>2
<1>2. points' = points /\ addrs' = addrs
  BY DEF Linking
<1>3. TypeOK'
  BY <1>1, <1>2 DEF TypeOK
<1>4. Distinct'
  BY <1>1 DEF Distinct
<1>5. \A id : Known(id)' <=> Known(id)
  BY <1>1 DEF Known
<1>6. KnownInv'
  BY <1>2, <1>5 DEF KnownInv
<1>7. \A i \in DOMAIN traces : \A j, e : Has(i, j, e)' <=> Has(i, j, e)
  BY <1>1 DEF Has
<1>8. FirstInv'
  BY <1>1, <1>2, <1>7 DEF FirstInv
<1>9. /\ l.descr = d /\ l.trace = to /\ u.trace = from /\ u.at = at
      /\ l \in Down /\ u \in Up
  <2>1. d \in Descrs /\ points[d] \in Point
    BY PartialValue DEF TypeOK
  <2>q. QED BY <1>b, <1>c, <2>1 DEF Down, Up, Point
\* The members of the sequences of links.
<1>10. ASSUME NEW i \in DOMAIN traces
      PROVE  /\ \A m \in DOMAIN traces[i].links :
                  m \in DOMAIN traces'[i].links /\ traces'[i].links[m] = traces[i].links[m]
             /\ \A m \in DOMAIN traces'[i].links :
                  m \in DOMAIN traces[i].links \/ (i = f /\ traces'[i].links[m] = l)
             /\ i = f => \E m \in DOMAIN traces'[i].links : traces'[i].links[m] = l
             /\ \A m \in DOMAIN traces[i].up :
                  m \in DOMAIN traces'[i].up /\ traces'[i].up[m] = traces[i].up[m]
             /\ \A m \in DOMAIN traces'[i].up :
                  m \in DOMAIN traces[i].up \/ (i = t /\ traces'[i].up[m] = u)
  <2>0. traces[i].links \in Seq(Down) /\ traces[i].up \in Seq(Up)
    BY LinksType
  <2>1. ASSUME NEW S, NEW q \in Seq(S), NEW x
       PROVE  /\ \A m \in DOMAIN q : m \in DOMAIN Append(q, x) /\ Append(q, x)[m] = q[m]
              /\ \A m \in DOMAIN Append(q, x) : m \in DOMAIN q \/ Append(q, x)[m] = x
              /\ \E m \in DOMAIN Append(q, x) : Append(q, x)[m] = x
    <3>1. Len(q) + 1 \in DOMAIN Append(q, x) /\ Append(q, x)[Len(q) + 1] = x
      OBVIOUS
    <3>q. QED BY <3>1
  <2>2. PICK ls, us : ls = traces[i].links /\ us = traces[i].up
    OBVIOUS
  <2>3. ls \in Seq(Down) /\ us \in Seq(Up)
    BY <2>0, <2>2
  <2>4. /\ \A m \in DOMAIN ls : m \in DOMAIN Append(ls, l) /\ Append(ls, l)[m] = ls[m]
        /\ \A m \in DOMAIN Append(ls, l) : m \in DOMAIN ls \/ Append(ls, l)[m] = l
        /\ \E m \in DOMAIN Append(ls, l) : Append(ls, l)[m] = l
    BY <2>1, <2>3
  <2>5. /\ \A m \in DOMAIN us : m \in DOMAIN Append(us, u) /\ Append(us, u)[m] = us[m]
        /\ \A m \in DOMAIN Append(us, u) : m \in DOMAIN us \/ Append(us, u)[m] = u
    BY <2>1, <2>3
  <2>6. /\ traces'[i].links = IF i = f THEN Append(ls, l) ELSE ls
        /\ traces'[i].up = IF i = t THEN Append(us, u) ELSE us
    BY <1>1, <2>2
  <2>q. QED BY <2>2, <2>4, <2>5, <2>6
<1>11. LinkInv'
  <2>1. ASSUME NEW i \in DOMAIN traces', NEW m \in DOMAIN traces'[i].links
       PROVE  Known(traces[i].links[m].trace)'
    <3>1. PICK x : x = traces'[i].links[m].trace
      OBVIOUS
    <3>2. Known(x)
      <4>1. CASE m \in DOMAIN traces[i].links
        BY <1>1, <1>10, <3>1, <4>1 DEF LinkInv
      <4>2. CASE m \notin DOMAIN traces[i].links
        BY <1>0, <1>1, <1>9, <1>10, <3>1, <4>2
      <4>q. QED BY <4>1, <4>2
    <3>3. Known(x)'
      BY <1>5, <3>2
    <3>q. QED BY <3>1, <3>3
  <2>2. ASSUME NEW i \in DOMAIN traces', NEW n \in DOMAIN traces'[i].up
       PROVE  \E p \in DOMAIN traces' : \E m \in DOMAIN traces'[p].links :
                /\ traces'[p].id = traces'[i].up[n].trace
                /\ traces'[p].links[m].trace = traces'[i].id
                /\ Has(p, traces[i].up[n].at, traces[p].links[m].descr)'
    <3>1. CASE n \in DOMAIN traces[i].up
      <4>0. traces'[i].up[n] = traces[i].up[n]
        BY <1>1, <1>10, <3>1
      <4>1. PICK p \in DOMAIN traces : \E m \in DOMAIN traces[p].links :
                  /\ traces[p].id = traces[i].up[n].trace
                  /\ traces[p].links[m].trace = traces[i].id
                  /\ Has(p, traces[i].up[n].at, traces[p].links[m].descr)
        BY <1>1, <3>1 DEF LinkInv
      <4>2. PICK m \in DOMAIN traces[p].links :
                  /\ traces[p].id = traces[i].up[n].trace
                  /\ traces[p].links[m].trace = traces[i].id
                  /\ Has(p, traces[i].up[n].at, traces[p].links[m].descr)
        BY <4>1
      <4>3. m \in DOMAIN traces'[p].links /\ traces'[p].links[m] = traces[p].links[m]
        BY <1>10
      <4>4. PICK y, e : y = traces[i].up[n].at /\ e = traces[p].links[m].descr
        OBVIOUS
      <4>5. Has(p, y, e)' /\ traces'[i].up[n].at = y /\ traces'[p].links[m].descr = e
        BY <1>7, <4>0, <4>2, <4>3, <4>4
      <4>6. Has(p, traces[i].up[n].at, traces[p].links[m].descr)'
        BY <4>5 DEF Has
      <4>q. QED BY <1>1, <4>0, <4>2, <4>3, <4>6
    <3>2. CASE n \notin DOMAIN traces[i].up
      <4>1. i = t /\ traces'[i].up[n] = u
        BY <1>1, <1>10, <3>2
      <4>2. PICK m \in DOMAIN traces'[f].links : traces'[f].links[m] = l
        BY <1>10, <1>d
      <4>3. Has(f, at, d)
        <5>1. PICK i2 \in DOMAIN traces : traces[i2].id = from /\ Has(i2, at, d)
          BY <1>b DEF FirstInv
        <5>2. i2 = f
          BY <1>d, <5>1 DEF Distinct
        <5>q. QED BY <5>1, <5>2
      <4>4. Has(f, at, d)'
        BY <1>7, <1>d, <4>3
      <4>5. Has(f, traces[i].up[n].at, traces[f].links[m].descr)'
        BY <1>9, <4>1, <4>2, <4>4 DEF Has
      <4>q. QED BY <1>1, <1>9, <1>d, <4>1, <4>2, <4>5
    <3>q. QED BY <3>1, <3>2
  <2>q. QED BY <2>1, <2>2 DEF LinkInv
<1>12. PairInv'
  <2>1. ASSUME NEW i \in DOMAIN traces, NEW j \in DOMAIN traces
       PROVE  Count(traces'[i].links, traces'[j].id) = Count(traces'[j].up, traces'[i].id)
    <3>0. /\ traces[i].links \in Seq(Down) /\ traces[j].up \in Seq(Up)
      BY LinksType
    <3>1. PICK ls, us, x, y : /\ ls = traces[i].links /\ us = traces[j].up
                             /\ x = traces[j].id /\ y = traces[i].id
      OBVIOUS
    <3>2. ls \in Seq(Down) /\ us \in Seq(Up)
      BY <3>0, <3>1
    <3>3. /\ Count(ls, x) \in Nat /\ Count(us, y) \in Nat /\ Count(ls, x) = Count(us, y)
      BY <3>1, <3>2, CountType DEF PairInv
    <3>4. Count(Append(ls, l), x) = Count(ls, x) + (IF to = x THEN 1 ELSE 0)
      BY <1>9, <3>2, CountAppend
    <3>5. Count(Append(us, u), y) = Count(us, y) + (IF from = y THEN 1 ELSE 0)
      BY <1>9, <3>2, CountAppend
    <3>6. (to = x <=> j = t) /\ (from = y <=> i = f)
      BY <1>d, <3>1 DEF Distinct
    <3>7. /\ traces'[i].links = IF i = f THEN Append(ls, l) ELSE ls
          /\ traces'[j].up = IF j = t THEN Append(us, u) ELSE us
          /\ traces'[i].id = y /\ traces'[j].id = x
      BY <1>1, <3>1
    <3>8. CASE i = f /\ j = t
      <4>1. traces'[i].links = Append(ls, l) /\ traces'[j].up = Append(us, u)
        BY <3>7, <3>8
      <4>q. QED BY <3>3, <3>4, <3>5, <3>6, <3>7, <3>8, <4>1
    <3>9. CASE i = f /\ j # t
      <4>1. traces'[i].links = Append(ls, l) /\ traces'[j].up = us
        BY <3>7, <3>9
      <4>q. QED BY <3>3, <3>4, <3>6, <3>7, <3>9, <4>1
    <3>10. CASE i # f /\ j = t
      <4>1. traces'[i].links = ls /\ traces'[j].up = Append(us, u)
        BY <3>7, <3>10
      <4>q. QED BY <3>3, <3>5, <3>6, <3>7, <3>10, <4>1
    <3>11. CASE i # f /\ j # t
      BY <3>3, <3>7, <3>11
    <3>q. QED BY <3>8, <3>9, <3>10, <3>11
  <2>q. QED BY <1>1, <2>1 DEF PairInv
<1>q. QED BY <1>1, <1>3, <1>4, <1>6, <1>8, <1>11, <1>12

LEMMA InitForest == ASSUME Init PROVE ForestInv
<1>1. traces = <<>> /\ points = << >> /\ addrs = << >> /\ DOMAIN traces = {}
  BY DEF Init
<1>2. /\ points \in Partial(Descrs, Point) /\ DOMAIN points = {}
      /\ addrs \in Partial(Addrs, Ids) /\ DOMAIN addrs = {}
  BY <1>1, EmptyPartial
<1>3. TypeOK
  BY <1>1, <1>2 DEF TypeOK
<1>q. QED BY <1>1, <1>2, <1>3
     DEF ForestInv, MarkInv, Distinct, KnownInv, FirstInv, LinkInv, PairInv

LEMMA NextForest == ASSUME ForestInv, [Next]_vars PROVE ForestInv'
<1>1. CASE Next
  BY <1>1, StepCases, KeepingForest, StartingForest, WritingForest, LinkingForest
     DEF ForestInv
<1>2. CASE UNCHANGED vars
  <2>1. UNCHANGED <<traces, points, addrs>>
    BY <1>2 DEF vars, forest
  <2>q. QED BY <2>1, UnchangedKeeps, KeepingForest DEF ForestInv
<1>q. QED BY <1>1, <1>2

\* The traces, points and links stay consistent whatever the log.
THEOREM ForestIsSound == Spec => []ForestInv
<1>q. QED BY InitForest, NextForest, PTL DEF Spec

-----------------------------------------------------------------------------
(* The properties *)

LEMMA ForestFirst == ASSUME ForestInv PROVE PointIsFirst
<1> USE DEF ForestInv
<1>1. ASSUME NEW d \in Descrs, d \in DOMAIN points
     PROVE  LET i == IndexOf(points[d].trace) IN
         /\ i \in DOMAIN traces
         /\ Has(i, points[d].at, d)
         /\ \A k \in DOMAIN traces : \A j \in DOMAIN AsmOps(k) :
              Has(k, j, d) => k > i \/ (k = i /\ j >= points[d].at)
  <2>1. PICK i \in DOMAIN traces :
       /\ traces[i].id = points[d].trace
       /\ Has(i, points[d].at, d)
       /\ \A k \in DOMAIN traces : \A j :
            Has(k, j, d) => k > i \/ (k = i /\ j >= points[d].at)
    BY <1>1 DEF FirstInv
  <2>2. IndexOf(points[d].trace) = i
    BY <2>1, IndexOfId
  <2>q. QED BY <2>1, <2>2
<1>2. ASSUME NEW d \in Descrs, d \in DOMAIN points
     PROVE  \E i \in DOMAIN traces : \E j \in DOMAIN AsmOps(i) : Has(i, j, d)
  BY <1>1, <1>2 DEF Has
<1>3. ASSUME NEW d \in Descrs, NEW i \in DOMAIN traces, NEW j, Has(i, j, d)
     PROVE  d \in DOMAIN points
  BY <1>3 DEF FirstInv
<1>q. QED BY <1>1, <1>2, <1>3 DEF PointIsFirst

\* Whatever the log, a descr names the first operation that had it in the machine
\* code (add_instr), for any number of traces and operations.
THEOREM PointsAreFirst == Spec => []PointIsFirst
<1>q. QED BY ForestIsSound, ForestFirst, PTL

LEMMA ForestPaired == ASSUME ForestInv PROVE LinksPaired
<1> USE DEF ForestInv
<1>1. ASSUME NEW i \in DOMAIN traces, traces[i].up # <<>>
     PROVE  \E l \in ToSet(traces[IndexOf(Parent(traces[i]))].links) :
              l.trace = traces[i].id /\ FailingGuard(traces[i]).descr = l.descr
  <2>1. 1 \in DOMAIN traces[i].up
    <3>1. traces[i].up \in Seq(Up)
      BY LinksType
    <3>q. QED BY <1>1, <3>1
  <2>2. PICK p \in DOMAIN traces : \E m \in DOMAIN traces[p].links :
         /\ traces[p].id = traces[i].up[1].trace
         /\ traces[p].links[m].trace = traces[i].id
         /\ Has(p, traces[i].up[1].at, traces[p].links[m].descr)
    BY <2>1 DEF LinkInv
  <2>3. PICK m \in DOMAIN traces[p].links :
         /\ traces[p].id = traces[i].up[1].trace
         /\ traces[p].links[m].trace = traces[i].id
         /\ Has(p, traces[i].up[1].at, traces[p].links[m].descr)
    BY <2>2
  <2>4. IndexOf(traces[i].up[1].trace) = p
    BY <2>3, IndexOfId
  <2>5. "asm" \in DOMAIN traces[p].stages
    BY <2>3 DEF Has, AsmOps
  <2>6. FailingGuard(traces[i]).descr = traces[p].links[m].descr
    BY <2>3, <2>4, <2>5 DEF FailingGuard, Has, AsmOps
  <2>7. traces[p].links[m] \in ToSet(traces[p].links)
    BY DEF ToSet
  <2>q. QED BY <2>3, <2>4, <2>6, <2>7 DEF Parent
<1>q. QED BY <1>1 DEF LinksPaired, PairInv

\* Each link down has its link up, and the guard a bridge fails from is the
\* operation of its parent that the link names (stitch_bridge, get_failing_guard).
THEOREM LinksArePaired == Spec => []LinksPaired
<1>q. QED BY ForestIsSound, ForestPaired, PTL

\* The counter operation PyPy writes after one with a descr finds its point.
LEMMA CounterHasPoint ==
  ASSUME ForestInv, HasStage, Current.mark = "asm", Stage.ops # <<>>,
         Last(Stage.ops).descr # NoDescr
  PROVE  Last(Stage.ops).descr \in DOMAIN points
<1> USE DEF ForestInv
<1>1. Len(traces) \in DOMAIN traces /\ AsmOps(Len(traces)) = Stage.ops
  BY CurrentTrace, StageOps DEF HasStage
<1>2. PICK n, os : n = Len(traces) /\ os = Stage.ops
  OBVIOUS
<1>3. os \in Seq(Ops) /\ os # <<>> /\ AsmOps(n) = os /\ n \in DOMAIN traces
  BY <1>1, <1>2, AsmOpsType
<1>4. Len(os) \in DOMAIN os /\ os[Len(os)] \in Ops
  BY <1>3
<1>5. os[Len(os)].descr \in Descrs
  BY <1>2, <1>4 DEF Ops, Last
<1>6. Has(n, Len(os), os[Len(os)].descr)
  BY <1>3, <1>4 DEF Has
<1>q. QED BY <1>2, <1>3, <1>5, <1>6 DEF FirstInv, Last

LEMMA NextGood ==
  ASSUME ForestInv, GoodLogsReadable, [Next]_vars PROVE GoodLogsReadable'
<1> USE DEF GoodLogsReadable, Record, Parse, Raise
<1>1. CASE Malformed \/ ResopMeta \/ AsmDump \/ InitMergePoint \/ CommonPrefix \/ Skipped
  BY <1>1 DEF Malformed, ResopMeta, AsmDump, InitMergePoint, CommonPrefix, Skipped
<1>2. CASE Upload
  BY <1>2 DEF Upload
<1>3. ASSUME NEW id \in Ids, NEW type, StartTrace(id, type) PROVE wellFormed' => ~exc'
  BY <1>3 DEF StartTrace
<1>4. ASSUME NEW id \in Ids, NEW mark, TraceMark(id, mark) PROVE wellFormed' => ~exc'
  BY <1>4 DEF TraceMark
<1>5. ASSUME NEW id \in Ids, NEW d, RedirectAssembler(d, id) PROVE wellFormed' => ~exc'
  BY <1>5 DEF RedirectAssembler
<1>6. ASSUME NEW op \in Ops, Resop(op), wellFormed' PROVE ~exc'
  <2> DEFINE b == Last(Stage.ops).descr
             counts == op.name = "increment_debug_counter" /\ Stage.ops # <<>>
  <2>1. known /\ HasStage /\ (counts => Current.mark = "asm" /\ b # NoDescr)
    BY <1>6 DEF Resop
  <2>2. exc' = (counts /\ b \notin DOMAIN Registered(op))
    BY <1>6, <2>1 DEF Resop
  <2>3. counts => b \in DOMAIN points
    BY <2>1, CounterHasPoint
  <2>4. DOMAIN points \subseteq DOMAIN Registered(op)
    BY DEF Registered, Put
  <2> HIDE DEF b, counts
  <2>q. QED BY <2>2, <2>3, <2>4
<1>7. ASSUME NEW a \in Addrs, AsmAddr(a) PROVE wellFormed' => ~exc'
  BY <1>7 DEF AsmAddr
<1>8. ASSUME NEW l, NEW c, MergePoint(l, c) PROVE wellFormed' => ~exc'
  BY <1>8 DEF MergePoint
<1>9. ASSUME NEW d, NEW a, StitchBridge(d, a) PROVE wellFormed' => ~exc'
  BY <1>9 DEF StitchBridge
<1>10. ASSUME NEW key, NEW type, JitlogCounter(key, type) PROVE wellFormed' => ~exc'
  BY <1>10 DEF JitlogCounter
<1>11. CASE SourceCode({FirstLine})
  BY <1>11 DEF SourceCode
<1>12. CASE UNCHANGED vars
  BY <1>12 DEF vars
<1>q. QED BY <1>1, <1>2, <1>3, <1>4, <1>5, <1>6, <1>7, <1>8, <1>9, <1>10, <1>11, <1>12
          DEF Next

\* The records PyPy writes are read without an exception, in logs of any length.
THEOREM GoodLogsAreReadable == Spec => []GoodLogsReadable
<1>1. Init => GoodLogsReadable
  BY DEF Init, GoodLogsReadable
<1>q. QED BY <1>1, NextGood, ForestIsSound, PTL DEF Spec

-----------------------------------------------------------------------------
(* Uploads *)

\* What is appended to the log, upload after upload; a tag whose characters are
\* all of one byte is read back whole, and nothing is appended after it.
TagInv ==
  /\ phase \in 0 .. 2
  /\ phase = 0 => tags = <<>>
  /\ phase = 1 => tags = <<>> \/ \E t : t # {} /\ tags = <<t>>
  /\ phase = 2 /\ wellFormed /\ (tags # <<>> => InStep(tags[1])) => Len(tags) <= 1

LEMMA UploadTags ==
  ASSUME TagInv, GoodLogsReadable, Upload PROVE TagInv'
<1> DEFINE reached == IF exc THEN source
                      ELSE source \cup UNION {ReadBack(t) : t \in ToSet(tags)}
           lines == Extracted(reached)
<1>1. /\ tags' = IF lines = {} THEN tags ELSE Append(tags, lines)
      /\ phase' = phase + 1 /\ phase \in 0 .. 1 /\ wellFormed' = wellFormed
  BY DEF Upload, TagInv
<1>2. CASE phase = 0
  <2>1. tags = <<>>
    BY <1>2 DEF TagInv
  <2> HIDE DEF lines
  <2>q. QED BY <1>1, <1>2, <2>1 DEF TagInv
<1>3. CASE phase = 1
  <2>1. CASE tags = <<>>
    <3> HIDE DEF lines
    <3>1. Len(tags') <= 1
      BY <1>1, <2>1
    <3>q. QED BY <1>1, <1>3, <3>1 DEF TagInv
  <2>2. CASE tags # <<>>
    <3>1. PICK t : t # {} /\ tags = <<t>>
      BY <1>3, <2>2 DEF TagInv
    <3>2. ASSUME wellFormed, InStep(t) PROVE tags' = tags
      <4>1. ~exc
        BY <3>2 DEF GoodLogsReadable
      <4>2. ReadBack(t) = t /\ t \in ToSet(tags)
        BY <3>1, <3>2 DEF ReadBack, ToSet
      <4>3. reached # {}
        BY <3>1, <4>1, <4>2
      <4>4. lines = {}
        BY <4>3 DEF Extracted
      <4>q. QED BY <1>1, <4>4
    <3>3. tags'[1] = t
      <4> HIDE DEF lines
      <4>q. QED BY <1>1, <3>1
    <3>4. tags' # <<>>
      <4> HIDE DEF lines
      <4>q. QED BY <1>1, <3>1
    <3>5. Len(tags) = 1
      BY <3>1
    <3>6. ASSUME wellFormed', tags' # <<>> => InStep(tags'[1]) PROVE Len(tags') <= 1
      <4>1. wellFormed
        BY <1>1, <3>6
      <4>2. InStep(t)
        BY <3>3, <3>4, <3>6
      <4>3. tags' = tags
        BY <3>2, <4>1, <4>2
      <4>q. QED BY <3>5, <4>3
    <3>7. phase' = 2
      BY <1>1, <1>3
    <3>8. InStep(tags[1])' => InStep(tags'[1])
      BY DEF InStep
    <3>q. QED BY <3>6, <3>7, <3>8 DEF TagInv
  <2>q. QED BY <2>1, <2>2
<1>q. QED BY <1>1, <1>2, <1>3

LEMMA NextTags ==
  ASSUME TagInv, GoodLogsReadable, [Next]_vars PROVE TagInv'
<1>1. CASE Upload
  BY <1>1, UploadTags
<1>2. ASSUME NEW legal, Record(legal) PROVE TagInv'
  BY <1>2 DEF Record, upload, TagInv
<1>3. CASE UNCHANGED vars
  BY <1>3 DEF vars, upload, TagInv, InStep
<1>q. QED
  BY <1>1, <1>2, <1>3
     DEF Next, Malformed, ResopMeta, AsmDump, InitMergePoint, CommonPrefix, Skipped,
         StartTrace, TraceMark, RedirectAssembler, Resop, AsmAddr, MergePoint,
         StitchBridge, JitlogCounter, SourceCode

\* Uploading a good log twice appends its source lines once, whenever the first
\* tag has only characters of one byte.
THEOREM TagsAreAppendedOnce ==
  Spec => [](wellFormed /\ (tags # <<>> => InStep(tags[1])) => Len(tags) <= 1)
<1>1. Init => TagInv
  BY DEF Init, TagInv
<1>2. TagInv => (wellFormed /\ (tags # <<>> => InStep(tags[1])) => Len(tags) <= 1)
  BY DEF TagInv
<1>q. QED BY <1>1, <1>2, NextTags, GoodLogsAreReadable, PTL DEF Spec

\* So it does for source files without a wide character ("If there is already
\* source code attached, we skip this step").
THEOREM GoodLogsAreTaggedOnce == ASSUME Wide = {} PROVE Spec => []TaggedOnce
<1>1. (wellFormed /\ (tags # <<>> => InStep(tags[1])) => Len(tags) <= 1) => TaggedOnce
  BY DEF TaggedOnce, InStep
<1>q. QED BY <1>1, TagsAreAppendedOnce, PTL

=============================================================================
