-------------------------- MODULE Addresses_proofs --------------------------
(***************************************************************************)
(* The places where addresses are looked up.  The ignored ranges           *)
(* (Ranges): for every set of mappings and however many there are, the     *)
(* bounds are written inside the array, they ascend, and an address is     *)
(* ignored exactly when a mapping that is to be ignored has it.  The       *)
(* modules with symbols (ElfFile): for any number of them, no file stays   *)
(* open, no view stays mapped that nothing needs, and addresses are looked *)
(* up in the debug information if there is any.  The tables of that        *)
(* information (RangeTable): a vector of any length is sorted, with calls  *)
(* that at least halve, and a look-up finds a range that has the address.  *)
(***************************************************************************)
EXTENDS Ranges, ElfFile, RangeTable, FiniteSetTheorems, TLAPS

(* The tables of address ranges *)

\* A slice of the table, the part of a call's slice that the call it makes is
\* about, and the slices from the outermost call to the current one.
Part == [base |-> base, size |-> size]
HalfOf(c) == IF 2 * c.mid < c.size THEN [base |-> c.base, size |-> c.mid]
             ELSE [base |-> c.base + c.mid + 1, size |-> c.size - (c.mid + 1)]
Holds(s, p) == s.base < p /\ p <= s.base + s.size
Within(s, t) == t.base <= s.base /\ s.base + s.size <= t.base + t.size

Frame == [base : Nat, size : Nat, mid : Nat]
RTTypeOK ==
  /\ given \in Seq(Entries) /\ table \in [1 .. Len(given) -> Entries]
  /\ base \in Nat /\ size \in Nat /\ mid \in Nat /\ nxt \in Nat
  /\ calls \in Seq(Frame)
  /\ step \in {"sort", "partition", "sorted", "bsearch", "onward", "back", "found"}
  /\ key \in Int /\ lo \in Nat /\ hi \in Nat /\ entry \in Nat

\* The slice at work lies in the part that each waiting call has passed on.
Nested ==
  step \in {"sort", "partition"} =>
    /\ base + size <= Len(given)
    /\ \A k \in 1 .. Len(calls) :
         /\ calls[k].size >= 2 /\ calls[k].mid < calls[k].size
         /\ calls[k].base + calls[k].size <= Len(given)
         /\ Within(Part, HalfOf(calls[k]))
         /\ \A j \in k + 1 .. Len(calls) : Within(calls[j], HalfOf(calls[k]))

\* Two entries out of order are both in the slice at work, or both in a part that
\* a waiting call still has to sort.
Pending(p, q) ==
  \/ Holds(Part, p) /\ Holds(Part, q)
  \/ \E k \in 1 .. Len(calls) : Holds(RestOf(calls[k]), p) /\ Holds(RestOf(calls[k]), q)
Ordered ==
  \A p, q \in 1 .. Len(given) :
    p < q => \/ ~Greater(table[p], table[q])
             \/ step \in {"sort", "partition"} /\ Pending(p, q)

\* The loop: up to mid what sorts before the pivot, then what does not.
Parting ==
  step = "partition" =>
    /\ 2 <= size /\ 1 <= nxt /\ nxt <= size /\ mid < nxt
    /\ \A i \in 1 .. mid : Greater(table[base + 1], table[base + i + 1])
    /\ \A i \in mid + 1 .. nxt - 1 : ~Greater(table[base + 1], table[base + i + 1])

SameEntries ==
  /\ \A e \in Entries : TimesIn(table, e) = TimesIn(given, e)
  /\ \A i \in 1 .. Len(given) : \E j \in 1 .. Len(given) : table[i] = given[j]

\* The search: what has the address is still looked at, or has been passed over.
Finding ==
  /\ step = "bsearch" =>
       /\ lo <= hi /\ hi <= Len(given) /\ entry = 0
       /\ Apart => \A i \in 1 .. Len(given) : Has(table[i], key) => lo < i /\ i <= hi
  /\ step \in {"onward", "back"} =>
       entry \in 1 .. Len(given) /\ Has(table[entry], key)
  /\ step = "back" =>
       (Apart => \A i \in 1 .. Len(given) :
                   Has(table[i], key) /\ i > entry => table[i].who \in useless)
  /\ step = "found" => entry <= Len(given)

RTInv == /\ RTTypeOK /\ Nested /\ Ordered /\ Parting /\ SameEntries /\ Finding
         /\ CallsHalve /\ FindsTheRange

\* The comparison is a strict weak order.
LEMMA GreaterIsAnOrder ==
  ASSUME NEW x \in Entries, NEW y \in Entries, NEW z \in Entries
  PROVE  /\ ~Greater(x, x)
         /\ Greater(x, y) => ~Greater(y, x)
         /\ Greater(x, y) /\ Greater(y, z) => Greater(x, z)
         /\ ~Greater(x, y) /\ ~Greater(y, z) => ~Greater(x, z)
BY RangeTableAssumption DEF Greater

LEMMA EntryIs ==
  ASSUME NEW x \in Entries
  PROVE  x.low \in Int /\ x.high \in Int /\ x.third \in Int /\ x.who \in Nat
BY RangeTableAssumption

LEMMA SwappedIs ==
  ASSUME NEW n \in Nat, NEW a \in [1 .. n -> Entries], NEW i \in 1 .. n, NEW j \in 1 .. n
  PROVE  /\ Swapped(a, i, j) \in [1 .. n -> Entries]
         /\ Swapped(a, i, j)[i] = a[j] /\ Swapped(a, i, j)[j] = a[i]
         /\ \A k \in 1 .. n : k # i /\ k # j => Swapped(a, i, j)[k] = a[k]
BY DEF Swapped

\* An exchange of two entries leaves each of them as often as it was.
LEMMA SwappedTimes ==
  ASSUME NEW n \in Nat, NEW a \in [1 .. n -> Entries], NEW i \in 1 .. n, NEW j \in 1 .. n,
         NEW e
  PROVE  TimesIn(Swapped(a, i, j), e) = TimesIn(a, e)
<1> DEFINE b == Swapped(a, i, j)
           S == {k \in 1 .. n : a[k] = e}
           T == {k \in 1 .. n : b[k] = e}
           Other(k) == IF k = i THEN j ELSE IF k = j THEN i ELSE k
           f == [k \in S |-> Other(k)]
<1>1. b \in [1 .. n -> Entries] /\ \A k \in 1 .. n : b[k] = a[Other(k)]
  BY SwappedIs DEF Swapped
<1>2. \A k \in 1 .. n : Other(k) \in 1 .. n /\ Other(Other(k)) = k
  OBVIOUS
<1>3. TimesIn(a, e) = Cardinality(S) /\ TimesIn(b, e) = Cardinality(T)
  <2>1. DOMAIN a = 1 .. n /\ DOMAIN b = 1 .. n
    BY <1>1
  <2> QED
    BY <2>1 DEF TimesIn
<1> HIDE DEF b, Other
<1>4. f \in [S -> T]
  BY <1>1, <1>2
<1>5. \A k, m \in S : f[k] = f[m] => k = m
  BY <1>2
<1>6. \A k \in T : \E m \in S : f[m] = k
  <2> SUFFICES ASSUME NEW k \in T PROVE Other(k) \in S /\ f[Other(k)] = k
    OBVIOUS
  <2> QED
    BY <1>1, <1>2
<1>7. f \in Bijection(S, T)
  <2> HIDE DEF f, S, T
  <2> QED
    BY <1>4, <1>5, <1>6 DEF Bijection, Injection, Surjection, IsInjective
<1>8. S \subseteq 1 .. n /\ IsFiniteSet(1 .. n)
  BY FS_Interval
<1>9. IsFiniteSet(S)
  BY <1>8, FS_Subset
<1>10. Cardinality(S) = Cardinality(T)
  BY <1>7, <1>9, FS_Bijection DEF ExistsBijection
<1> QED
  BY <1>3, <1>10 DEF b

\* An array in which a slice holds, in another order, what it held.
Shuffled(a, b, s) ==
  /\ b \in [1 .. Len(given) -> Entries]
  /\ \A p \in 1 .. Len(given) : ~Holds(s, p) => b[p] = a[p]
  /\ \A p \in 1 .. Len(given) :
       Holds(s, p) => \E q \in 1 .. Len(given) : Holds(s, q) /\ b[p] = a[q]

LEMMA SwappedShuffles ==
  ASSUME NEW a \in [1 .. Len(given) -> Entries], NEW s,
         NEW i \in 1 .. Len(given), NEW j \in 1 .. Len(given), Holds(s, i), Holds(s, j),
         Len(given) \in Nat
  PROVE  Shuffled(a, Swapped(a, i, j), s)
<1> DEFINE b == Swapped(a, i, j)
<1>1. /\ b \in [1 .. Len(given) -> Entries]
      /\ b[i] = a[j] /\ b[j] = a[i]
      /\ \A k \in 1 .. Len(given) : k # i /\ k # j => b[k] = a[k]
  BY SwappedIs
<1> HIDE DEF b
<1>2. Shuffled(a, b, s)
  <2> SUFFICES ASSUME NEW p \in 1 .. Len(given)
               PROVE  /\ ~Holds(s, p) => b[p] = a[p]
                      /\ Holds(s, p) => \E q \in 1 .. Len(given) : Holds(s, q) /\ b[p] = a[q]
    BY <1>1 DEF Shuffled
  <2>1. CASE p = i
    BY <1>1, <2>1
  <2>2. CASE p = j
    BY <1>1, <2>2
  <2>3. CASE p # i /\ p # j
    BY <1>1, <2>3
  <2> QED
    BY <2>1, <2>2, <2>3
<1> QED
  BY <1>2 DEF b

LEMMA SameEntriesSwapped ==
  ASSUME RTTypeOK, SameEntries, NEW i \in 1 .. Len(given), NEW j \in 1 .. Len(given),
         given' = given, table' = Swapped(table, i, j)
  PROVE  SameEntries'
<1>1. Len(given) \in Nat /\ table \in [1 .. Len(given) -> Entries]
  BY DEF RTTypeOK
<1>2. \A e \in Entries : TimesIn(Swapped(table, i, j), e) = TimesIn(table, e)
  BY <1>1, SwappedTimes
<1>3. \A e \in Entries : TimesIn(table', e) = TimesIn(given', e)
  BY <1>2 DEF SameEntries
<1>4. ASSUME NEW p \in 1 .. Len(given)
      PROVE  \E q \in 1 .. Len(given) : table'[p] = given[q]
  <2>1. \E k \in 1 .. Len(given) : table'[p] = table[k]
    BY <1>1, DOMAIN table = 1 .. Len(given) DEF Swapped
  <2> QED
    BY <2>1 DEF SameEntries
<1> QED
  BY <1>3, <1>4 DEF SameEntries

\* Parts of a slice.
LEMMA Halves ==
  ASSUME NEW c \in Frame, c.mid < c.size
  PROVE  /\ HalfOf(c).base \in Nat /\ HalfOf(c).size \in Nat
         /\ RestOf(c).base \in Nat /\ RestOf(c).size \in Nat
         /\ Within(HalfOf(c), c) /\ Within(RestOf(c), c)
         /\ 2 * HalfOf(c).size < c.size /\ RestOf(c).size < c.size
         /\ \A p \in Int : ~(Holds(HalfOf(c), p) /\ Holds(RestOf(c), p))
         /\ \A p \in Int : Holds(c, p) /\ p # c.base + c.mid + 1 =>
              Holds(HalfOf(c), p) \/ Holds(RestOf(c), p)
<1>1. CASE 2 * c.mid < c.size
  BY <1>1 DEF HalfOf, RestOf, Holds, Within, Frame
<1>2. CASE ~(2 * c.mid < c.size)
  BY <1>2 DEF HalfOf, RestOf, Holds, Within, Frame
<1> QED
  BY <1>1, <1>2

\* What is done within the slice at work leaves the rest in order.
LEMMA ShuffledOrdered ==
  ASSUME RTTypeOK, Nested, Ordered, step \in {"sort", "partition"},
         NEW b, Shuffled(table, b, Part),
         NEW p \in 1 .. Len(given), NEW q \in 1 .. Len(given), p < q
  PROVE  ~Greater(b[p], b[q]) \/ Pending(p, q)
<1>0. /\ Len(given) \in Nat /\ base \in Nat /\ size \in Nat /\ Len(calls) \in Nat
      /\ Part.base = base /\ Part.size = size
  BY DEF RTTypeOK, Part
<1>1. ASSUME NEW k \in 1 .. Len(calls), NEW t \in 1 .. Len(given), Holds(Part, t)
      PROVE  ~Holds(RestOf(calls[k]), t)
  <2>1. calls[k] \in Frame /\ calls[k].mid < calls[k].size
    <3>1. calls[k] \in Frame
      BY DEF RTTypeOK
    <3>2. calls[k].mid < calls[k].size
      BY DEF Nested
    <3> QED
      BY <3>1, <3>2
  <2>2. Holds(HalfOf(calls[k]), t)
    <3>1. Within(Part, HalfOf(calls[k]))
      BY DEF Nested
    <3>2. HalfOf(calls[k]).base \in Nat /\ HalfOf(calls[k]).size \in Nat
      BY <2>1, Halves
    <3> QED
      BY <1>0, <1>1, <3>1, <3>2 DEF Within, Holds
  <2> QED
    BY <2>1, <2>2, Halves
<1>2. CASE Holds(Part, p) /\ Holds(Part, q)
  BY <1>2 DEF Pending
<1>3. CASE ~Holds(Part, p) /\ ~Holds(Part, q)
  <2>1. b[p] = table[p] /\ b[q] = table[q]
    BY <1>3 DEF Shuffled
  <2> QED
    BY <2>1 DEF Ordered
<1>4. CASE Holds(Part, p) /\ ~Holds(Part, q)
  <2>1. PICK t \in 1 .. Len(given) : Holds(Part, t) /\ b[p] = table[t]
    BY <1>4 DEF Shuffled
  <2>2. t < q
    BY <1>0, <1>4, <2>1 DEF Holds
  <2>4. b[q] = table[q]
    BY <1>4 DEF Shuffled
  <2>3. ~Pending(t, q)
    BY <1>1, <1>4, <2>1 DEF Pending
  <2> QED
    BY <2>1, <2>2, <2>3, <2>4 DEF Ordered
<1>5. CASE ~Holds(Part, p) /\ Holds(Part, q)
  <2>1. PICK t \in 1 .. Len(given) : Holds(Part, t) /\ b[q] = table[t]
    BY <1>5 DEF Shuffled
  <2>2. p < t
    BY <1>0, <1>5, <2>1 DEF Holds
  <2>4. b[p] = table[p]
    BY <1>5 DEF Shuffled
  <2>3. ~Pending(p, t)
    BY <1>1, <1>5, <2>1 DEF Pending
  <2> QED
    BY <2>1, <2>2, <2>3, <2>4 DEF Ordered
<1> QED
  BY <1>2, <1>3, <1>4, <1>5

LEMMA RTInitInv == RTInit => RTInv
<1> SUFFICES ASSUME RTInit PROVE RTInv
  OBVIOUS
<1>1. PICK n \in 0 .. MaxEntries : given \in [1 .. n -> Entries]
  BY DEF RTInit
<1>2. n \in Nat /\ given \in Seq(Entries) /\ Len(given) = n
  BY <1>1, RangeTableAssumption
<1>3. RTTypeOK
  <2>1. calls \in Seq(Frame)
    BY DEF RTInit
  <2> QED
    BY <1>1, <1>2, <2>1 DEF RTInit, RTTypeOK
<1>4. Nested
  BY <1>2 DEF RTInit, Nested
<1>5. Ordered
  <2>1. \A p \in 1 .. Len(given) : Holds(Part, p)
    BY <1>2 DEF RTInit, Holds, Part
  <2> QED
    BY <2>1 DEF RTInit, Ordered, Pending
<1>6. SameEntries
  BY DEF RTInit, SameEntries
<1>7. Parting /\ Finding /\ CallsHalve /\ FindsTheRange
  BY DEF RTInit, Parting, Finding, CallsHalve, FindsTheRange
<1> QED
  BY <1>3, <1>4, <1>5, <1>6, <1>7 DEF RTInv

\* What the steps of a sort that stay in one slice have in common.
LEMMA SwapKeeps ==
  ASSUME RTInv, step \in {"sort", "partition"}, step' \in {"sort", "partition"},
         UNCHANGED <<given, slice, calls, search>>,
         NEW i \in 1 .. Len(given), NEW j \in 1 .. Len(given), Holds(Part, i), Holds(Part, j),
         table' = Swapped(table, i, j), mid' \in Nat, nxt' \in Nat
  PROVE  /\ RTTypeOK' /\ Nested' /\ Ordered' /\ SameEntries' /\ Finding'
         /\ CallsHalve' /\ FindsTheRange'
<1>1. /\ RTTypeOK /\ Nested /\ Ordered /\ SameEntries /\ CallsHalve
      /\ Len(given) \in Nat /\ table \in [1 .. Len(given) -> Entries]
  BY DEF RTInv, RTTypeOK
<1>2. /\ given' = given /\ base' = base /\ size' = size /\ calls' = calls
      /\ key' = key /\ lo' = lo /\ hi' = hi /\ entry' = entry /\ useless' = useless
  BY DEF slice, search
<1>3. Part' = Part
  BY <1>2 DEF Part
<1>4. Shuffled(table, table', Part)
  BY <1>1, SwappedShuffles
<1>5. RTTypeOK'
  <2>1. table' \in [1 .. Len(given) -> Entries]
    BY <1>4 DEF Shuffled
  <2> QED
    BY <1>1, <1>2, <2>1 DEF RTTypeOK
<1>6. Nested'
  BY <1>1, <1>2, <1>3 DEF Nested
<1>7. Ordered'
  <2>1. ASSUME NEW p \in 1 .. Len(given), NEW q \in 1 .. Len(given), p < q
        PROVE  ~Greater(table'[p], table'[q]) \/ Pending(p, q)
    BY <1>1, <1>4, <2>1, ShuffledOrdered
  <2>2. \A p, q : Pending(p, q)' <=> Pending(p, q)
    BY <1>2, <1>3 DEF Pending
  <2>3. ASSUME NEW p \in 1 .. Len(given'), NEW q \in 1 .. Len(given'), p < q
        PROVE  ~Greater(table'[p], table'[q]) \/ Pending(p, q)'
    BY <1>2, <2>1, <2>2, <2>3
  <2> QED
    BY <2>3 DEF Ordered
<1>8. SameEntries'
  BY <1>1, <1>2, SameEntriesSwapped
<1>9. Finding' /\ FindsTheRange'
  BY DEF Finding, FindsTheRange
<1>10. CallsHalve'
  BY <1>1, <1>2 DEF CallsHalve
<1> QED
  BY <1>5, <1>6, <1>7, <1>8, <1>9, <1>10

LEMMA PivotKeeps == RTInv /\ Pivot => RTInv'
<1> SUFFICES ASSUME RTInv, Pivot PROVE RTInv'
  OBVIOUS
<1> DEFINE i == base + 1
           j == base + size \div 2 + 1
<1>1. /\ Len(given) \in Nat /\ base \in Nat /\ size \in Nat /\ size >= 2
      /\ base + size <= Len(given)
  BY DEF RTInv, RTTypeOK, Nested, Pivot
<1>2. /\ i \in 1 .. Len(given) /\ j \in 1 .. Len(given) /\ Holds(Part, i) /\ Holds(Part, j)
  BY <1>1 DEF Holds, Part
<1>3. table' = Swapped(table, i, j) /\ mid' = 0 /\ nxt' = 1 /\ step' = "partition"
  BY DEF Pivot
<1>4. /\ step \in {"sort", "partition"} /\ step' \in {"sort", "partition"}
      /\ UNCHANGED <<given, slice, calls, search>> /\ mid' \in Nat /\ nxt' \in Nat
  BY DEF Pivot
<1> HIDE DEF i, j
<1>5. /\ RTTypeOK' /\ Nested' /\ Ordered' /\ SameEntries' /\ Finding'
      /\ CallsHalve' /\ FindsTheRange'
  BY <1>2, <1>3, <1>4, SwapKeeps
<1>6. Parting'
  <2>1. size' = size
    BY DEF Pivot, slice
  <2> QED
    BY <1>1, <1>3, <2>1 DEF Parting
<1> QED
  BY <1>5, <1>6 DEF RTInv

LEMMA PartitionKeeps == RTInv /\ Partition => RTInv'
<1> SUFFICES ASSUME RTInv, Partition PROVE RTInv'
  OBVIOUS
<1>1. /\ RTTypeOK /\ Nested /\ Parting /\ step = "partition" /\ step' = "partition"
      /\ nxt < size /\ nxt' = nxt + 1
      /\ UNCHANGED <<given, slice, calls, search>>
  BY DEF RTInv, Partition
<1>2. /\ Len(given) \in Nat /\ base \in Nat /\ size \in Nat /\ mid \in Nat /\ nxt \in Nat
      /\ base + size <= Len(given) /\ 2 <= size /\ 1 <= nxt /\ mid < nxt
      /\ base' = base /\ size' = size /\ given' = given
      /\ table \in [1 .. Len(given) -> Entries]
  BY <1>1 DEF RTTypeOK, Nested, Parting, slice
<1>a. /\ \A k \in 1 .. mid : Greater(table[base + 1], table[base + k + 1])
      /\ \A k \in mid + 1 .. nxt - 1 : ~Greater(table[base + 1], table[base + k + 1])
  BY <1>1 DEF Parting
<1>3. CASE Greater(table[base + 1], table[base + nxt + 1])
  <2> DEFINE i == base + (mid + 1) + 1
             j == base + nxt + 1
  <2>1. i \in 1 .. Len(given) /\ j \in 1 .. Len(given) /\ Holds(Part, i) /\ Holds(Part, j)
    BY <1>1, <1>2 DEF Holds, Part
  <2>2. mid' = mid + 1 /\ table' = Swapped(table, i, j)
    BY <1>3 DEF Partition
  <2>3. /\ table'[i] = table[j] /\ table'[j] = table[i]
        /\ \A k \in 1 .. Len(given) : k # i /\ k # j => table'[k] = table[k]
    BY <1>2, <2>1, <2>2, SwappedIs
  <2>4. /\ RTTypeOK' /\ Nested' /\ Ordered' /\ SameEntries' /\ Finding'
        /\ CallsHalve' /\ FindsTheRange'
    <3> HIDE DEF i, j
    <3>1. mid' \in Nat /\ nxt' \in Nat
      BY <1>1, <1>2, <2>2
    <3> QED
      BY <1>1, <2>1, <2>2, <3>1, SwapKeeps
  <2>5. table'[base + 1] = table[base + 1]
    BY <1>1, <1>2, <2>3
  <2>6. ASSUME NEW k \in 1 .. mid + 1 PROVE Greater(table[base + 1], table'[base + k + 1])
    <3>1. CASE k = mid + 1
      BY <1>3, <2>3, <3>1
    <3>2. CASE k \in 1 .. mid
      <4>1. table'[base + k + 1] = table[base + k + 1]
        BY <1>1, <1>2, <2>3, <3>2
      <4> QED
        BY <1>a, <3>2, <4>1
    <3> QED
      BY <1>2, <3>1, <3>2
  <2>7. ASSUME NEW k \in mid + 2 .. nxt PROVE ~Greater(table[base + 1], table'[base + k + 1])
    <3>1. CASE k = nxt
      <4>1. table'[base + k + 1] = table[base + (mid + 1) + 1] /\ mid + 1 \in mid + 1 .. nxt - 1
        BY <1>2, <2>3, <2>7, <3>1
      <4> QED
        BY <1>a, <4>1
    <3>2. CASE k # nxt
      <4>1. table'[base + k + 1] = table[base + k + 1] /\ k \in mid + 1 .. nxt - 1
        BY <1>1, <1>2, <2>3, <2>7, <3>2
      <4> QED
        BY <1>a, <4>1
    <3> QED
      BY <3>1, <3>2
  <2>8. Parting'
    <3>1. 2 <= size' /\ 1 <= nxt' /\ nxt' <= size' /\ mid' < nxt'
      BY <1>1, <1>2, <2>2
    <3>2. \A k \in 1 .. mid' : Greater(table'[base' + 1], table'[base' + k + 1])
      BY <1>2, <2>2, <2>5, <2>6
    <3>3. mid' + 1 = mid + 2 /\ nxt' - 1 = nxt
      BY <1>1, <1>2, <2>2
    <3>4. \A k \in mid' + 1 .. nxt' - 1 : ~Greater(table'[base' + 1], table'[base' + k + 1])
      BY <1>2, <2>5, <2>7, <3>3
    <3> QED
      BY <3>1, <3>2, <3>4 DEF Parting
  <2> QED
    BY <2>4, <2>8 DEF RTInv
<1>4. CASE ~Greater(table[base + 1], table[base + nxt + 1])
  <2>1. mid' = mid /\ table' = table
    BY <1>4 DEF Partition
  <2> DEFINE i == base + 1
  <2>2. i \in 1 .. Len(given) /\ Holds(Part, i)
    BY <1>2 DEF Holds, Part
  <2>3. table' = Swapped(table, i, i)
    BY <1>2, <2>1 DEF Swapped
  <2>4. /\ RTTypeOK' /\ Nested' /\ Ordered' /\ SameEntries' /\ Finding'
        /\ CallsHalve' /\ FindsTheRange'
    <3> HIDE DEF i
    <3>1. mid' \in Nat /\ nxt' \in Nat
      BY <1>1, <1>2, <2>1
    <3> QED
      BY <1>1, <2>2, <2>3, <3>1, SwapKeeps
  <2>5. ASSUME NEW k \in mid + 1 .. nxt PROVE ~Greater(table[base + 1], table[base + k + 1])
    <3>1. CASE k = nxt
      BY <1>4, <3>1
    <3>2. CASE k # nxt
      <4>1. k \in mid + 1 .. nxt - 1
        BY <1>2, <3>2
      <4> QED
        BY <1>a, <4>1
    <3> QED
      BY <3>1, <3>2
  <2>6. Parting'
    <3>1. 2 <= size' /\ 1 <= nxt' /\ nxt' <= size' /\ mid' < nxt'
      BY <1>1, <1>2, <2>1
    <3>2. \A k \in 1 .. mid' : Greater(table'[base' + 1], table'[base' + k + 1])
      BY <1>2, <1>a, <2>1
    <3>3. mid' + 1 = mid + 1 /\ nxt' - 1 = nxt
      BY <1>1, <1>2, <2>1
    <3>4. \A k \in mid' + 1 .. nxt' - 1 : ~Greater(table'[base' + 1], table'[base' + k + 1])
      BY <1>2, <2>1, <2>5, <3>3
    <3> QED
      BY <3>1, <3>2, <3>4 DEF Parting
  <2> QED
    BY <2>4, <2>6 DEF RTInv
<1> QED
  BY <1>3, <1>4

LEMMA WithinIsTransitive ==
  ASSUME NEW s, NEW t, NEW u, s.base \in Nat, s.size \in Nat, t.base \in Nat, t.size \in Nat,
         u.base \in Nat, u.size \in Nat, Within(s, t), Within(t, u)
  PROVE  Within(s, u)
BY DEF Within

\* A call that waits: the one at k is a frame with two parts.
LEMMA FrameIs ==
  ASSUME RTTypeOK, Nested, step \in {"sort", "partition"}, NEW k \in 1 .. Len(calls)
  PROVE  /\ calls[k] \in Frame /\ calls[k].mid < calls[k].size /\ 2 <= calls[k].size
         /\ calls[k].base \in Nat /\ calls[k].size \in Nat /\ calls[k].mid \in Nat
         /\ calls[k].base + calls[k].size <= Len(given)
         /\ HalfOf(calls[k]).base \in Nat /\ HalfOf(calls[k]).size \in Nat
         /\ RestOf(calls[k]).base \in Nat /\ RestOf(calls[k]).size \in Nat
<1>1. calls[k] \in Frame
  BY DEF RTTypeOK
<1>2. /\ calls[k].mid < calls[k].size /\ calls[k].size >= 2
      /\ calls[k].base + calls[k].size <= Len(given)
  BY DEF Nested
<1>3. calls[k].base \in Nat /\ calls[k].size \in Nat /\ calls[k].mid \in Nat
  BY <1>1 DEF Frame
<1>4. /\ HalfOf(calls[k]).base \in Nat /\ HalfOf(calls[k]).size \in Nat
      /\ RestOf(calls[k]).base \in Nat /\ RestOf(calls[k]).size \in Nat
  BY <1>1, <1>2, Halves
<1>5. 2 <= calls[k].size
  BY <1>2, <1>3
<1> QED
  BY <1>1, <1>2, <1>3, <1>4, <1>5

LEMMA RecurseKeeps == RTInv /\ Recurse => RTInv'
<1> SUFFICES ASSUME RTInv, Recurse PROVE RTInv'
  OBVIOUS
<1> DEFINE c == [base |-> base, size |-> size, mid |-> mid]
           i == base + 1
           j == base + mid + 1
<1>1. /\ RTTypeOK /\ Nested /\ Ordered /\ Parting /\ SameEntries /\ CallsHalve
      /\ step = "partition" /\ step' = "sort" /\ nxt = size
      /\ table' = Swapped(table, i, j) /\ calls' = Append(calls, c)
      /\ given' = given /\ mid' = mid /\ nxt' = nxt
      /\ key' = key /\ lo' = lo /\ hi' = hi /\ entry' = entry
  BY DEF RTInv, Recurse, search
<1>2. /\ Len(given) \in Nat /\ base \in Nat /\ size \in Nat /\ mid \in Nat /\ mid < size
      /\ base + size <= Len(given) /\ 2 <= size
      /\ table \in [1 .. Len(given) -> Entries] /\ Len(calls) \in Nat
      /\ calls \in Seq(Frame)
  BY <1>1 DEF RTTypeOK, Nested, Parting
<1>3. c \in Frame /\ c.base = base /\ c.size = size /\ c.mid = mid
  BY <1>2 DEF Frame
<1>4. base' = HalfOf(c).base /\ size' = HalfOf(c).size
  <2>1. CASE 2 * mid < size
    BY <2>1 DEF Recurse, HalfOf
  <2>2. CASE ~(2 * mid < size)
    BY <2>2 DEF Recurse, HalfOf
  <2> QED
    BY <2>1, <2>2
<1>5. /\ Len(calls') = Len(calls) + 1 /\ calls'[Len(calls) + 1] = c
      /\ \A k \in 1 .. Len(calls) : calls'[k] = calls[k]
      /\ calls' \in Seq(Frame)
  <2> HIDE DEF c
  <2> QED
    BY <1>1, <1>2, <1>3
<1>6. /\ base' \in Nat /\ size' \in Nat /\ Within(HalfOf(c), c) /\ 2 * size' < size
      /\ Part'.base = base' /\ Part'.size = size' /\ Part.base = base /\ Part.size = size
  <2>1. c.mid < c.size
    BY <1>2, <1>3
  <2> HIDE DEF c
  <2> QED
    BY <1>3, <1>4, <2>1, Halves DEF Part
<1>7. i \in 1 .. Len(given) /\ j \in 1 .. Len(given) /\ Holds(Part, i) /\ Holds(Part, j)
  BY <1>2 DEF Holds, Part
<1>8. /\ Shuffled(table, table', Part) /\ table' \in [1 .. Len(given) -> Entries]
      /\ table'[i] = table[j] /\ table'[j] = table[i]
      /\ \A k \in 1 .. Len(given) : k # i /\ k # j => table'[k] = table[k]
  <2> HIDE DEF i, j
  <2> QED
    BY <1>1, <1>2, <1>7, SwappedIs, SwappedShuffles
<1> DEFINE Left(p) == base < p /\ p <= base + mid
           Right(p) == base + mid + 1 < p /\ p <= base + size
<1>9. ASSUME NEW p \in 1 .. Len(given), Left(p) PROVE Greater(table'[j], table'[p])
  <2>1. \A k \in 1 .. mid : Greater(table[base + 1], table[base + k + 1])
    BY <1>1 DEF Parting
  <2>2. CASE p = i
    <3>1. mid \in 1 .. mid
      BY <1>2, <1>9, <2>2
    <3> QED
      BY <1>8, <2>1, <2>2, <3>1
  <2>3. CASE p # i
    <3>1. p - base - 1 \in 1 .. mid /\ base + (p - base - 1) + 1 = p /\ p # j
      BY <1>2, <1>9, <2>3
    <3>2. Greater(table[base + 1], table[p])
      BY <2>1, <3>1
    <3> QED
      BY <1>8, <2>3, <3>1, <3>2
  <2> QED
    BY <2>2, <2>3
<1>10. ASSUME NEW p \in 1 .. Len(given), Right(p) PROVE ~Greater(table'[j], table'[p])
  <2>1. \A k \in mid + 1 .. size - 1 : ~Greater(table[base + 1], table[base + k + 1])
    BY <1>1 DEF Parting
  <2>2. /\ p - base - 1 \in mid + 1 .. size - 1 /\ base + (p - base - 1) + 1 = p
        /\ p # j /\ p # i
    BY <1>2, <1>10
  <2>3. ~Greater(table[base + 1], table[p])
    BY <2>1, <2>2
  <2> QED
    BY <1>8, <2>2, <2>3
<1>11. ASSUME NEW p \in 1 .. Len(given), NEW q \in 1 .. Len(given),
              (Left(p) /\ Left(q)) \/ (Right(p) /\ Right(q))
       PROVE  Pending(p, q)'
  <2>1. \/ Holds(HalfOf(c), p) /\ Holds(HalfOf(c), q)
        \/ Holds(RestOf(c), p) /\ Holds(RestOf(c), q)
    <3>1. CASE 2 * mid < size
      BY <1>2, <1>11, <3>1 DEF Holds, HalfOf, RestOf
    <3>2. CASE ~(2 * mid < size)
      BY <1>2, <1>11, <3>2 DEF Holds, HalfOf, RestOf
    <3> QED
      BY <3>1, <3>2
  <2>2. CASE Holds(HalfOf(c), p) /\ Holds(HalfOf(c), q)
    <3>1. Holds(Part, p)' /\ Holds(Part, q)'
      BY <1>4, <1>6, <2>2 DEF Holds
    <3> QED
      BY <3>1 DEF Pending
  <2>3. CASE Holds(RestOf(c), p) /\ Holds(RestOf(c), q)
    <3>1. Len(calls) + 1 \in 1 .. Len(calls')
      BY <1>2, <1>5
    <3>2. /\ Holds(RestOf(calls'[Len(calls) + 1]), p)
          /\ Holds(RestOf(calls'[Len(calls) + 1]), q)
      BY <1>5, <2>3
    <3> QED
      BY <3>1, <3>2 DEF Pending
  <2> QED
    BY <2>1, <2>2, <2>3
<1>12. ASSUME NEW p \in 1 .. Len(given), NEW q \in 1 .. Len(given), p < q,
              Holds(Part, p), Holds(Part, q)
       PROVE  ~Greater(table'[p], table'[q]) \/ Pending(p, q)'
  <2>1. table'[p] \in Entries /\ table'[q] \in Entries /\ table'[j] \in Entries
    BY <1>7, <1>8
  <2>2. \/ (Left(p) /\ Left(q)) \/ (Right(p) /\ Right(q))
        \/ Left(p) /\ q = j
        \/ p = j /\ Right(q)
        \/ Left(p) /\ Right(q)
    <3>1. base < p /\ p <= base + size /\ base < q /\ q <= base + size
      BY <1>6, <1>12 DEF Holds
    <3> QED
      BY <1>2, <1>12, <3>1
  <2> HIDE DEF j, Left, Right
  <2>3. CASE Left(p) /\ q = j
    BY <1>9, <2>1, <2>3, GreaterIsAnOrder
  <2>4. CASE p = j /\ Right(q)
    BY <1>10, <2>4
  <2>5. CASE Left(p) /\ Right(q)
    BY <1>9, <1>10, <2>1, <2>5, GreaterIsAnOrder
  <2> QED
    BY <1>11, <2>2, <2>3, <2>4, <2>5
<1>13. Ordered'
  <2>1. ASSUME NEW p \in 1 .. Len(given), NEW q \in 1 .. Len(given), p < q
        PROVE  ~Greater(table'[p], table'[q]) \/ Pending(p, q)'
    <3>1. ~Greater(table'[p], table'[q]) \/ Pending(p, q)
      BY <1>1, <1>8, <2>1, ShuffledOrdered
    <3>2. ASSUME NEW k \in 1 .. Len(calls), Holds(RestOf(calls[k]), p), Holds(RestOf(calls[k]), q)
          PROVE  Pending(p, q)'
      <4>1. k \in 1 .. Len(calls') /\ calls'[k] = calls[k]
        BY <1>2, <1>5
      <4> QED
        BY <3>2, <4>1 DEF Pending
    <3> QED
      BY <1>12, <2>1, <3>1, <3>2 DEF Pending
  <2> QED
    BY <1>1, <2>1 DEF Ordered
<1>14. Nested'
  <2>1. base' + size' <= Len(given)
    BY <1>2, <1>3, <1>4, <1>6 DEF Within
  <2>2. ASSUME NEW k \in 1 .. Len(calls')
        PROVE  /\ calls'[k].size >= 2 /\ calls'[k].mid < calls'[k].size
               /\ calls'[k].base + calls'[k].size <= Len(given)
               /\ Within(Part', HalfOf(calls'[k]))
               /\ \A m \in k + 1 .. Len(calls') : Within(calls'[m], HalfOf(calls'[k]))
    <3>1. CASE k = Len(calls) + 1
      <4>1. calls'[k] = c /\ k + 1 .. Len(calls') = {}
        BY <1>2, <1>5, <3>1
      <4>2. Within(Part', HalfOf(c))
        BY <1>4, <1>6 DEF Within
      <4>3. c.size >= 2 /\ c.mid < c.size /\ c.base + c.size <= Len(given)
        BY <1>2
      <4> HIDE DEF c
      <4> QED
        BY <4>1, <4>2, <4>3
    <3>2. CASE k \in 1 .. Len(calls)
      <4>1. calls'[k] = calls[k] /\ step \in {"sort", "partition"}
        BY <1>1, <1>5, <3>2
      <4>2. /\ calls[k].mid < calls[k].size /\ calls[k].size >= 2
            /\ calls[k].base + calls[k].size <= Len(given)
            /\ Within(Part, HalfOf(calls[k]))
            /\ \A m \in k + 1 .. Len(calls) : Within(calls[m], HalfOf(calls[k]))
        BY <1>1, <3>2, <4>1 DEF Nested
      <4>3. HalfOf(calls[k]).base \in Nat /\ HalfOf(calls[k]).size \in Nat
        BY <1>1, <3>2, <4>1, FrameIs
      <4>4. Within(Part', Part)
        BY <1>3, <1>4, <1>6 DEF Within
      <4>5. Within(Part', HalfOf(calls[k]))
        <5>1. /\ Part'.base \in Nat /\ Part'.size \in Nat
              /\ Part.base \in Nat /\ Part.size \in Nat
          BY <1>2, <1>6
        <5> QED
          BY <4>2, <4>3, <4>4, <5>1, WithinIsTransitive
      <4>6. Within(c, HalfOf(calls[k]))
        BY <1>3, <1>6, <4>2 DEF Within
      <4>7. ASSUME NEW m \in k + 1 .. Len(calls')
            PROVE  Within(calls'[m], HalfOf(calls[k]))
        <5>1. CASE m = Len(calls) + 1
          BY <1>5, <4>6, <5>1
        <5>2. CASE m \in k + 1 .. Len(calls)
          <6>1. m \in 1 .. Len(calls)
            BY <1>2, <3>2, <5>2
          <6> QED
            BY <1>5, <4>2, <5>2, <6>1
        <5> QED
          BY <1>2, <1>5, <3>2, <5>1, <5>2
      <4> QED
        BY <4>1, <4>2, <4>5, <4>7
    <3> QED
      BY <1>2, <1>5, <3>1, <3>2
  <2> QED
    BY <1>1, <2>1, <2>2 DEF Nested
<1>15. RTTypeOK'
  BY <1>1, <1>2, <1>5, <1>6, <1>8 DEF RTTypeOK
<1>16. SameEntries'
  <2> HIDE DEF i, j
  <2> QED
    BY <1>1, <1>7, SameEntriesSwapped
<1>17. CallsHalve'
  <2>1. ASSUME NEW k \in 1 .. Len(calls') - 1
        PROVE  2 * calls'[k + 1].size < calls'[k].size
    <3>1. CASE k = Len(calls)
      <4>1. calls # <<>> /\ calls'[k] = calls[Len(calls)]
        BY <1>2, <1>5, <2>1, <3>1
      <4>2. 2 * size < calls[Len(calls)].size
        BY <1>1, <4>1 DEF CallsHalve
      <4> QED
        BY <1>3, <1>5, <3>1, <4>1, <4>2
    <3>2. CASE k \in 1 .. Len(calls) - 1
      <4>1. /\ k \in 1 .. Len(calls) /\ k + 1 \in 1 .. Len(calls)
        BY <1>2, <3>2
      <4>2. 2 * calls[k + 1].size < calls[k].size
        BY <1>1, <3>2 DEF CallsHalve
      <4> QED
        BY <1>5, <4>1, <4>2
    <3> QED
      BY <1>2, <1>5, <3>1, <3>2
  <2>2. 2 * size' < calls'[Len(calls')].size
    BY <1>3, <1>5, <1>6
  <2>3. calls'[1].size <= Len(given)
    <3>1. CASE calls = <<>>
      <4>1. calls'[1] = c
        BY <1>5, <3>1
      <4> QED
        BY <1>2, <4>1
    <3>2. CASE calls # <<>>
      <4>1. 1 \in 1 .. Len(calls) /\ calls[1].size <= Len(given)
        BY <1>1, <1>2, <3>2 DEF CallsHalve
      <4> QED
        BY <1>5, <4>1
    <3> QED
      BY <3>1, <3>2
  <2> QED
    BY <1>1, <2>1, <2>2, <2>3 DEF CallsHalve
<1>18. Parting' /\ Finding' /\ FindsTheRange'
  BY <1>1 DEF Parting, Finding, FindsTheRange
<1> QED
  BY <1>13, <1>14, <1>15, <1>16, <1>17, <1>18 DEF RTInv

LEMMA FrontOf ==
  ASSUME NEW S, NEW s \in Seq(S), NEW m \in 0 .. Len(s)
  PROVE  /\ SubSeq(s, 1, m) \in Seq(S) /\ Len(SubSeq(s, 1, m)) = m
         /\ \A k \in 1 .. m : SubSeq(s, 1, m)[k] = s[k]
OBVIOUS

LEMMA ReturnFromKeeps == RTInv /\ ReturnFrom => RTInv'
<1> SUFFICES ASSUME RTInv, ReturnFrom PROVE RTInv'
  OBVIOUS
<1> DEFINE n == Len(calls)
           rest == RestOf(calls[n])
<1>1. /\ RTTypeOK /\ Nested /\ Ordered /\ SameEntries /\ CallsHalve
      /\ step = "sort" /\ size < 2 /\ given' = given /\ table' = table
      /\ mid' = mid /\ nxt' = nxt
      /\ key' = key /\ lo' = lo /\ hi' = hi /\ entry' = entry
  BY DEF RTInv, ReturnFrom, search
<1>2. /\ Len(given) \in Nat /\ base \in Nat /\ size \in Nat /\ n \in Nat
      /\ base + size <= Len(given) /\ calls \in Seq(Frame)
      /\ Part.base = base /\ Part.size = size
  BY <1>1 DEF RTTypeOK, Nested, Part
<1>3. SameEntries'
  BY <1>1 DEF SameEntries
<1>4. \A p, q \in 1 .. Len(given) : p < q => ~(Holds(Part, p) /\ Holds(Part, q))
  BY <1>1, <1>2 DEF Holds
<1>5. CASE calls = <<>>
  <2>1. step' = "sorted" /\ base' = base /\ size' = size /\ calls' = calls
    BY <1>5 DEF ReturnFrom, slice
  <2>2. RTTypeOK'
    BY <1>1, <2>1 DEF RTTypeOK
  <2>3. Ordered'
    <3>1. 1 .. Len(calls) = {}
      BY <1>5
    <3>2. \A p, q \in 1 .. Len(given) : p < q => ~Pending(p, q)
      BY <1>4, <3>1 DEF Pending
    <3> QED
      BY <1>1, <3>2 DEF Ordered
  <2>4. Nested' /\ Parting' /\ Finding' /\ CallsHalve' /\ FindsTheRange'
    BY <2>1 DEF Nested, Parting, Finding, CallsHalve, FindsTheRange
  <2> QED
    BY <1>3, <2>2, <2>3, <2>4 DEF RTInv
<1>6. CASE calls # <<>>
  <2>1. /\ step' = "sort" /\ base' = rest.base /\ size' = rest.size
        /\ calls' = SubSeq(calls, 1, n - 1)
    BY <1>1, <1>6 DEF ReturnFrom
  <2>2. n \in 1 .. n /\ n >= 1
    BY <1>2, <1>6
  <2>3. /\ calls' \in Seq(Frame) /\ Len(calls') = n - 1
        /\ \A k \in 1 .. n - 1 : calls'[k] = calls[k]
    <3>1. n - 1 \in 0 .. Len(calls)
      BY <1>2, <2>2
    <3> HIDE DEF n
    <3> QED
      BY <1>2, <2>1, <3>1, FrontOf
  <2>4. /\ calls[n] \in Frame /\ calls[n].mid < calls[n].size
        /\ calls[n].base \in Nat /\ calls[n].size \in Nat
        /\ calls[n].base + calls[n].size <= Len(given)
    BY <1>1, <2>2, FrameIs
  <2>5. /\ rest.base \in Nat /\ rest.size \in Nat /\ Within(rest, calls[n])
        /\ rest.size < calls[n].size /\ Part'.base = rest.base /\ Part'.size = rest.size
    BY <2>1, <2>4, Halves DEF Part
  <2> HIDE DEF rest
  <2>6. RTTypeOK'
    BY <1>1, <2>1, <2>3, <2>5 DEF RTTypeOK
  <2>7. Nested'
    <3>1. base' + size' <= Len(given)
      BY <1>2, <2>1, <2>4, <2>5 DEF Within
    <3>2. ASSUME NEW k \in 1 .. n - 1
          PROVE  /\ calls[k].size >= 2 /\ calls[k].mid < calls[k].size
                 /\ calls[k].base + calls[k].size <= Len(given)
                 /\ Within(Part', HalfOf(calls[k]))
                 /\ \A m \in k + 1 .. n - 1 : Within(calls[m], HalfOf(calls[k]))
      <4>1. k \in 1 .. n /\ n \in k + 1 .. n /\ \A m \in k + 1 .. n - 1 : m \in k + 1 .. n
        BY <1>2, <2>2
      <4>2. /\ calls[k].size >= 2 /\ calls[k].mid < calls[k].size
            /\ calls[k].base + calls[k].size <= Len(given)
            /\ \A m \in k + 1 .. n : Within(calls[m], HalfOf(calls[k]))
        BY <1>1, <4>1 DEF Nested
      <4>3. HalfOf(calls[k]).base \in Nat /\ HalfOf(calls[k]).size \in Nat
        BY <1>1, <4>1, FrameIs
      <4>4. Within(calls[n], HalfOf(calls[k])) /\ Within(Part', calls[n])
        BY <2>5, <4>1, <4>2 DEF Within
      <4>5. Part'.base \in Nat /\ Part'.size \in Nat
        BY <2>5
      <4>6. Within(Part', HalfOf(calls[k]))
        BY <2>4, <4>3, <4>4, <4>5, WithinIsTransitive
      <4> QED
        BY <4>1, <4>2, <4>6
    <3>3. \A k \in 1 .. n - 1 : \A m \in k + 1 .. n - 1 : m \in 1 .. n - 1
      BY <1>2
    <3>4. ASSUME NEW k \in 1 .. Len(calls')
          PROVE  /\ calls'[k].size >= 2 /\ calls'[k].mid < calls'[k].size
                 /\ calls'[k].base + calls'[k].size <= Len(given)
                 /\ Within(Part', HalfOf(calls'[k]))
                 /\ \A m \in k + 1 .. Len(calls') : Within(calls'[m], HalfOf(calls'[k]))
      BY <2>3, <3>2, <3>3
    <3> QED
      BY <1>1, <3>1, <3>4 DEF Nested
  <2>8. Ordered'
    <3>1. ASSUME NEW p \in 1 .. Len(given), NEW q \in 1 .. Len(given), p < q, Pending(p, q)
          PROVE  Pending(p, q)'
      <4>1. PICK k \in 1 .. n : Holds(RestOf(calls[k]), p) /\ Holds(RestOf(calls[k]), q)
        BY <1>4, <3>1 DEF Pending
      <4>2. CASE k = n
        <5>1. Holds(Part, p)' /\ Holds(Part, q)'
          BY <2>5, <4>1, <4>2 DEF Holds, rest
        <5> QED
          BY <5>1 DEF Pending
      <4>3. CASE k # n
        <5>1. k \in 1 .. Len(calls') /\ calls'[k] = calls[k]
          BY <1>2, <2>3, <4>3
        <5> QED
          BY <4>1, <5>1 DEF Pending
      <4> QED
        BY <4>2, <4>3
    <3> QED
      BY <1>1, <2>1, <3>1 DEF Ordered
  <2>9. CallsHalve'
    <3>1. ASSUME NEW k \in 1 .. Len(calls') - 1
          PROVE  2 * calls'[k + 1].size < calls'[k].size
      <4>1. k \in 1 .. n - 1 /\ k + 1 \in 1 .. n - 1
        BY <1>2, <2>3
      <4> QED
        BY <1>1, <2>3, <4>1 DEF CallsHalve
    <3>2. ASSUME calls' # <<>>
          PROVE  2 * size' < calls'[Len(calls')].size /\ calls'[1].size <= Len(given)
      <4>1. n - 1 \in 1 .. n - 1 /\ 1 \in 1 .. n - 1
        <5>1. Len(calls') >= 1
          BY <2>3, <3>2
        <5> QED
          BY <1>2, <2>3, <5>1
      <4>2. /\ 2 * calls[(n - 1) + 1].size < calls[n - 1].size
            /\ calls[1].size <= Len(given)
        BY <1>1, <1>6, <4>1 DEF CallsHalve
      <4>3. calls'[Len(calls')] = calls[n - 1] /\ calls'[1] = calls[1] /\ (n - 1) + 1 = n
        BY <1>2, <2>3, <4>1
      <4>4. calls[n - 1].size \in Nat
        <5> HIDE DEF n
        <5>1. n - 1 \in 1 .. n
          BY <1>2, <4>1
        <5> QED
          BY <1>1, <5>1, FrameIs DEF n
      <4>5. 2 * calls[n].size < calls[n - 1].size
        BY <4>2, <4>3
      <4>6. 2 * rest.size < calls[n - 1].size
        BY <2>4, <2>5, <4>4, <4>5
      <4> QED
        BY <2>1, <4>2, <4>3, <4>6
    <3> QED
      BY <1>1, <3>1, <3>2 DEF CallsHalve
  <2>10. Parting' /\ Finding' /\ FindsTheRange'
    BY <2>1 DEF Parting, Finding, FindsTheRange
  <2> QED
    BY <1>3, <2>6, <2>7, <2>8, <2>9, <2>10 DEF RTInv
<1> QED
  BY <1>5, <1>6

\* The table once it is sorted.
LEMMA InOrder ==
  ASSUME RTInv, step \notin {"sort", "partition"},
         NEW i \in 1 .. Len(given), NEW j \in 1 .. Len(given), i < j
  PROVE  ~Greater(table[i], table[j]) /\ table[i].low <= table[j].low
<1>1. ~Greater(table[i], table[j])
  BY DEF RTInv, Ordered
<1>2. table[i] \in Entries /\ table[j] \in Entries
  BY DEF RTInv, RTTypeOK
<1>3. table[i].low \in Int /\ table[j].low \in Int
  BY <1>2, EntryIs
<1> QED
  BY <1>1, <1>3 DEF Greater

LEMMA ApartInTable ==
  ASSUME RTInv, Apart, NEW i \in 1 .. Len(given), NEW j \in 1 .. Len(given),
         Has(table[i], key), table[j].high <= key
  PROVE  Greater(table[i], table[j])
<1>1. PICK k \in 1 .. Len(given) : table[i] = given[k]
  BY DEF RTInv, SameEntries
<1>2. PICK m \in 1 .. Len(given) : table[j] = given[m]
  BY DEF RTInv, SameEntries
<1>3. DOMAIN given = 1 .. Len(given)
  BY DEF RTInv, RTTypeOK
<1> QED
  BY <1>1, <1>2, <1>3 DEF Apart

\* Of three entries the middle one has the address if the other two have.
LEMMA Contiguous ==
  ASSUME RTInv, Apart, step \notin {"sort", "partition"},
         NEW i \in 1 .. Len(given), NEW j \in 1 .. Len(given), NEW k \in 1 .. Len(given),
         i < j, j <= k, Has(table[i], key), Has(table[k], key)
  PROVE  Has(table[j], key)
<1>1. /\ key \in Int /\ table[j] \in Entries /\ table[k] \in Entries
  BY DEF RTInv, RTTypeOK
<1>2. table[j].low \in Int /\ table[j].high \in Int /\ table[k].low \in Int
  BY <1>1, EntryIs
<1>3. table[j].low <= key
  <2>1. CASE j = k
    BY <2>1 DEF Has
  <2>2. CASE j < k
    <3>1. table[j].low <= table[k].low
      BY <2>2, InOrder
    <3> QED
      BY <1>1, <1>2, <3>1 DEF Has
  <2>3. j \in Int /\ k \in Int
    OBVIOUS
  <2> QED
    BY <2>1, <2>2, <2>3
<1>4. ~(table[j].high <= key)
  BY InOrder, ApartInTable
<1> QED
  BY <1>1, <1>2, <1>3, <1>4 DEF Has

\* A look-up changes nothing of the table.
LEMMA SearchKeeps ==
  ASSUME RTInv, step \notin {"sort", "partition"}, step' \in {"bsearch", "onward", "back", "found"},
         UNCHANGED <<given, table, slice, mid, nxt, calls>>,
         key' \in Int, lo' \in Nat, hi' \in Nat, entry' \in Nat
  PROVE  RTTypeOK' /\ Nested' /\ Ordered' /\ Parting' /\ SameEntries' /\ CallsHalve'
<1>1. /\ RTTypeOK /\ Ordered /\ SameEntries /\ given' = given /\ table' = table
      /\ base' = base /\ size' = size /\ mid' = mid /\ nxt' = nxt /\ calls' = calls
  BY DEF RTInv, slice
<1>2. RTTypeOK'
  BY <1>1 DEF RTTypeOK
<1>3. Ordered'
  <2>1. \A p, q \in 1 .. Len(given) : p < q => ~Greater(table[p], table[q])
    BY <1>1 DEF Ordered
  <2> QED
    BY <1>1, <2>1 DEF Ordered
<1>4. SameEntries'
  BY <1>1 DEF SameEntries
<1>5. Nested' /\ Parting' /\ CallsHalve'
  BY DEF Nested, Parting, CallsHalve
<1> QED
  BY <1>2, <1>3, <1>4, <1>5

LEMMA LookUpKeeps == RTInv /\ LookUp => RTInv'
<1> SUFFICES ASSUME RTInv, LookUp PROVE RTInv'
  OBVIOUS
<1>1. /\ step \in {"sorted", "found"} /\ step' = "bsearch"
      /\ UNCHANGED <<given, table, slice, mid, nxt, calls>>
      /\ lo' = 0 /\ hi' = Len(table) /\ entry' = 0 /\ key' \in Int
  BY RangeTableAssumption DEF LookUp
<1>2. Len(given) \in Nat /\ Len(table) = Len(given)
  BY DEF RTInv, RTTypeOK
<1>3. RTTypeOK' /\ Nested' /\ Ordered' /\ Parting' /\ SameEntries' /\ CallsHalve'
  BY <1>1, <1>2, SearchKeeps
<1>4. Finding'
  <2>1. \A i \in 1 .. Len(given) : lo' < i /\ i <= hi'
    BY <1>1, <1>2
  <2> QED
    BY <1>1, <1>2, <2>1 DEF Finding
<1>5. FindsTheRange'
  BY <1>1 DEF FindsTheRange
<1> QED
  BY <1>3, <1>4, <1>5 DEF RTInv

\* One turn of bsearch: what it drops does not have the address.
LEMMA MiddleIs ==
  ASSUME RTInv, step = "bsearch", lo < hi
  PROVE  /\ Middle \in 1 .. Len(given) /\ Middle \in Nat /\ lo < Middle /\ Middle <= hi
         /\ table[Middle] \in Entries /\ table[Middle].low \in Int /\ table[Middle].high \in Int
<1>1. lo \in Nat /\ hi \in Nat /\ hi <= Len(given) /\ Len(given) \in Nat
  BY DEF RTInv, RTTypeOK, Finding
<1>2. Middle \in 1 .. Len(given) /\ Middle \in Nat /\ lo < Middle /\ Middle <= hi
  BY <1>1 DEF Middle
<1>3. table[Middle] \in Entries
  BY <1>2 DEF RTInv, RTTypeOK
<1> QED
  BY <1>2, <1>3, EntryIs

LEMMA BisectKeeps == RTInv /\ Bisect => RTInv'
<1> SUFFICES ASSUME RTInv, Bisect PROVE RTInv'
  OBVIOUS
<1>1. /\ step = "bsearch" /\ UNCHANGED <<given, table, slice, mid, nxt, calls>>
      /\ key' = key /\ useless' = useless
  BY DEF Bisect
<1>2. /\ key \in Int /\ lo \in Nat /\ hi \in Nat /\ entry \in Nat /\ Len(given) \in Nat
      /\ table \in [1 .. Len(given) -> Entries] /\ Len(table) = Len(given)
  BY DEF RTInv, RTTypeOK
<1>3. /\ lo <= hi /\ hi <= Len(given) /\ entry = 0
      /\ Apart => \A i \in 1 .. Len(given) : Has(table[i], key) => lo < i /\ i <= hi
  BY <1>1 DEF RTInv, Finding
<1>4. Apart' = Apart
  BY <1>1 DEF Apart
<1>5. CASE lo >= hi /\ step' = "found" /\ UNCHANGED <<lo, hi, entry>>
  <2>1. RTTypeOK' /\ Nested' /\ Ordered' /\ Parting' /\ SameEntries' /\ CallsHalve'
    BY <1>1, <1>2, <1>5, SearchKeeps
  <2>2. Apart => \A i \in 1 .. Len(given) : ~Has(table[i], key)
    BY <1>2, <1>3, <1>5
  <2>3. DOMAIN table = 1 .. Len(given)
    BY <1>2
  <2>4. FindsTheRange'
    BY <1>1, <1>3, <1>4, <1>5, <2>2, <2>3 DEF FindsTheRange
  <2>5. Finding'
    BY <1>1, <1>2, <1>3, <1>5 DEF Finding
  <2> QED
    BY <2>1, <2>4, <2>5 DEF RTInv
<1>6. CASE lo < hi /\ key < table[Middle].low /\ hi' = Middle - 1 /\ UNCHANGED <<lo, entry, step>>
  <2>1. hi' \in Nat /\ lo <= hi' /\ hi' <= Len(given)
    BY <1>1, <1>2, <1>6, MiddleIs
  <2>2. RTTypeOK' /\ Nested' /\ Ordered' /\ Parting' /\ SameEntries' /\ CallsHalve'
    BY <1>1, <1>2, <1>6, <2>1, SearchKeeps
  <2>3. ASSUME NEW i \in 1 .. Len(given), Has(table[i], key) PROVE i <= hi'
    <3>1. table[i] \in Entries /\ table[i].low \in Int
      BY <1>2, EntryIs
    <3>2. table[i].low < table[Middle].low
      BY <1>1, <1>2, <1>6, <2>3, <3>1, MiddleIs DEF Has
    <3>3. ~(Middle < i) /\ i # Middle
      BY <1>1, <1>6, <3>1, <3>2, InOrder, MiddleIs
    <3>4. Middle \in Nat
      BY <1>1, <1>6, MiddleIs
    <3> QED
      BY <1>6, <3>3, <3>4
  <2>4. Finding'
    BY <1>1, <1>3, <1>4, <1>6, <2>1, <2>3 DEF Finding
  <2>5. FindsTheRange'
    BY <1>1, <1>6 DEF FindsTheRange
  <2> QED
    BY <2>2, <2>4, <2>5 DEF RTInv
<1>7. CASE /\ lo < hi /\ key >= table[Middle].high /\ key >= table[Middle].low
           /\ lo' = Middle /\ UNCHANGED <<hi, entry, step>>
  <2>1. lo' \in Nat /\ lo' <= hi
    BY <1>1, <1>7, MiddleIs
  <2>2. RTTypeOK' /\ Nested' /\ Ordered' /\ Parting' /\ SameEntries' /\ CallsHalve'
    BY <1>1, <1>2, <1>7, <2>1, SearchKeeps
  <2>3. ASSUME Apart, NEW i \in 1 .. Len(given), Has(table[i], key) PROVE lo' < i
    <3>1. /\ Middle \in 1 .. Len(given) /\ Middle \in Nat /\ table[Middle] \in Entries
          /\ table[Middle].high <= key /\ table[i] \in Entries
      BY <1>1, <1>2, <1>7, MiddleIs
    <3>2. Greater(table[i], table[Middle])
      BY <2>3, <3>1, ApartInTable
    <3>3. ~(i < Middle) /\ i # Middle
      BY <1>1, <3>1, <3>2, InOrder, GreaterIsAnOrder
    <3> QED
      BY <1>7, <3>1, <3>3
  <2>4. Finding'
    BY <1>1, <1>3, <1>4, <1>7, <2>1, <2>3 DEF Finding
  <2>5. FindsTheRange'
    BY <1>1, <1>7 DEF FindsTheRange
  <2> QED
    BY <2>2, <2>4, <2>5 DEF RTInv
<1>8. CASE /\ lo < hi /\ Has(table[Middle], key) /\ entry' = Middle /\ step' = "onward"
           /\ UNCHANGED <<lo, hi>>
  <2>1. entry' \in 1 .. Len(given) /\ entry' \in Nat
    BY <1>1, <1>8, MiddleIs
  <2>2. RTTypeOK' /\ Nested' /\ Ordered' /\ Parting' /\ SameEntries' /\ CallsHalve'
    BY <1>1, <1>2, <1>8, <2>1, SearchKeeps
  <2>3. Has(table'[entry'], key')
    BY <1>1, <1>8
  <2>4. Finding' /\ FindsTheRange'
    BY <1>1, <1>8, <2>1, <2>3 DEF Finding, FindsTheRange
  <2> QED
    BY <2>2, <2>4 DEF RTInv
<1> QED
  BY <1>5, <1>6, <1>7, <1>8 DEF Bisect

LEMMA OnwardKeeps == RTInv /\ Onward => RTInv'
<1> SUFFICES ASSUME RTInv, Onward PROVE RTInv'
  OBVIOUS
<1>1. /\ step = "onward" /\ UNCHANGED <<given, table, slice, mid, nxt, calls>>
      /\ key' = key /\ lo' = lo /\ hi' = hi /\ useless' = useless
  BY DEF Onward
<1>2. /\ key \in Int /\ lo \in Nat /\ hi \in Nat /\ entry \in Nat /\ Len(given) \in Nat
      /\ table \in [1 .. Len(given) -> Entries] /\ Len(table) = Len(given)
  BY DEF RTInv, RTTypeOK
<1>3. entry \in 1 .. Len(given) /\ Has(table[entry], key)
  BY <1>1 DEF RTInv, Finding
<1>4. Apart' = Apart
  BY <1>1 DEF Apart
<1>5. CASE entry < Len(table) /\ Has(table[entry + 1], key)
  <2>1. entry' = entry + 1 /\ step' = "onward" /\ entry' \in 1 .. Len(given) /\ entry' \in Nat
    BY <1>1, <1>2, <1>3, <1>5 DEF Onward
  <2>2. RTTypeOK' /\ Nested' /\ Ordered' /\ Parting' /\ SameEntries' /\ CallsHalve'
    BY <1>1, <1>2, <2>1, SearchKeeps
  <2>3. Finding' /\ FindsTheRange'
    BY <1>1, <1>5, <2>1 DEF Finding, FindsTheRange
  <2> QED
    BY <2>2, <2>3 DEF RTInv
<1>6. CASE ~(entry < Len(table) /\ Has(table[entry + 1], key))
  <2>1. step' = "back" /\ entry' = entry
    BY <1>6 DEF Onward
  <2>2. RTTypeOK' /\ Nested' /\ Ordered' /\ Parting' /\ SameEntries' /\ CallsHalve'
    BY <1>1, <1>2, <2>1, SearchKeeps
  <2>3. ASSUME Apart, NEW i \in 1 .. Len(given), Has(table[i], key), i > entry PROVE FALSE
    <3>1. /\ entry < Len(given) /\ entry + 1 \in 1 .. Len(given)
          /\ entry < entry + 1 /\ entry + 1 <= i
      BY <1>2, <1>3, <2>3
    <3>2. step \notin {"sort", "partition"}
      BY <1>1
    <3>3. Has(table[entry + 1], key)
      BY <1>3, <2>3, <3>1, <3>2, Contiguous
    <3> QED
      BY <1>2, <1>6, <3>1, <3>3
  <2>4. Finding' /\ FindsTheRange'
    BY <1>1, <1>3, <1>4, <2>1, <2>3 DEF Finding, FindsTheRange
  <2> QED
    BY <2>2, <2>4 DEF RTInv
<1> QED
  BY <1>5, <1>6

LEMMA BackKeeps == RTInv /\ Back => RTInv'
<1> SUFFICES ASSUME RTInv, Back PROVE RTInv'
  OBVIOUS
<1>1. /\ step = "back" /\ UNCHANGED <<given, table, slice, mid, nxt, calls>>
      /\ key' = key /\ lo' = lo /\ hi' = hi /\ useless' = useless
  BY DEF Back
<1>2. /\ key \in Int /\ lo \in Nat /\ hi \in Nat /\ entry \in Nat /\ Len(given) \in Nat
      /\ table \in [1 .. Len(given) -> Entries] /\ DOMAIN table = 1 .. Len(given)
  BY DEF RTInv, RTTypeOK
<1>3. /\ entry \in 1 .. Len(given) /\ Has(table[entry], key)
      /\ Apart => \A i \in 1 .. Len(given) :
                    Has(table[i], key) /\ i > entry => table[i].who \in useless
  BY <1>1 DEF RTInv, Finding
<1>4. Apart' = Apart
  BY <1>1 DEF Apart
<1>5. CASE entry > 1 /\ Has(table[entry - 1], key) /\ table[entry].who \in useless
  <2>1. /\ entry' = entry - 1 /\ step' = "back" /\ entry' \in 1 .. Len(given) /\ entry' \in Nat
    BY <1>1, <1>2, <1>3, <1>5 DEF Back
  <2>2. RTTypeOK' /\ Nested' /\ Ordered' /\ Parting' /\ SameEntries' /\ CallsHalve'
    BY <1>1, <1>2, <2>1, SearchKeeps
  <2>3. ASSUME Apart, NEW i \in 1 .. Len(given), Has(table[i], key), i > entry'
        PROVE  table[i].who \in useless
    <3>1. i = entry \/ i > entry
      BY <1>2, <2>1, <2>3
    <3> QED
      BY <1>3, <1>5, <2>3, <3>1
  <2>4. Finding' /\ FindsTheRange'
    BY <1>1, <1>4, <1>5, <2>1, <2>3 DEF Finding, FindsTheRange
  <2> QED
    BY <2>2, <2>4 DEF RTInv
<1>6. CASE ~(entry > 1 /\ Has(table[entry - 1], key) /\ table[entry].who \in useless)
  <2>1. step' = "found" /\ entry' = entry
    BY <1>6 DEF Back
  <2>2. RTTypeOK' /\ Nested' /\ Ordered' /\ Parting' /\ SameEntries' /\ CallsHalve'
    BY <1>1, <1>2, <2>1, SearchKeeps
  <2>3. ASSUME Apart, NEW i \in 1 .. Len(given), Has(table[i], key), i < entry
        PROVE  table[entry].who \notin useless
    <3>1. entry > 1 /\ entry - 1 \in 1 .. Len(given) /\ i <= entry - 1 /\ entry - 1 <= entry
      BY <1>2, <1>3, <2>3
    <3>2. Has(table[entry - 1], key)
      <4>1. CASE i = entry - 1
        BY <2>3, <4>1
      <4>2. CASE i < entry - 1
        <5>1. step \notin {"sort", "partition"}
          BY <1>1
        <5> QED
          BY <1>3, <2>3, <3>1, <4>2, <5>1, Contiguous
      <4> QED
        BY <1>2, <3>1, <4>1, <4>2
    <3> QED
      BY <1>6, <3>1, <3>2
  <2>4. entry # 0 /\ entry <= Len(given)
    BY <1>3
  <2>5. Finding'
    BY <1>1, <2>1, <2>4 DEF Finding
  <2>6. FindsTheRange'
    BY <1>1, <1>2, <1>3, <1>4, <2>1, <2>3, <2>4 DEF FindsTheRange
  <2> QED
    BY <2>2, <2>5, <2>6 DEF RTInv
<1> QED
  BY <1>5, <1>6

LEMMA RTStutterKeeps == RTInv /\ UNCHANGED rt_vars => RTInv'
<1> SUFFICES ASSUME RTInv, UNCHANGED rt_vars PROVE RTInv'
  OBVIOUS
<1>1. /\ given' = given /\ table' = table /\ base' = base /\ size' = size /\ mid' = mid
      /\ nxt' = nxt /\ calls' = calls /\ step' = step /\ key' = key /\ lo' = lo /\ hi' = hi
      /\ entry' = entry /\ useless' = useless
  BY DEF rt_vars, slice, search
<1>2. RTTypeOK' /\ SameEntries'
  BY <1>1 DEF RTInv, RTTypeOK, SameEntries
<1>3. Part' = Part /\ Apart' = Apart
  BY <1>1 DEF Part, Apart
<1>4. Nested' /\ Parting' /\ Finding' /\ CallsHalve' /\ FindsTheRange'
  <2>1. Nested'
    BY <1>1, <1>3 DEF RTInv, Nested
  <2>2. Parting'
    BY <1>1 DEF RTInv, Parting
  <2>3. Finding'
    BY <1>1, <1>3 DEF RTInv, Finding
  <2>4. CallsHalve'
    BY <1>1 DEF RTInv, CallsHalve
  <2>5. FindsTheRange'
    BY <1>1, <1>3 DEF RTInv, FindsTheRange
  <2> QED
    BY <2>1, <2>2, <2>3, <2>4, <2>5
<1>5. Ordered'
  <2>1. \A p, q : Pending(p, q)' <=> Pending(p, q)
    BY <1>1, <1>3 DEF Pending
  <2> QED
    BY <1>1, <2>1 DEF RTInv, Ordered
<1> QED
  BY <1>2, <1>4, <1>5 DEF RTInv

THEOREM RTInductive == RTSpec => []RTInv
<1>1. RTInv /\ [RTNext]_rt_vars => RTInv'
  BY PivotKeeps, PartitionKeeps, RecurseKeeps, ReturnFromKeeps, LookUpKeeps, BisectKeeps,
     OnwardKeeps, BackKeeps, RTStutterKeeps DEF RTNext
<1> QED
  BY RTInitInv, <1>1, PTL DEF RTSpec

\* backtrace_qsort sorts every vector.
THEOREM SortIsRight == RTSpec => []SortsTheVector
<1>1. RTInv => SortsTheVector
  <2> SUFFICES ASSUME RTInv, Sorted PROVE SortsTheVector
    BY DEF SortsTheVector
  <2>1. /\ Len(given) \in Nat /\ DOMAIN given = 1 .. Len(given)
        /\ DOMAIN table = 1 .. Len(given) /\ Len(table) = Len(given)
        /\ \A i \in DOMAIN given : given[i] \in Entries
    BY DEF RTInv, RTTypeOK
  <2>2. step \notin {"sort", "partition"}
    BY DEF Sorted
  <2>3. \A i, j \in DOMAIN table : i < j => ~Greater(table[i], table[j])
    BY <2>1, <2>2, InOrder
  <2>4. \A i \in DOMAIN given : TimesIn(table, given[i]) = TimesIn(given, given[i])
    BY <2>1 DEF RTInv, SameEntries
  <2> QED
    BY <2>1, <2>3, <2>4 DEF SortsTheVector
<1> QED
  BY RTInductive, <1>1, PTL

\* Its calls nest to a depth that is logarithmic in the length of the vector.
THEOREM SortIsShallow == RTSpec => []CallsHalve
<1>1. RTInv => CallsHalve
  BY DEF RTInv
<1> QED
  BY RTInductive, <1>1, PTL

\* A look-up finds a range that has the address.
THEOREM LookUpIsRight == RTSpec => []FindsTheRange
<1>1. RTInv => FindsTheRange
  BY DEF RTInv
<1> QED
  BY RTInductive, <1>1, PTL
\* The positions that no slice has any more.  They keep their entries, and every call
\* adds one, that of its pivot: so there are no more calls than entries
\* (backtrace_qsort).
Settled ==
  {p \in 1 .. Len(given) :
     step \in {"sort", "partition"} =>
       ~Holds(Part, p) /\ \A k \in 1 .. Len(calls) : ~Holds(RestOf(calls[k]), p)}
Settles ==
  /\ Settled \subseteq Settled' /\ \A p \in Settled : table'[p] = table[p]
  /\ Recurse => base + mid + 1 \in Settled' \ Settled

LEMMA SwapSettles ==
  ASSUME RTInv, Pivot \/ Partition
  PROVE  Settles
<1>1. /\ given' = given /\ base' = base /\ size' = size /\ calls' = calls
      /\ step \in {"sort", "partition"} /\ step' \in {"sort", "partition"}
  BY DEF Pivot, Partition, slice
<1>2. /\ Len(given) \in Nat /\ base \in Nat /\ size \in Nat /\ mid \in Nat /\ nxt \in Nat
      /\ base + size <= Len(given) /\ table \in [1 .. Len(given) -> Entries]
      /\ Part.base = base /\ Part.size = size
  BY <1>1 DEF RTInv, RTTypeOK, Nested, Part
<1>3. Part' = Part /\ Settled' = Settled
  BY <1>1 DEF Part, Settled
<1>4. ASSUME NEW p \in 1 .. Len(given), ~Holds(Part, p) PROVE table'[p] = table[p]
  <2>1. CASE Pivot
    <3>1. /\ base + 1 \in 1 .. Len(given) /\ base + size \div 2 + 1 \in 1 .. Len(given)
          /\ p # base + 1 /\ p # base + size \div 2 + 1
      <4>1. size >= 2 /\ ~(base < p /\ p <= base + size)
        BY <1>2, <1>4, <2>1 DEF Pivot, Holds
      <4> QED
        BY <1>2, <4>1
    <3>2. table' = Swapped(table, base + 1, base + size \div 2 + 1)
      BY <2>1 DEF Pivot
    <3> QED
      BY <1>2, <3>1, <3>2, SwappedIs
  <2>2. CASE Partition
    <3>1. nxt < size /\ step = "partition"
      BY <2>2 DEF Partition
    <3>2. /\ base + (mid + 1) + 1 \in 1 .. Len(given) /\ base + nxt + 1 \in 1 .. Len(given)
          /\ p # base + (mid + 1) + 1 /\ p # base + nxt + 1
      <4>1. mid < nxt /\ ~(base < p /\ p <= base + size)
        BY <1>2, <1>4, <3>1 DEF RTInv, Parting, Holds
      <4> QED
        BY <1>2, <3>1, <4>1
    <3>3. table' = table \/ table' = Swapped(table, base + (mid + 1) + 1, base + nxt + 1)
      BY <2>2 DEF Partition
    <3>4. ASSUME table' = Swapped(table, base + (mid + 1) + 1, base + nxt + 1)
          PROVE  table'[p] = table[p]
      BY <1>2, <3>2, <3>4, SwappedIs
    <3> QED
      BY <3>3, <3>4
  <2> QED
    BY <2>1, <2>2
<1>5. ~Recurse
  BY <1>1 DEF Pivot, Partition, Recurse
<1>6. \A p \in Settled : p \in 1 .. Len(given) /\ ~Holds(Part, p)
  BY <1>1 DEF Settled
<1> QED
  BY <1>3, <1>4, <1>5, <1>6 DEF Settles

LEMMA RecurseSettles ==
  ASSUME RTInv, Recurse
  PROVE  Settles
<1> DEFINE c == [base |-> base, size |-> size, mid |-> mid]
           i == base + 1
           j == base + mid + 1
<1>1. /\ given' = given /\ step = "partition" /\ step' = "sort" /\ nxt = size
      /\ table' = Swapped(table, i, j) /\ calls' = Append(calls, c)
  BY DEF Recurse
<1>2. /\ Len(given) \in Nat /\ base \in Nat /\ size \in Nat /\ mid \in Nat /\ mid < size
      /\ base + size <= Len(given) /\ calls \in Seq(Frame) /\ Len(calls) \in Nat
      /\ table \in [1 .. Len(given) -> Entries] /\ Part.base = base /\ Part.size = size
  BY <1>1 DEF RTInv, RTTypeOK, Nested, Parting, Part
<1>3. /\ i \in 1 .. Len(given) /\ j \in 1 .. Len(given)
      /\ Holds(Part, i) /\ Holds(Part, j)
  BY <1>2 DEF Holds
<1>4. c \in Frame /\ c.mid < c.size /\ c.base = base /\ c.size = size /\ c.mid = mid
  BY <1>2 DEF Frame
<1>5. Part' = HalfOf(c)
  <2>1. CASE 2 * mid < size
    BY <2>1 DEF Recurse, HalfOf, Part
  <2>2. CASE ~(2 * mid < size)
    BY <2>2 DEF Recurse, HalfOf, Part
  <2> QED
    BY <2>1, <2>2
<1>6. /\ Len(calls') = Len(calls) + 1 /\ calls'[Len(calls) + 1] = c
      /\ \A k \in 1 .. Len(calls) : calls'[k] = calls[k]
  <2> HIDE DEF c
  <2> QED
    BY <1>1, <1>2, <1>4
<1>7. ASSUME NEW p \in 1 .. Len(given)
      PROVE  /\ Holds(HalfOf(c), p) \/ Holds(RestOf(c), p) => Holds(Part, p)
             /\ ~Holds(HalfOf(c), j) /\ ~Holds(RestOf(c), j)
  <2>1. CASE 2 * mid < size
    BY <1>2, <2>1 DEF Holds, HalfOf, RestOf
  <2>2. CASE ~(2 * mid < size)
    BY <1>2, <2>2 DEF Holds, HalfOf, RestOf
  <2> QED
    BY <2>1, <2>2
<1>8. ASSUME NEW p \in 1 .. Len(given), \A k \in 1 .. Len(calls) : ~Holds(RestOf(calls[k]), p),
             ~Holds(HalfOf(c), p), ~Holds(RestOf(c), p)
      PROVE  p \in Settled'
  <2>1. ASSUME NEW k \in 1 .. Len(calls') PROVE ~Holds(RestOf(calls'[k]), p)
    <3>1. CASE k = Len(calls) + 1
      BY <1>6, <1>8, <3>1
    <3>2. CASE k \in 1 .. Len(calls)
      BY <1>6, <1>8, <3>2
    <3> QED
      BY <1>2, <1>6, <3>1, <3>2
  <2>2. ~Holds(Part, p)'
    BY <1>5, <1>8 DEF Holds
  <2> QED
    BY <1>1, <2>1, <2>2 DEF Settled
<1> HIDE DEF c, i, j
<1>9. ASSUME NEW p \in Settled PROVE p \in Settled' /\ table'[p] = table[p]
  <2>1. /\ p \in 1 .. Len(given) /\ ~Holds(Part, p)
        /\ \A k \in 1 .. Len(calls) : ~Holds(RestOf(calls[k]), p)
    BY <1>1 DEF Settled
  <2>2. p # i /\ p # j
    <3>1. p = i => Holds(Part, i) /\ ~Holds(Part, i)
      BY <1>3, <2>1
    <3>2. p = j => Holds(Part, j) /\ ~Holds(Part, j)
      BY <1>3, <2>1
    <3> QED
      BY <3>1, <3>2
  <2>3. ~Holds(HalfOf(c), p) /\ ~Holds(RestOf(c), p)
    BY <1>7, <2>1
  <2>4. p \in Settled'
    BY <1>8, <2>1, <2>3
  <2>5. table'[p] = table[p]
    <3>1. \A k \in 1 .. Len(given) : k # i /\ k # j => Swapped(table, i, j)[k] = table[k]
      BY <1>2, <1>3, SwappedIs
    <3> QED
      BY <1>1, <2>1, <2>2, <3>1
  <2> QED
    BY <2>4, <2>5
<1>10. j \notin Settled
  BY <1>1, <1>3 DEF Settled
<1>11. j \in Settled'
  <2>1. ASSUME NEW k \in 1 .. Len(calls) PROVE ~Holds(RestOf(calls[k]), j)
    <3>1. step \in {"sort", "partition"} /\ RTTypeOK /\ Nested
      BY <1>1 DEF RTInv
    <3>2. /\ calls[k] \in Frame /\ calls[k].mid < calls[k].size
          /\ HalfOf(calls[k]).base \in Nat /\ HalfOf(calls[k]).size \in Nat
      BY <3>1, FrameIs
    <3>3. Within(Part, HalfOf(calls[k]))
      BY <3>1 DEF Nested
    <3>4. Holds(HalfOf(calls[k]), j)
      BY <1>2, <1>3, <3>2, <3>3 DEF Within, Holds
    <3> QED
      BY <1>3, <3>2, <3>4, Halves
  <2> QED
    BY <1>3, <1>7, <1>8, <2>1
<1> QED
  BY <1>9, <1>10, <1>11 DEF Settles, j

LEMMA ReturnFromSettles ==
  ASSUME RTInv, ReturnFrom
  PROVE  Settles
<1>1. given' = given /\ table' = table /\ step = "sort" /\ ~Recurse
  BY DEF ReturnFrom, Recurse
<1>2. CASE calls = <<>>
  <2>1. step' = "sorted"
    BY <1>2 DEF ReturnFrom
  <2>2. Settled \subseteq Settled'
    BY <1>1, <2>1 DEF Settled
  <2> QED
    BY <1>1, <2>2 DEF Settles
<1>3. CASE calls # <<>>
  <2> DEFINE n == Len(calls)
  <2>1. calls \in Seq(Frame) /\ n \in Nat
    BY DEF RTInv, RTTypeOK
  <2>2. /\ step' = "sort" /\ calls' = SubSeq(calls, 1, n - 1)
        /\ base' = RestOf(calls[n]).base /\ size' = RestOf(calls[n]).size
    BY <1>1, <1>3 DEF ReturnFrom
  <2>3. n \in 1 .. n /\ n - 1 \in 0 .. Len(calls)
    BY <1>3, <2>1
  <2>4. Len(calls') = n - 1 /\ \A k \in 1 .. n - 1 : calls'[k] = calls[k] /\ k \in 1 .. n
    <3>1. \A k \in 1 .. n - 1 : k \in 1 .. n
      BY <2>1
    <3> HIDE DEF n
    <3> QED
      BY <2>1, <2>2, <2>3, <3>1, FrontOf
  <2>5. Part'.base = RestOf(calls[n]).base /\ Part'.size = RestOf(calls[n]).size
    BY <2>2 DEF Part
  <2>6. ASSUME NEW p \in Settled PROVE p \in Settled'
    <3>1. p \in 1 .. Len(given) /\ \A k \in 1 .. n : ~Holds(RestOf(calls[k]), p)
      BY <1>1 DEF Settled
    <3>2. ~Holds(Part, p)'
      BY <2>3, <2>5, <3>1 DEF Holds
    <3>3. \A k \in 1 .. Len(calls') : ~Holds(RestOf(calls'[k]), p)
      BY <2>4, <3>1
    <3> QED
      BY <1>1, <3>1, <3>2, <3>3 DEF Settled
  <2> QED
    BY <1>1, <2>6 DEF Settles
<1> QED
  BY <1>2, <1>3

\* A pivot is put in its place once and for all, and each call has one of its own.
THEOREM PivotsStay == RTSpec => [][Settles]_rt_vars
<1>1. ASSUME RTInv, LookUp \/ Bisect \/ Onward \/ Back PROVE Settles
  <2>1. /\ given' = given /\ table' = table /\ ~Recurse
        /\ step' \notin {"sort", "partition"}
    BY <1>1 DEF LookUp, Bisect, Onward, Back, Recurse
  <2>2. Settled \subseteq Settled'
    BY <2>1 DEF Settled
  <2> QED
    BY <2>1, <2>2 DEF Settles
<1>2. RTInv /\ [RTNext]_rt_vars => [Settles]_rt_vars
  BY <1>1, SwapSettles, RecurseSettles, ReturnFromSettles DEF RTNext
<1> QED
  BY RTInductive, <1>2, PTL DEF RTSpec
-----------------------------------------------------------------------------
(* The ignored ranges *)

\* What the array holds after the calls of _resize_ranges and of Store.
LEMMA ReallocKeeps ==
  ASSUME NEW m, NEW n \in Nat, DOMAIN m = 0..(n - 1), \A i \in DOMAIN m : m[i] \in Int,
         NEW k \in Nat, k >= n
  PROVE  /\ DOMAIN Realloc(m, k) = 0..(k - 1)
         /\ \A i \in 0..(k - 1) : Realloc(m, k)[i] \in Int
         /\ \A i \in 0..(n - 1) : Realloc(m, k)[i] = m[i]
BY RangesAssumption DEF Realloc

LEMMA StoreKeeps ==
  ASSUME NEW m, \A i \in DOMAIN m : m[i] \in Int, NEW c \in DOMAIN m, NEW v \in Int
  PROVE  /\ DOMAIN Store(m, c, v) = DOMAIN m
         /\ \A i \in DOMAIN m : Store(m, c, v)[i] = IF i = c THEN v ELSE m[i]
         /\ \A i \in DOMAIN m : Store(m, c, v)[i] \in Int
BY DEF Store

\* An array that holds no bounds ignores nothing.
Empty ==
  /\ mem = << >> /\ max_count = 0 /\ count = 0 /\ cursor = 0 /\ maps = {}
  /\ phase \in {"idle", "answered"}
  /\ last \in Nat /\ ip \in Nat /\ l \in Nat /\ r \in Nat /\ ignored = FALSE
LEMMA EmptyIInv == Empty => IInv
<1> SUFFICES ASSUME Empty PROVE IInv
  OBVIOUS
<1> USE DEF Empty
<1>1. DOMAIN mem = {} /\ 0..(max_count - 1) = {} /\ 0..(count - 1) = {}
  OBVIOUS
<1>2. TypeOK
  BY <1>1 DEF TypeOK
<1>3. WrittenInBounds
  BY <1>1 DEF WrittenInBounds
<1>4. Parity
  BY DEF Parity
<1>5. RangesApart
  BY <1>1 DEF RangesApart
<1>6. \A x : ~Mapped(x) /\ ~Between(x)
  BY <1>1 DEF Mapped, Between
<1>7. Collected
  BY <1>1, <1>6 DEF Collected
<1>8. Searched /\ IgnoresTheMappings
  BY DEF Searched, IgnoresTheMappings
<1> QED
  BY <1>2, <1>3, <1>4, <1>5, <1>7, <1>8 DEF IInv

LEMMA InitIInv == Init => IInv
<1>1. Init => Empty
  BY DEF Init, Empty
<1> QED
  BY <1>1, EmptyIInv

LEMMA ResetIInv == IInv /\ ResetRanges => IInv'
<1> SUFFICES ASSUME IInv, ResetRanges PROVE IInv'
  OBVIOUS
<1> DEFINE fresh == [j \in 0..9 |-> Garbage]
<1>1. DOMAIN fresh = 0..9 /\ \A i \in DOMAIN fresh : fresh[i] \in Int
  BY RangesAssumption
<1>2. mem' = Store(fresh, 0, -1)
  BY DEF ResetRanges, InitialCount
<1> HIDE DEF fresh
<1>3. /\ DOMAIN mem' = 0..9
      /\ \A i \in 0..9 : mem'[i] = IF i = 0 THEN -1 ELSE fresh[i]
      /\ \A i \in 0..9 : mem'[i] \in Int
  <2> 0 \in DOMAIN fresh /\ -1 \in Int
    BY <1>1
  <2> /\ DOMAIN Store(fresh, 0, -1) = DOMAIN fresh
      /\ \A i \in DOMAIN fresh : Store(fresh, 0, -1)[i] = IF i = 0 THEN -1 ELSE fresh[i]
      /\ \A i \in DOMAIN fresh : Store(fresh, 0, -1)[i] \in Int
    BY <1>1, StoreKeeps
  <2> QED
    BY <1>1, <1>2
<1>4. /\ phase' = "reading" /\ max_count' = 10 /\ count' = 0 /\ cursor' = 0 /\ last' = 0 /\ maps' = {}
      /\ ip' = 0 /\ ignored' = FALSE /\ l' = l /\ r' = r
  BY DEF ResetRanges, InitialCount
<1>5. TypeOK'
  BY <1>3, <1>4 DEF IInv, TypeOK
<1>6. WrittenInBounds' /\ Parity'
  BY <1>3, <1>4 DEF WrittenInBounds, Parity, InitialCount
<1>7. \A x : ~Mapped(x)' /\ ~Between(x)'
  BY <1>4 DEF Mapped, Between
<1>8. Collected' /\ RangesApart'
  BY <1>4, <1>7 DEF Collected, RangesApart
<1>9. Searched' /\ IgnoresTheMappings'
  BY <1>4 DEF Searched, IgnoresTheMappings
<1> QED
  BY <1>5, <1>6, <1>8, <1>9 DEF IInv

\* The cell that is written is one that was allocated: count is even, so is
\* max_count, and the test of _resize_ranges is made for an odd cursor.
LEMMA RoomForTwo ==
  ASSUME IInv, phase = "reading"
  PROVE  /\ ResizedCount \in Nat /\ ResizedCount % 2 = 0
         /\ ResizedCount >= max_count /\ ResizedCount >= count + 2
BY DEF IInv, TypeOK, Parity, ResizedCount, InitialCount

LEMMA LineIInv ==
  ASSUME IInv, NEW start \in Nat, NEW end \in Nat, start < end, IgnoredLine(start, end)
  PROVE  IInv'
<1> DEFINE m0 == IF max_count' = max_count THEN mem ELSE Realloc(mem, max_count')
<1>1. /\ phase = "reading" /\ phase' = "reading" /\ last <= start /\ last' = end
      /\ max_count' = ResizedCount /\ maps' = maps \cup {<<start, end>>}
      /\ ip' = ip /\ l' = l /\ r' = r /\ ignored' = ignored
      /\ AddToRange(m0, start, end)
  BY DEF IgnoredLine
<1>n. PICK n \in Nat : n = max_count'
  BY <1>1, RoomForTwo
<1>2. n >= max_count /\ n >= count + 2 /\ n >= 10
  BY <1>1, <1>n, RoomForTwo DEF IInv, Parity, InitialCount, TypeOK
<1>3. /\ DOMAIN m0 = 0..(n - 1)
      /\ \A i \in 0..(n - 1) : m0[i] \in Int
      /\ \A i \in 0..(count - 1) : m0[i] = mem[i]
      /\ m0[cursor] = mem[cursor]
  <2>1. /\ max_count \in Nat /\ DOMAIN mem = 0..(max_count - 1) /\ \A i \in DOMAIN mem : mem[i] \in Int
        /\ count \in Nat /\ count <= max_count /\ cursor \in 0..(max_count - 1)
    BY <1>1 DEF IInv, TypeOK, WrittenInBounds, Parity, InitialCount
  <2>2. CASE n = max_count
    BY <1>n, <2>1, <2>2
  <2>3. CASE n # max_count
    <3>1. m0 = Realloc(mem, n)
      BY <1>n, <2>3
    <3>2. /\ DOMAIN m0 = 0..(n - 1)
          /\ \A i \in 0..(n - 1) : m0[i] \in Int
          /\ \A i \in 0..(max_count - 1) : m0[i] = mem[i]
      <4> HIDE DEF m0
      <4> QED
        BY <1>2, <2>1, <3>1, ReallocKeeps
    <3> HIDE DEF m0
    <3> QED
      BY <2>1, <3>2
  <2> QED
    BY <2>2, <2>3
<1> HIDE DEF m0
<1>m. count % 2 = 0 /\ n % 2 = 0
  BY <1>1, <1>n, RoomForTwo DEF IInv, Parity
<1>4. /\ count \in Nat /\ cursor = IF count = 0 THEN 0 ELSE count - 1
      /\ count = 0 => mem[0] = -1
      /\ last \in Nat /\ \A i \in 0..(count - 1) : mem[i] \in Int /\ 0 <= mem[i] /\ mem[i] <= last
      /\ \A i, j \in 0..(count - 1) : i < j => mem[i] < mem[j]
  BY <1>1 DEF IInv, TypeOK, Parity, Collected, WrittenInBounds, RangesApart
<1>5. \A x \in Nat : Mapped(x)' <=> (Mapped(x) \/ (start <= x /\ x <= end))
  <2>1. <<start, end>>[1] = start /\ <<start, end>>[2] = end
    OBVIOUS
  <2>2. \A m : m \in maps' <=> (m \in maps \/ m = <<start, end>>)
    BY <1>1
  <2> QED
    BY <2>1, <2>2, Zenon DEF Mapped
<1>6. \A x \in Nat : Mapped(x) <=> Between(x)
  BY DEF IInv, Collected
<1>7. CASE m0[cursor] = start
  <2>1. count > 0 /\ count >= 2 /\ cursor = count - 1 /\ mem[count - 1] = start
    BY <1>3, <1>4, <1>m, <1>7
  <2>2. mem' = Store(m0, cursor, end) /\ count' = count /\ cursor' = cursor
    BY <1>1, <1>7 DEF AddToRange
  <2>3. /\ DOMAIN mem' = 0..(n - 1)
        /\ \A i \in 0..(n - 1) : mem'[i] = IF i = count - 1 THEN end ELSE m0[i]
        /\ \A i \in 0..(n - 1) : mem'[i] \in Int
    <3> end \in Int
      OBVIOUS
    <3> cursor \in 0..(n - 1)
      BY <1>2, <1>4, <2>1
    <3> cursor \in DOMAIN m0
      BY <1>3
    <3> \A i \in DOMAIN m0 : m0[i] \in Int
      BY <1>3
    <3> /\ DOMAIN Store(m0, cursor, end) = DOMAIN m0
        /\ \A i \in DOMAIN m0 : Store(m0, cursor, end)[i] = IF i = cursor THEN end ELSE m0[i]
        /\ \A i \in DOMAIN m0 : Store(m0, cursor, end)[i] \in Int
      BY StoreKeeps
    <3> QED
      BY <1>3, <2>1, <2>2
  <2>4. \A i \in 0..(count - 1) : mem'[i] = IF i = count - 1 THEN end ELSE mem[i]
    BY <1>2, <1>3, <1>4, <2>3
  <2>5. \A x \in Nat : Between(x)' <=> (Between(x) \/ (start <= x /\ x <= end))
    <3> SUFFICES ASSUME NEW x \in Nat PROVE Between(x)' <=> (Between(x) \/ (start <= x /\ x <= end))
      OBVIOUS
    <3>1. ASSUME NEW k \in 0..(count - 1), k % 2 = 0, mem'[k] <= x, x <= mem'[k + 1]
          PROVE Between(x) \/ (start <= x /\ x <= end)
      <4>1. k + 1 \in 0..(count - 1) /\ k # count - 1
        BY <1>4, <1>m, <3>1
      <4>2. CASE k = count - 2
        BY <1>4, <2>1, <2>4, <3>1, <4>1, <4>2 DEF Between
      <4>3. CASE k # count - 2
        BY <1>4, <2>4, <3>1, <4>1, <4>3 DEF Between
      <4> QED
        BY <4>2, <4>3
    <3>2. ASSUME NEW k \in 0..(count - 1), k % 2 = 0, mem[k] <= x, x <= mem[k + 1]
          PROVE Between(x)'
      <4>1. k + 1 \in 0..(count - 1) /\ k # count - 1
        BY <1>4, <1>m, <3>2
      <4>2. mem'[k] = mem[k] /\ (mem'[k + 1] = mem[k + 1] \/ (mem'[k + 1] = end /\ mem[k + 1] = start))
        BY <2>1, <2>4, <4>1
      <4>3. mem'[k] <= x /\ x <= mem'[k + 1]
        BY <1>4, <3>2, <4>1, <4>2
      <4> QED
        BY <2>2, <3>2, <4>3 DEF Between
    <3>3. ASSUME start <= x, x <= end PROVE Between(x)'
      <4>1. count - 2 \in 0..(count - 1) /\ (count - 2) % 2 = 0 /\ (count - 2) + 1 = count - 1
        BY <1>4, <1>m, <2>1
      <4>2. mem'[count - 2] = mem[count - 2] /\ mem'[count - 1] = end /\ mem[count - 2] < start
        BY <1>4, <2>1, <2>4, <4>1
      <4>3. mem'[count - 2] <= x /\ x <= mem'[(count - 2) + 1]
        BY <1>4, <3>3, <4>1, <4>2
      <4> QED
        BY <2>2, <4>1, <4>3 DEF Between
    <3> QED
      BY <3>1, <3>2, <3>3, <2>2 DEF Between
  <2>6. \A i \in 0..(count - 1) : 0 <= mem'[i] /\ mem'[i] <= last'
    BY <1>1, <1>4, <2>2, <2>4
  <2>7. \A i, j \in 0..(count - 1) : i < j => mem'[i] < mem'[j]
    BY <1>4, <2>1, <2>2, <2>4
  <2>8. count % 2 = 0 /\ count <= n /\ cursor' = count - 1 /\ count > 0
    BY <1>2, <1>4, <1>m, <2>1, <2>2
  <2> QED
    BY <1>1, <1>n, <1>m, <1>2, <1>4, <1>5, <1>6, <2>2, <2>3, <2>5, <2>6, <2>7, <2>8 DEF IInv, TypeOK, WrittenInBounds, Parity,
       RangesApart, Collected, Searched, IgnoresTheMappings, InitialCount
<1>8. CASE m0[cursor] # start
  <2>1. (IF cursor # 0 THEN cursor + 1 ELSE cursor) = count
    BY <1>4, <1>m
  <2>2. mem' = Store(Store(m0, count, start), count + 1, end) /\ count' = count + 2 /\ cursor' = count + 1
    BY <1>1, <1>8, <2>1 DEF AddToRange
  <2>c. PICK c \in Nat : c = count + 2
    BY <1>4
  <2> DEFINE m1 == Store(m0, count, start)
  <2>3. /\ DOMAIN m1 = 0..(n - 1)
        /\ \A i \in 0..(n - 1) : m1[i] = IF i = count THEN start ELSE m0[i]
        /\ \A i \in 0..(n - 1) : m1[i] \in Int
    <3> start \in Int
      OBVIOUS
    <3> count \in 0..(n - 1)
      BY <1>2, <1>4
    <3> count \in DOMAIN m0
      BY <1>3
    <3> \A i \in DOMAIN m0 : m0[i] \in Int
      BY <1>3
    <3> /\ DOMAIN Store(m0, count, start) = DOMAIN m0
        /\ \A i \in DOMAIN m0 : Store(m0, count, start)[i] = IF i = count THEN start ELSE m0[i]
        /\ \A i \in DOMAIN m0 : Store(m0, count, start)[i] \in Int
      BY StoreKeeps
    <3> QED
      BY <1>3
  <2>4. mem' = Store(m1, count + 1, end)
    BY <2>2
  <2> HIDE DEF m1
  <2>5. /\ DOMAIN mem' = 0..(n - 1)
        /\ \A i \in 0..(n - 1) : mem'[i] = IF i = count + 1 THEN end ELSE m1[i]
        /\ \A i \in 0..(n - 1) : mem'[i] \in Int
    <3> end \in Int
      OBVIOUS
    <3> count + 1 \in 0..(n - 1)
      BY <1>2, <1>4
    <3> count + 1 \in DOMAIN m1
      BY <2>3
    <3> \A i \in DOMAIN m1 : m1[i] \in Int
      BY <2>3
    <3> /\ DOMAIN Store(m1, count + 1, end) = DOMAIN m1
        /\ \A i \in DOMAIN m1 : Store(m1, count + 1, end)[i] = IF i = count + 1 THEN end ELSE m1[i]
        /\ \A i \in DOMAIN m1 : Store(m1, count + 1, end)[i] \in Int
      BY StoreKeeps
    <3> QED
      BY <2>3, <2>4
  <2>6. /\ \A i \in 0..(count - 1) : mem'[i] = mem[i]
        /\ mem'[count] = start /\ mem'[count + 1] = end
    BY <1>2, <1>3, <1>4, <2>3, <2>5
  <2>7. \A i \in 0..(count - 1) : mem[i] < start
    <3>1. CASE count = 0
      BY <3>1
    <3>2. CASE count > 0
      <4>1. mem[count - 1] < start
        BY <1>1, <1>3, <1>4, <1>8, <3>2
      <4> QED
        BY <1>4, <3>2, <4>1
    <3> QED
      BY <1>4, <3>1, <3>2
  <2>8. \A x \in Nat : Between(x)' <=> (Between(x) \/ (start <= x /\ x <= end))
    <3> SUFFICES ASSUME NEW x \in Nat PROVE Between(x)' <=> (Between(x) \/ (start <= x /\ x <= end))
      OBVIOUS
    <3>4. c - 1 = count + 1 /\ count' = c
      BY <1>4, <2>c, <2>2
    <3>1. ASSUME NEW k \in 0..(count + 1), k % 2 = 0, mem'[k] <= x, x <= mem'[k + 1]
          PROVE Between(x) \/ (start <= x /\ x <= end)
      <4>1. k = count \/ (k \in 0..(count - 1) /\ k + 1 \in 0..(count - 1))
        BY <1>4, <1>m, <3>1
      <4> QED
        BY <1>4, <2>6, <3>1, <4>1 DEF Between
    <3>2. ASSUME NEW k \in 0..(count - 1), k % 2 = 0, mem[k] <= x, x <= mem[k + 1]
          PROVE Between(x)'
      <4>1. k + 1 \in 0..(count - 1) /\ k \in 0..(c - 1)
        BY <1>4, <1>m, <2>c, <3>2
      <4>2. mem'[k] <= x /\ x <= mem'[k + 1]
        BY <2>6, <3>2, <4>1
      <4> QED
        BY <3>2, <3>4, <4>1, <4>2 DEF Between
    <3>3. ASSUME start <= x, x <= end PROVE Between(x)'
      <4>1. count \in 0..(c - 1) /\ mem'[count] <= x /\ x <= mem'[count + 1]
        BY <1>4, <1>m, <2>c, <2>6, <3>3
      <4> QED
        BY <1>4, <1>m, <3>4, <4>1 DEF Between
    <3> QED
      BY <3>1, <3>2, <3>3, <3>4 DEF Between
  <2>9. \A i \in 0..(c - 1) : i \in 0..(count - 1) \/ i = count \/ i = count + 1
    BY <1>4, <2>c
  <2>10. \A i \in 0..(c - 1) : 0 <= mem'[i] /\ mem'[i] <= last'
    BY <1>1, <1>4, <2>6, <2>9
  <2>11. \A i, j \in 0..(c - 1) : i < j => mem'[i] < mem'[j]
    BY <1>4, <2>6, <2>7, <2>9
  <2>12. c % 2 = 0 /\ c <= n /\ cursor' = c - 1 /\ c > 0 /\ count' = c
    BY <2>c, <1>2, <1>4, <1>m, <2>2
  <2> QED
    BY <1>1, <1>n, <1>m, <1>2, <1>5, <1>6, <2>c, <2>5, <2>8, <2>10, <2>11, <2>12 DEF IInv, TypeOK, WrittenInBounds, Parity,
       RangesApart, Collected, Searched, IgnoresTheMappings, InitialCount
<1> QED
  BY <1>7, <1>8

\* A step that leaves the array alone only has to keep what is searched.
LEMMA ArrayKept ==
  ASSUME IInv, UNCHANGED <<mem, max_count, count, cursor, maps>>, last' = last,
         phase' \in {"idle", "search", "answered"},
         ip' \in Nat, l' \in Nat, r' \in Nat, ignored' \in BOOLEAN,
         Searched', IgnoresTheMappings'
  PROVE  IInv'
<1>1. TypeOK' /\ WrittenInBounds' /\ Parity' /\ RangesApart'
  BY DEF IInv, TypeOK, WrittenInBounds, Parity, RangesApart
<1>2. \A x \in Nat : (Mapped(x)' <=> Mapped(x)) /\ (Between(x)' <=> Between(x))
  BY DEF Mapped, Between
<1>3. Collected'
  BY <1>2 DEF IInv, Collected
<1> QED
  BY <1>1, <1>3 DEF IInv

\* When one bound is left, the address is in the range of it or in none.
LEMMA LastBound ==
  ASSUME IInv, phase = "search", (r - l) \div 2 = 0
  PROVE  (~Outside /\ mem[Lower] <= ip /\ ip <= mem[Lower + 1]) <=> Mapped(ip)
<1>1. /\ count \in Nat /\ count > 0 /\ count % 2 = 0 /\ l \in 0..(count - 1) /\ r = l + 1 /\ ip \in Nat
      /\ l = 0 \/ mem[l] <= ip
      /\ r = count \/ ip < mem[r]
      /\ \A i \in 0..(count - 1) : mem[i] \in Int
      /\ \A i, j \in 0..(count - 1) : i < j => mem[i] < mem[j]
  BY DEF IInv, TypeOK, Parity, Searched, WrittenInBounds, RangesApart
<1>2. /\ Lower \in 0..(count - 1) /\ Lower + 1 \in 0..(count - 1) /\ Lower % 2 = 0
      /\ Lower <= l /\ l <= Lower + 1
  BY <1>1 DEF Lower
<1>3. ASSUME NEW k \in 0..(count - 1), k % 2 = 0, mem[k] <= ip, ip <= mem[k + 1]
      PROVE  ~Outside /\ k = Lower
  <2>1. k + 1 \in 0..(count - 1)
    BY <1>1, <1>3
  <2>2. ~(l = 0 /\ mem[l] > ip)
    BY <1>1, <1>3
  <2>3. ~(l = count - 1 /\ mem[l] < ip)
    BY <1>1, <1>3, <2>1
  <2>4. k <= l
    BY <1>1, <1>3
  <2>5. l <= k + 1
    BY <1>1, <1>3, <2>1, <2>2
  <2> QED
    BY <1>1, <1>2, <1>3, <2>2, <2>3, <2>4, <2>5 DEF Outside
<1>4. Between(ip) <=> (~Outside /\ mem[Lower] <= ip /\ ip <= mem[Lower + 1])
  BY <1>2, <1>3 DEF Between
<1> QED
  BY <1>1, <1>4 DEF IInv, Collected

LEMMA StepIInv == IInv /\ [Next]_vars => IInv'
<1> SUFFICES ASSUME IInv, [Next]_vars PROVE IInv'
  OBVIOUS
<1>1. CASE ResetRanges
  BY <1>1, ResetIInv
<1>2. CASE EndOfFile
  <2>1. Searched' /\ IgnoresTheMappings'
    BY <1>2 DEF EndOfFile, Searched, IgnoresTheMappings
  <2> QED
    BY <1>2, <2>1, ArrayKept DEF EndOfFile, IInv, TypeOK
<1>3. CASE NativeDisable
  <2>1. Empty'
    BY <1>3 DEF NativeDisable, Empty, IInv, TypeOK
  <2> QED
    BY <2>1, EmptyIInv, PTL
<1>4. ASSUME NEW m \in Mappings, IgnoredLine(m[1], m[2]) PROVE IInv'
  <2>1. m[1] \in Nat /\ m[2] \in Nat /\ m[1] < m[2]
    BY RangesAssumption
  <2> QED
    BY <1>4, <2>1, LineIInv
<1>5. ASSUME NEW x \in Addrs, IgnoreIp(x) PROVE IInv'
  <2>1. x \in Nat /\ count \in Nat
    BY RangesAssumption DEF IInv, TypeOK
  <2>2. Searched'
    BY <1>5, <2>1 DEF IgnoreIp, Searched
  <2>3. IgnoresTheMappings'
    <3>1. CASE count = 0
      <4>1. ~Mapped(x)
        BY <2>1, <3>1 DEF IInv, Collected, Between
      <4> QED
        BY <1>5, <4>1 DEF IgnoreIp, IgnoresTheMappings, Mapped
    <3>2. CASE count # 0
      BY <1>5, <3>2 DEF IgnoreIp, IgnoresTheMappings
    <3> QED
      BY <3>1, <3>2
  <2> QED
    BY <1>5, <2>1, <2>2, <2>3, ArrayKept DEF IgnoreIp
<1>6. CASE Narrow
  <2> DEFINE h == l + (r - l) \div 2
  <2>1. /\ l \in Nat /\ r \in Nat /\ count \in Nat /\ l < r /\ r <= count /\ count > 0
        /\ l = 0 \/ mem[l] <= ip
        /\ r = count \/ ip < mem[r]
    BY <1>6 DEF Narrow, IInv, TypeOK, Searched
  <2>2. h \in Nat /\ l < h /\ h < r
    BY <1>6, <2>1 DEF Narrow
  <2>3. mem[h] \in Int /\ ip \in Nat
    BY <2>1, <2>2 DEF IInv, TypeOK, WrittenInBounds, Parity
  <2>4. /\ UNCHANGED <<phase, mem, max_count, count, cursor, last, maps, ip, ignored>>
        /\ (ip < mem[h] /\ r' = h /\ l' = l) \/ (~(ip < mem[h]) /\ l' = h /\ r' = r)
        /\ phase = "search"
    BY <1>6 DEF Narrow
  <2> HIDE DEF h
  <2>5. Searched'
    BY <2>1, <2>2, <2>3, <2>4 DEF Searched
  <2>6. IgnoresTheMappings'
    BY <2>4 DEF IgnoresTheMappings
  <2> QED
    BY <2>1, <2>2, <2>4, <2>5, <2>6, ArrayKept DEF IInv, TypeOK
<1>7. CASE Answer
  <2>1. ignored' <=> Mapped(ip)
    BY <1>7, LastBound DEF Answer
  <2>2. ignored' \in BOOLEAN
    BY <1>7 DEF Answer
  <2>3. Searched' /\ IgnoresTheMappings'
    BY <1>7, <2>1, <2>2 DEF Answer, Searched, IgnoresTheMappings, Mapped
  <2> QED
    BY <1>7, <2>2, <2>3, ArrayKept DEF Answer, IInv, TypeOK
<1>8. CASE UNCHANGED vars
  BY <1>8 DEF vars, IInv, TypeOK, WrittenInBounds, Parity, RangesApart, Collected, Searched, IgnoresTheMappings,
     Mapped, Between
<1> QED
  BY <1>1, <1>2, <1>3, <1>4, <1>5, <1>6, <1>7, <1>8 DEF Next

THEOREM InductiveInvariant == Spec => []IInv
<1>1. Init => IInv
  BY InitIInv
<1>2. IInv /\ [Next]_vars => IInv'
  BY StepIInv
<1> QED
  BY <1>1, <1>2, PTL DEF Spec

\* No bound is written outside the array, however many ranges there are: the
\* parity of the cursor makes up for the test of _resize_ranges.
THEOREM BoundsWritten == Spec => []WrittenInBounds
BY InductiveInvariant, PTL DEF IInv

\* An address is ignored exactly when a mapping that is to be ignored has it.
THEOREM IgnoresExactly == Spec => []IgnoresTheMappings
BY InductiveInvariant, PTL DEF IInv

-----------------------------------------------------------------------------
(* The modules libbacktrace reads (ElfFile).                               *)

USE ElfFileAssumption

\* Inside elf_add; and while it has the descriptor open.
Opening == {"header", "shdrs", "names", "sections", "symtab", "strtab", "syminfo",
            "release", "debug", "nodebug", "close"}
Reading == Opening \cup {"dwarf"}

\* The kinds of views of a module, as GetView names them.
Kinds == {"shdrs", "names", "symtab", "strtab", "debug"}

LocType == [mod : 0 .. MaxModules, fd : 0 .. MaxModules \cup {None}, exe : BOOLEAN,
            valid : SUBSET Kinds]
ElfType ==
  /\ at \in Reading \cup {"idle", "open", "phdr"}
  /\ loc \in LocType
  /\ left \in 0 .. MaxModules
  /\ elf_fn \in {"dwarf", "nodebug"} /\ fn \in {"dwarf", "nodebug", None}
  /\ failed \in BOOLEAN

\* The program waits, open, only for the first callback.
WaitInv == /\ exe_fd \in {None, Exe}
           /\ exe_fd # None => at = "phdr" /\ left = MaxModules

\* A descriptor that was not closed is that of the module that is read, or of the
\* program that waits.
CloseInv ==
  /\ at \in Opening => loc.fd \in DOMAIN closes
  /\ exe_fd # None => exe_fd \in DOMAIN closes
  /\ \A f \in DOMAIN closes :
       /\ closes[f] \in Nat
       /\ closes[f] = 0 => (at \in Opening /\ f = loc.fd) \/ (exe_fd # None /\ f = exe_fd)

\* Where a view of the module is mapped that nothing points into yet.
Until(k) ==
  IF k = "shdrs" THEN {"names", "sections", "symtab", "strtab", "syminfo", "release"}
  ELSE IF k = "names" THEN {"sections", "symtab", "strtab", "syminfo", "release"}
  ELSE IF k = "symtab" THEN {"strtab", "syminfo"}
  ELSE IF k = "strtab" THEN {"syminfo"}
  ELSE {"close", "dwarf"}

\* A view is flagged as valid until something points into it: elf_add can release
\* it when it fails.
ViewInv ==
  \A v \in views : \/ v \in Kept
                   \/ \E k \in loc.valid : v = <<loc.mod, k>> /\ at \in Until(k)

\* The program is the first to be read, and the last lookup function counts.
FnInv ==
  /\ elf_fn = "dwarf" <=> dwarfs # {}
  /\ at \in Reading /\ loc.exe =>
       dwarfs = {} /\ left = MaxModules /\ loc.fd \in {Exe, None}
  /\ at \in Opening => loc.fd \in 0 .. MaxModules
  /\ at = "open" => dwarfs = {} /\ left = MaxModules
  /\ fn # None => at = "idle" /\ fn = elf_fn
  /\ failed => at = "idle" /\ fn = None /\ dwarfs = {}
  /\ at = "idle" /\ ~failed /\ fn = None => dwarfs = {} /\ left = MaxModules

ElfInv == ElfType /\ WaitInv /\ CloseInv /\ ViewInv /\ FnInv

LEMMA ElfInvBegins == ASSUME ElfInit PROVE ElfInv
<1>1. DOMAIN << >> = {}
  OBVIOUS
<1> USE DEF ElfInit, Exe, Opening, Reading
<1>2. ElfType
  <2>1. {} \in SUBSET Kinds /\ 0 \in 0 .. MaxModules /\ MaxModules \in 0 .. MaxModules
    OBVIOUS
  <2>2. loc \in LocType
    BY <2>1 DEF LocType
  <2>q. QED BY <2>1, <2>2 DEF ElfType
<1>3. WaitInv /\ CloseInv /\ ViewInv
  BY <1>1 DEF WaitInv, CloseInv, ViewInv
<1>4. FnInv
  BY DEF FnInv
<1>q. QED BY <1>2, <1>3, <1>4 DEF ElfInv

\* The error paths of elf_add leave nothing of the module.
LEMMA ElfFail ==
  ASSUME ElfInv, at \in Reading,
         views' = Release(loc.valid), Return0,
         UNCHANGED <<fn, dwarfs, syms, pass, loc, elf_fn, exe_fd, left>>,
         DOMAIN closes' = DOMAIN closes,
         \A f \in DOMAIN closes : /\ closes'[f] \in Nat /\ closes'[f] >= closes[f]
                                  /\ at \in Opening /\ f = loc.fd => closes'[f] > 0
  PROVE  ElfInv'
<1> USE DEF ElfInv
<1>0. loc.exe \in BOOLEAN /\ loc' = loc
  BY DEF ElfType, LocType
<1>1. at' \in {"idle", "phdr"} /\ (at' = "idle" <=> loc.exe)
  BY <1>0 DEF Return0
<1>2. ElfType'
  BY <1>0, <1>1 DEF ElfType, Return0
<1>3. exe_fd = None
  BY DEF WaitInv, Reading, Opening
<1>4. WaitInv'
  BY <1>3 DEF WaitInv
<1>5. CloseInv'
  BY <1>1, <1>3 DEF CloseInv, Opening
<1>6. ViewInv'
  BY DEF ViewInv, Release, Kept
<1>7. FnInv'
  <2>1. fn = None /\ ~failed
    BY DEF FnInv, Reading, Opening
  <2>2. CASE loc.exe
    BY <1>1, <2>1, <2>2 DEF FnInv, Reading, Opening
  <2>3. CASE ~loc.exe
    BY <1>0, <1>1, <2>1, <2>3 DEF FnInv, Reading, Opening, Return0
  <2>q. QED BY <2>2, <2>3
<1>q. QED BY <1>2, <1>4, <1>5, <1>6, <1>7

LEMMA ElfFailed ==
  ASSUME ElfInv, at \in Reading, Fail PROVE ElfInv'
<1>1. /\ DOMAIN closes' = DOMAIN closes
      /\ \A f \in DOMAIN closes : closes'[f] = IF f = loc.fd THEN closes[f] + 1 ELSE closes[f]
  BY DEF Fail, Closed
<1>2. \A f \in DOMAIN closes : closes[f] \in Nat
  BY DEF ElfInv, CloseInv
<1>3. \A f \in DOMAIN closes : /\ closes'[f] \in Nat /\ closes'[f] >= closes[f]
                               /\ at \in Opening /\ f = loc.fd => closes'[f] > 0
  BY <1>1, <1>2
<1>4. /\ views' = Release(loc.valid) /\ Return0
      /\ UNCHANGED <<fn, dwarfs, syms, pass, loc, elf_fn, exe_fd, left>>
  BY DEF Fail
<1>q. QED BY <1>1, <1>3, <1>4, ElfFail

\* elf_add goes on with the same module and descriptor.
GoesOn == /\ at \in Opening /\ at' \in Opening
          /\ UNCHANGED <<failed, fn, dwarfs, elf_fn, exe_fd, left, closes>>
          /\ \E vs \in SUBSET Kinds : loc' = [loc EXCEPT !.valid = vs]

LEMMA ElfGoesOn ==
  ASSUME ElfInv, GoesOn, ViewInv' PROVE ElfInv'
<1> USE DEF ElfInv
<1>1. /\ loc' \in LocType /\ loc'.mod = loc.mod /\ loc'.fd = loc.fd /\ loc'.exe = loc.exe
  BY DEF GoesOn, ElfType, LocType
<1>2. ElfType'
  BY <1>1 DEF GoesOn, ElfType, Reading
<1>3. WaitInv' /\ CloseInv'
  BY <1>1 DEF GoesOn, WaitInv, CloseInv, Opening
<1>4. FnInv'
  BY <1>1 DEF GoesOn, FnInv, Opening, Reading
<1>q. QED BY <1>2, <1>3, <1>4

LEMMA ElfGetView ==
  ASSUME ElfInv, NEW kind \in Kinds, NEW next \in Opening,
         next \in Until(kind),
         \A k \in Kinds : kind \in Until(k) => next \in Until(k),
         kind \in Opening, GetView(kind, next)
  PROVE  ElfInv'
<1>0. at = kind /\ loc \in LocType
  BY DEF GetView, ElfInv, ElfType
<1>1. CASE Fail
  BY <1>0, <1>1, ElfFailed DEF Reading
<1>2. CASE ~Fail
  <2>1. /\ views' = views \cup {<<loc.mod, kind>>}
        /\ loc' = [loc EXCEPT !.valid = @ \cup {kind}] /\ at' = next
        /\ UNCHANGED <<failed, fn, dwarfs, syms, elf_fn, exe_fd, left, closes>>
    BY <1>2 DEF GetView
  <2>2. PICK vs \in SUBSET Kinds : vs = loc.valid \cup {kind}
    BY <1>0 DEF LocType
  <2>3. loc' = [loc EXCEPT !.valid = vs]
    BY <2>1, <2>2
  <2>4. GoesOn
    BY <1>0, <2>1, <2>3 DEF GoesOn
  <2>5. loc'.mod = loc.mod /\ loc'.valid = loc.valid \cup {kind}
    BY <1>0, <2>2, <2>3 DEF LocType
  <2>6. \A k \in loc.valid : k \in Kinds /\ (at \in Until(k) => at' \in Until(k))
    BY <1>0, <2>1 DEF LocType
  <2>7. ASSUME NEW v \in views'
       PROVE  v \in Kept \/ \E k \in loc'.valid : v = <<loc'.mod, k>> /\ at' \in Until(k)
    BY <2>1, <2>5, <2>6 DEF ElfInv, ViewInv
  <2>8. Kept' = Kept
    BY <2>1 DEF Kept
  <2>9. ViewInv'
    BY <2>7, <2>8 DEF ViewInv, Until
  <2>q. QED BY <2>4, <2>9, ElfGoesOn
<1>q. QED BY <1>1, <1>2

LEMMA ElfViews ==
  ASSUME ElfInv,
         \/ GetView("shdrs", "names") \/ GetView("names", "sections")
         \/ GetView("symtab", "strtab") \/ GetView("strtab", "syminfo")
         \/ GetView("debug", "close")
  PROVE  ElfInv'
<1> USE DEF Kinds, Opening, Until
<1>1. CASE GetView("shdrs", "names")
  BY <1>1, ElfGetView
<1>2. CASE GetView("names", "sections")
  BY <1>2, ElfGetView
<1>3. CASE GetView("symtab", "strtab")
  BY <1>3, ElfGetView
<1>4. CASE GetView("strtab", "syminfo")
  BY <1>4, ElfGetView
<1>5. CASE GetView("debug", "close")
  BY <1>5, ElfGetView
<1>q. QED BY <1>1, <1>2, <1>3, <1>4, <1>5

LEMMA ElfReadHeader ==
  ASSUME ElfInv, ReadHeader PROVE ElfInv'
<1> USE DEF ElfInv
<1>0. at = "header" /\ at \in Opening /\ at \in Reading /\ loc \in LocType
  BY DEF ReadHeader, Opening, Reading, ElfType
<1>1. CASE Fail
  BY <1>0, <1>1, ElfFailed
<1>v. ReadHeader /\ ~Fail => views \subseteq Kept /\ UNCHANGED <<views, Kept>>
  BY <1>0 DEF ReadHeader, ViewInv, Kept, Until
<1>2. CASE /\ loc.exe /\ exe_fd' = loc.fd /\ at' = "phdr"
           /\ UNCHANGED <<failed, fn, dwarfs, syms, pass, loc, elf_fn, left, views, closes>>
  <2>1. loc.fd = Exe /\ loc.fd # None
    BY <1>0, <1>2 DEF FnInv, Exe
  <2>2. ElfType'
    BY <1>0, <1>2 DEF ElfType
  <2>3. WaitInv'
    BY <1>0, <1>2, <2>1 DEF WaitInv, FnInv
  <2>4. CloseInv'
    BY <1>0, <1>2, <2>1 DEF CloseInv, WaitInv, Opening
  <2>5. ViewInv'
    BY <1>0, <1>2 DEF ViewInv, Kept, Until
  <2>6. FnInv'
    BY <1>0, <1>2 DEF FnInv, Opening, Reading
  <2>q. QED BY <2>2, <2>3, <2>4, <2>5, <2>6
<1>3. CASE /\ at' = "shdrs"
           /\ UNCHANGED <<failed, fn, dwarfs, syms, pass, loc, elf_fn, exe_fd, left, views, closes>>
  <2>1. ViewInv'
    BY <1>0, <1>3 DEF ViewInv, Kept, Until
  <2>2. loc' = [loc EXCEPT !.valid = loc.valid] /\ loc.valid \in SUBSET Kinds
    BY <1>0, <1>3 DEF LocType
  <2>3. GoesOn
    BY <1>0, <1>3, <2>2 DEF GoesOn, Opening
  <2>q. QED BY <2>1, <2>3, ElfGoesOn
<1>q. QED BY <1>1, <1>2, <1>3 DEF ReadHeader

LEMMA ElfFindSections ==
  ASSUME ElfInv, FindSections PROVE ElfInv'
<1>0. at = "sections" /\ at \in Opening /\ at \in Reading /\ loc \in LocType
  BY DEF FindSections, Opening, Reading, ElfInv, ElfType
<1>1. CASE Fail
  BY <1>0, <1>1, ElfFailed
<1>2. CASE ~Fail
  <2>0. /\ at' \in {"symtab", "release"}
        /\ UNCHANGED <<failed, fn, dwarfs, syms, pass, loc, elf_fn, exe_fd, left, views, closes>>
    BY <1>2 DEF FindSections
  <2>1. ViewInv'
    BY <1>0, <2>0 DEF ElfInv, ViewInv, Kept, Until
  <2>2. loc' = [loc EXCEPT !.valid = loc.valid] /\ loc.valid \in SUBSET Kinds
    BY <1>0, <2>0 DEF LocType
  <2>3. GoesOn
    BY <1>0, <2>0, <2>2 DEF GoesOn, Opening
  <2>q. QED BY <2>1, <2>3, ElfGoesOn
<1>q. QED BY <1>1, <1>2

\* From here on the symbols point into the strings.
LEMMA ElfSyminfo ==
  ASSUME ElfInv, InitializeSyminfo PROVE ElfInv'
<1>0. at = "syminfo" /\ at \in Opening /\ at \in Reading /\ loc \in LocType
  BY DEF InitializeSyminfo, Opening, Reading, ElfInv, ElfType
<1>1. CASE Fail
  BY <1>0, <1>1, ElfFailed
<1>2. CASE ~Fail
  <2>0. /\ views' = Release({"symtab"}) /\ syms' = syms \cup {loc.mod} /\ at' = "release"
        /\ UNCHANGED <<failed, fn, dwarfs, pass, loc, elf_fn, exe_fd, left, closes>>
    BY <1>2 DEF InitializeSyminfo
  <2>1. ASSUME NEW v \in views'
       PROVE  v \in Kept' \/ \E k \in loc.valid : v = <<loc.mod, k>> /\ at' \in Until(k)
    <3>1. v \in views /\ v # <<loc.mod, "symtab">>
      BY <2>0 DEF Release
    <3>2. CASE v \in Kept
      BY <2>0, <3>2 DEF Kept
    <3>3. CASE v \notin Kept
      <4>1. PICK k \in loc.valid : v = <<loc.mod, k>> /\ at \in Until(k)
        BY <3>1, <3>3 DEF ElfInv, ViewInv
      <4>2. CASE k = "strtab"
        BY <2>0, <4>1, <4>2 DEF Kept
      <4>3. CASE k # "strtab"
        BY <1>0, <2>0, <3>1, <4>1, <4>3 DEF Until
      <4>q. QED BY <4>2, <4>3
    <3>q. QED BY <3>2, <3>3
  <2>2. ViewInv'
    BY <2>0, <2>1 DEF ViewInv, Until
  <2>3. loc' = [loc EXCEPT !.valid = loc.valid] /\ loc.valid \in SUBSET Kinds
    BY <1>0, <2>0 DEF LocType
  <2>4. GoesOn
    BY <1>0, <2>0, <2>3 DEF GoesOn, Opening
  <2>q. QED BY <2>2, <2>4, ElfGoesOn
<1>q. QED BY <1>1, <1>2

LEMMA ElfReleaseHeaders ==
  ASSUME ElfInv, ReleaseHeaders PROVE ElfInv'
<1>0. at = "release" /\ at \in Opening /\ loc \in LocType
  BY DEF ReleaseHeaders, Opening, ElfInv, ElfType
<1>1. /\ views' = Release({"shdrs", "names"})
      /\ loc' = [loc EXCEPT !.valid = @ \ {"shdrs", "names"}]
      /\ at' \in {"debug", "nodebug"}
      /\ UNCHANGED <<failed, fn, dwarfs, syms, pass, elf_fn, exe_fd, left, closes>>
  BY DEF ReleaseHeaders
<1>2. PICK vs \in SUBSET Kinds : vs = loc.valid \ {"shdrs", "names"}
  BY <1>0 DEF LocType
<1>3. loc' = [loc EXCEPT !.valid = vs]
  BY <1>1, <1>2
<1>4. GoesOn
  BY <1>0, <1>1, <1>3 DEF GoesOn, Opening
<1>5. ASSUME NEW v \in views' PROVE v \in Kept'
  <2>1. v \in views /\ v \notin {<<loc.mod, "shdrs">>, <<loc.mod, "names">>}
    BY <1>1 DEF Release
  <2>2. CASE v \in Kept
    BY <1>1, <2>2 DEF Kept
  <2>3. CASE v \notin Kept
    <3>1. PICK k \in loc.valid : v = <<loc.mod, k>> /\ at \in Until(k)
      BY <2>1, <2>3 DEF ElfInv, ViewInv
    <3>q. QED BY <1>0, <2>1, <3>1 DEF Until
  <2>q. QED BY <2>2, <2>3
<1>6. ViewInv'
  BY <1>5 DEF ViewInv
<1>q. QED BY <1>4, <1>6, ElfGoesOn

LEMMA ElfCloseFile ==
  ASSUME ElfInv, CloseFile PROVE ElfInv'
<1> USE DEF ElfInv
<1>0. at \in {"nodebug", "close"} /\ at \in Opening /\ at \in Reading /\ loc \in LocType
  BY DEF CloseFile, Opening, Reading, ElfType
<1>c. loc.fd \in DOMAIN closes /\ \A f \in DOMAIN closes : closes[f] \in Nat
  BY <1>0 DEF CloseInv
<1>1. CASE CloseFails
  <2>1. /\ DOMAIN closes' = DOMAIN closes
        /\ \A f \in DOMAIN closes : closes'[f] = IF f = loc.fd THEN closes[f] + 2 ELSE closes[f]
    BY <1>1 DEF CloseFails
  <2>q. QED BY <1>0, <1>1, <1>c, <2>1, ElfFail DEF CloseFails
<1>2. CASE ~CloseFails
  <2>0. /\ closes' = Closed({loc.fd}) /\ loc' = [loc EXCEPT !.fd = None]
        /\ at' = IF at = "nodebug" THEN "phdr" ELSE "dwarf"
        /\ UNCHANGED <<failed, fn, dwarfs, syms, pass, elf_fn, exe_fd, left, views>>
    BY <1>2 DEF CloseFile
  <2>1. /\ loc' \in LocType /\ loc'.fd = None /\ loc'.mod = loc.mod
        /\ loc'.exe = loc.exe /\ loc'.valid = loc.valid
    BY <1>0, <2>0 DEF LocType
  <2>2. /\ DOMAIN closes' = DOMAIN closes
        /\ \A f \in DOMAIN closes : closes'[f] = IF f = loc.fd THEN closes[f] + 1 ELSE closes[f]
    BY <2>0 DEF Closed
  <2>3. ElfType'
    BY <1>0, <2>0, <2>1 DEF ElfType, Reading
  <2>4. WaitInv'
    BY <1>0, <2>0 DEF WaitInv
  <2>5. CloseInv'
    <3>1. exe_fd = None /\ exe_fd' = None /\ at' \notin Opening
      BY <1>0, <2>0 DEF WaitInv, Opening
    <3>2. \A f \in DOMAIN closes : closes[f] = 0 => f = loc.fd
      BY <3>1 DEF CloseInv
    <3>3. \A f \in DOMAIN closes : closes'[f] \in Nat /\ closes'[f] > 0
      BY <1>c, <2>2, <3>2
    <3>q. QED BY <2>2, <3>1, <3>3 DEF CloseInv
  <2>6. ViewInv'
    BY <1>0, <2>0, <2>1 DEF ViewInv, Kept, Until
  <2>7. FnInv'
    BY <1>0, <2>0, <2>1 DEF FnInv, Opening, Reading
  <2>q. QED BY <2>3, <2>4, <2>5, <2>6, <2>7
<1>q. QED BY <1>1, <1>2

\* From here on the units point into the debug sections.
LEMMA ElfAddDwarf ==
  ASSUME ElfInv, AddDwarf PROVE ElfInv'
<1> USE DEF ElfInv
<1>0. at = "dwarf" /\ at \in Reading /\ loc \in LocType
  BY DEF AddDwarf, Reading, ElfType
<1>1. CASE Fail
  BY <1>0, <1>1, ElfFailed
<1>2. CASE ~Fail
  <2>0. /\ dwarfs' = dwarfs \cup {loc.mod} /\ elf_fn' = "dwarf" /\ at' = "phdr"
        /\ UNCHANGED <<failed, fn, syms, pass, loc, exe_fd, left, views, closes>>
    BY <1>2 DEF AddDwarf
  <2>1. ElfType'
    BY <2>0 DEF ElfType
  <2>2. WaitInv' /\ CloseInv'
    BY <1>0, <2>0 DEF WaitInv, CloseInv, Opening
  <2>3. ASSUME NEW v \in views PROVE v \in Kept'
    <3>1. CASE v \in Kept
      BY <2>0, <3>1 DEF Kept
    <3>2. CASE v \notin Kept
      <4>1. PICK k \in loc.valid : v = <<loc.mod, k>> /\ at \in Until(k)
        BY <3>2 DEF ViewInv
      <4>2. k = "debug"
        BY <1>0, <4>1 DEF Until, LocType, Kinds
      <4>q. QED BY <2>0, <4>1, <4>2 DEF Kept
    <3>q. QED BY <3>1, <3>2
  <2>4. ViewInv'
    BY <2>0, <2>3 DEF ViewInv
  <2>5. FnInv'
    BY <1>0, <2>0 DEF FnInv, Opening, Reading
  <2>q. QED BY <2>1, <2>2, <2>4, <2>5
<1>q. QED BY <1>1, <1>2

\* A module is taken on while no other file is open.
LEMMA ElfStarts ==
  ASSUME ElfInv, at \in {"open", "phdr"}, ~failed, fn = None,
         NEW m \in 0 .. MaxModules, NEW exe \in BOOLEAN, ElfAdd(m, exe),
         exe_fd' = None, left' \in 0 .. MaxModules,
         exe => dwarfs = {} /\ left' = MaxModules /\ m = Exe,
         UNCHANGED <<failed, fn, dwarfs, syms, elf_fn, views>>,
         m \in DOMAIN closes',
         \A f \in DOMAIN closes' : closes'[f] \in Nat /\ (f # m => closes'[f] > 0)
  PROVE  ElfInv'
<1> USE DEF ElfInv
<1>1. loc' = [mod |-> m, fd |-> m, exe |-> exe, valid |-> {}] /\ at' = "header"
  BY DEF ElfAdd
<1>2. loc' \in LocType /\ loc'.fd = m /\ loc'.exe = exe
  BY <1>1 DEF LocType
<1>3. ElfType'
  BY <1>1, <1>2 DEF ElfType, Reading, Opening
<1>4. WaitInv'
  BY DEF WaitInv
<1>5. CloseInv'
  BY <1>1, <1>2 DEF CloseInv, Opening
<1>6. ViewInv'
  BY <1>1 DEF ViewInv, Kept, Until
<1>7. FnInv'
  BY <1>1, <1>2 DEF FnInv, Reading, Opening
<1>q. QED BY <1>3, <1>4, <1>5, <1>6, <1>7

\* No file is opened, and the program is closed if it waited.
LEMMA ElfSkips ==
  ASSUME ElfInv, at = "phdr", at' = "phdr", exe_fd' = None,
         left' \in 0 .. MaxModules,
         UNCHANGED <<failed, fn, dwarfs, syms, elf_fn, views, loc>>,
         \A f \in DOMAIN closes' : closes'[f] \in Nat /\ closes'[f] > 0
  PROVE  ElfInv'
<1> USE DEF ElfInv
<1>1. ElfType' /\ WaitInv' /\ CloseInv'
  BY DEF ElfType, WaitInv, CloseInv, Opening
<1>2. ViewInv'
  BY DEF ViewInv, Kept, Until
<1>3. FnInv'
  BY DEF FnInv, Opening, Reading
<1>q. QED BY <1>1, <1>2, <1>3

LEMMA ElfCallback ==
  ASSUME ElfInv, NamelessModule \/ NamedModule PROVE ElfInv'
<1> USE DEF ElfInv
<1>0. /\ at = "phdr" /\ left > 0 /\ left' = left - 1 /\ exe_fd' = None
      /\ UNCHANGED <<failed, fn, dwarfs, syms, pass, elf_fn, views>>
  BY DEF NamelessModule, NamedModule
<1>1. left \in 0 .. MaxModules /\ left' \in 0 .. MaxModules
  BY <1>0 DEF ElfType
<1>2. ~failed /\ fn = None /\ at \notin Opening
  BY <1>0 DEF FnInv, Opening
<1>3. \A f \in DOMAIN closes : closes[f] \in Nat /\ (closes[f] = 0 => exe_fd # None /\ f = exe_fd)
  BY <1>2 DEF CloseInv
<1>4. CASE NamelessModule
  <2>1. CASE exe_fd = None
    <3>1. UNCHANGED <<at, loc, closes>>
      BY <1>4, <2>1 DEF NamelessModule
    <3>q. QED BY <1>0, <1>1, <1>3, <2>1, <3>1, ElfSkips
  <2>2. CASE exe_fd # None
    <3>1. exe_fd = Exe /\ exe_fd \in 0 .. MaxModules
      BY <2>2 DEF WaitInv, Exe
    <3>2. ElfAdd(exe_fd, FALSE) /\ UNCHANGED closes
      BY <1>4, <2>2 DEF NamelessModule
    <3>3. PICK m \in 0 .. MaxModules : m = exe_fd
      BY <3>1
    <3>4. ElfAdd(m, FALSE)
      BY <3>2, <3>3
    <3>5. m \in DOMAIN closes
      BY <1>0, <2>2, <3>3 DEF CloseInv
    <3>6. m \in DOMAIN closes' /\ \A f \in DOMAIN closes' : closes'[f] \in Nat /\ (f # m => closes'[f] > 0)
      BY <1>3, <3>2, <3>3, <3>5
    <3>q. QED BY <1>0, <1>1, <1>2, <3>4, <3>6, ElfStarts
  <2>q. QED BY <2>1, <2>2
<1>5. CASE NamedModule
  <2>1. \A f \in DOMAIN closes : LET c == Closed({exe_fd})[f] IN c \in Nat /\ c > 0
    BY <1>3 DEF Closed
  <2>2. DOMAIN Closed({exe_fd}) = DOMAIN closes
    BY DEF Closed
  <2>3. CASE UNCHANGED <<loc, at>> /\ closes' = Closed({exe_fd})
    BY <1>0, <1>1, <2>1, <2>2, <2>3, ElfSkips
  <2>4. CASE /\ ElfAdd(left, FALSE)
             /\ closes' = [f \in DOMAIN closes \cup {left} |->
                             IF f = left THEN 0 ELSE Closed({exe_fd})[f]]
    <3>1. PICK m \in 0 .. MaxModules : m = left
      BY <1>1
    <3>2. ElfAdd(m, FALSE)
      BY <2>4, <3>1
    <3>3. /\ DOMAIN closes' = DOMAIN closes \cup {m} /\ closes'[m] = 0
          /\ \A f \in DOMAIN closes' : f # m => closes'[f] = Closed({exe_fd})[f]
      BY <2>4, <3>1
    <3>4. m \in DOMAIN closes' /\ \A f \in DOMAIN closes' : closes'[f] \in Nat /\ (f # m => closes'[f] > 0)
      BY <2>1, <3>3
    <3>q. QED BY <1>0, <1>1, <1>2, <3>2, <3>4, ElfStarts
  <2>q. QED BY <1>5, <2>3, <2>4 DEF NamedModule
<1>q. QED BY <1>4, <1>5

LEMMA ElfOpenExe ==
  ASSUME ElfInv, OpenExe PROVE ElfInv'
<1> USE DEF ElfInv
<1>0. /\ at = "open" /\ Opened(0) /\ ElfAdd(0, TRUE)
      /\ UNCHANGED <<failed, fn, dwarfs, syms, pass, elf_fn, exe_fd, left, views>>
  BY DEF OpenExe, Exe
<1>1. ~failed /\ fn = None /\ at \notin Opening /\ exe_fd = None /\ dwarfs = {} /\ left = MaxModules
  BY <1>0 DEF FnInv, WaitInv, Opening
<1>2. \A f \in DOMAIN closes : closes[f] \in Nat /\ closes[f] > 0
  BY <1>1 DEF CloseInv
<1>3. /\ 0 \in DOMAIN closes'
      /\ \A f \in DOMAIN closes' : closes'[f] \in Nat /\ (f # 0 => closes'[f] > 0)
  BY <1>0, <1>2 DEF Opened
<1>4. 0 \in 0 .. MaxModules /\ MaxModules \in 0 .. MaxModules
  OBVIOUS
<1>q. QED BY <1>0, <1>1, <1>3, <1>4, ElfStarts DEF Exe

\* The steps around the reading of modules.
LEMMA ElfAround ==
  ASSUME ElfInv,
         Pcinfo \/ NextName \/ NotOpened \/ Initialized \/ UNCHANGED elf_vars
  PROVE  ElfInv'
<1> USE DEF ElfInv
<1>1. UNCHANGED <<dwarfs, syms, loc, elf_fn, exe_fd, left, views, closes>>
  BY DEF Pcinfo, NextName, NotOpened, Initialized, elf_vars
<1>2. CASE UNCHANGED <<at, failed, fn>>
  BY <1>1, <1>2 DEF ElfType, WaitInv, CloseInv, ViewInv, FnInv, Kept
<1>3. CASE Pcinfo
  <2>1. at = "idle" /\ ~failed /\ fn = None /\ at' = "open" /\ UNCHANGED <<failed, fn>>
    BY <1>3 DEF Pcinfo
  <2>q. QED BY <1>1, <2>1
    DEF ElfType, WaitInv, CloseInv, ViewInv, FnInv, Kept, Until, Opening, Reading
<1>4. CASE NotOpened
  <2>1. at = "open" /\ failed' = TRUE /\ at' = "idle" /\ fn' = fn
    BY <1>4 DEF NotOpened
  <2>q. QED BY <1>1, <2>1
    DEF ElfType, WaitInv, CloseInv, ViewInv, FnInv, Kept, Until, Opening, Reading
<1>5. CASE Initialized
  <2>1. at = "phdr" /\ left < MaxModules /\ fn' = elf_fn /\ at' = "idle" /\ failed' = failed
    BY <1>5 DEF Initialized
  <2>2. exe_fd = None
    BY <2>1 DEF WaitInv
  <2>3. ~failed /\ fn = None /\ elf_fn \in {"dwarf", "nodebug"} /\ elf_fn # None
    BY <2>1 DEF FnInv, ElfType
  <2>4. ElfType' /\ WaitInv' /\ CloseInv'
    BY <1>1, <2>1, <2>2, <2>3 DEF ElfType, WaitInv, CloseInv, Opening
  <2>5. ViewInv'
    BY <1>1, <2>1 DEF ViewInv, Kept, Until
  <2>6. FnInv'
    BY <1>1, <2>1, <2>3 DEF FnInv, Opening, Reading
  <2>q. QED BY <2>4, <2>5, <2>6
<1>q. QED BY <1>2, <1>3, <1>4, <1>5 DEF NextName, elf_vars

LEMMA ElfInvKept == ASSUME ElfInv, [ElfNext]_elf_vars PROVE ElfInv'
BY ElfAround, ElfCallback, ElfOpenExe, ElfViews, ElfReadHeader, ElfFindSections, ElfSyminfo,
   ElfReleaseHeaders, ElfCloseFile, ElfAddDwarf DEF ElfNext, ElfAddStep

LEMMA ElfInvariant == ElfSpec => []ElfInv
<1>1. ElfInit => ElfInv
  BY ElfInvBegins
<1>2. ElfInv /\ [ElfNext]_elf_vars => ElfInv'
  BY ElfInvKept
<1>q. QED BY <1>1, <1>2, PTL DEF ElfSpec

\* Wherever the reading of a module fails, and for any number of modules: in the end
\* every file is closed, and only what the tables point into is mapped (elf_add,
\* phdr_callback, backtrace_initialize).
THEOREM NothingStaysOpen == ElfSpec => []NothingLeaks
<1>1. ElfInv => NothingLeaks
  BY DEF ElfInv, CloseInv, ViewInv, WaitInv, NothingLeaks, Opening, Until
<1>q. QED BY <1>1, ElfInvariant, PTL

\* Addresses are looked up in the debug information exactly when a module has any.
THEOREM DebugInfoIsUsed == ElfSpec => []DebugInfoUsed
<1>1. ElfInv => DebugInfoUsed
  <2> SUFFICES ASSUME ElfInv, at = "idle", failed \/ fn # None
              PROVE  (fn = "dwarf" <=> dwarfs # {}) /\ (failed => fn = None)
    BY DEF DebugInfoUsed
  <2>1. /\ elf_fn = "dwarf" <=> dwarfs # {}
        /\ fn # None => fn = elf_fn
        /\ failed => fn = None /\ dwarfs = {}
    BY DEF ElfInv, FnInv
  <2>2. None # "dwarf"
    OBVIOUS
  <2>q. QED BY <2>1, <2>2
<1>q. QED BY <1>1, ElfInvariant, PTL
=============================================================================
