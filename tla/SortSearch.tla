----------------------------- MODULE SortSearch -----------------------------
(***************************************************************************)
(* How libbacktrace orders and searches its tables: backtrace_qsort        *)
(* (sort.c) and the bsearch of the C library, which the tables of dwarf.c  *)
(* and elf.c are sorted for.  Both are modelled step by step: which of two *)
(* entries that overlap a search returns depends on the middle it takes.   *)
(***************************************************************************)
EXTENDS Integers, Sequences, SequencesExt

Swap(a, i, j) == [k \in DOMAIN a |-> a[IF k = i THEN j ELSE IF k = j THEN i ELSE k]]

\* F(x) and a fold from the left, with the arguments worked out only once.
Once(x, F(_)) == CHOOSE r \in {F(v) : v \in {x}} : TRUE
Fold(Op(_, _), base, seq) ==
  LET RECURSIVE From(_, _)
      From(s, i) == IF i > Len(seq) THEN s ELSE Once(Op(s, seq[i]), LAMBDA t : From(t, i + 1))
  IN  Once(base, LAMBDA s : From(s, 1))

\* A comparison function of the code compares a few integers in turn.
After(k1, k2) == \E i \in DOMAIN k1 : k1[i] > k2[i] /\ \A j \in 1..(i - 1) : k1[j] = k2[j]

\* The loop of backtrace_qsort: what sorts before the pivot, the middle
\* element, moves to the front; the pivot ends up behind it, at mid.
Partitioned(a) ==
  LET Place(s, i) == IF After(s.a[1].key, s.a[i].key)
                     THEN [a |-> Swap(s.a, s.mid + 1, i), mid |-> s.mid + 1] ELSE s
      p == Fold(Place, [a |-> Swap(a, 1, Len(a) \div 2 + 1), mid |-> 1],
                [i \in 1..(Len(a) - 1) |-> i + 1])
  IN  [p EXCEPT !.a = Swap(p.a, 1, p.mid)]

RECURSIVE QSort(_)
QSort(a) ==
  LET Both(p) == QSort(SubSeq(p.a, 1, p.mid - 1)) \o <<p.a[p.mid]>>
                   \o QSort(SubSeq(p.a, p.mid + 1, Len(p.a)))
  IN  IF Len(a) < 2 THEN a ELSE Both(Partitioned(a))

SortBy(Key(_), a) ==
  LET s == QSort([i \in DOMAIN a |-> [key |-> Key(a[i]), v |-> a[i]]])
  IN  [i \in DOMAIN a |-> s[i].v]

\* bsearch over the positions l..(u-1), 0 when nothing compares equal;
\* cmp[i] is what the comparison of the key with entry i returns.
RECURSIVE Halve(_, _, _)
Halve(cmp, l, u) ==
  IF l >= u THEN 0
  ELSE LET i == (l + u - 2) \div 2 + 1  \* (l + u) / 2 with positions from 0
       IN  CASE cmp[i] < 0 -> Halve(cmp, l, i)
             [] cmp[i] > 0 -> Halve(cmp, i + 1, u)
             [] OTHER -> i
BSearch(cmp) == Halve(cmp, 1, Len(cmp) + 1)

\* The comparison of a pc with the ranges [low, high).
InRange(r, pc) == r.low <= pc /\ pc < r.high
RangeCmp(vec, pc) ==
  [i \in DOMAIN vec |-> IF pc < vec[i].low THEN -1 ELSE IF pc >= vec[i].high THEN 1 ELSE 0]

\* A search of sorted ranges, then forward while the next one has pc too.
FindRange(vec, pc) ==
  LET i == BSearch(RangeCmp(vec, pc))
  IN  IF i = 0 THEN 0
      ELSE Max({j \in i..Len(vec) : \A k \in i..j : InRange(vec[k], pc)})
=============================================================================
