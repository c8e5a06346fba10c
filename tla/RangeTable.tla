----------------------------- MODULE RangeTable -----------------------------
(***************************************************************************)
(* One table of address ranges of libbacktrace, from the vector that was   *)
(* read to the entry an address gets: backtrace_qsort (sort.c) sorts it in *)
(* place, bsearch finds an entry that has the address, and the loops       *)
(* around it (dwarf.c) take the last of the ranges that have it and walk   *)
(* back over units known to be useless.  SortSearch has the same as        *)
(* functions; here each turn of a loop is a step, so that it can be        *)
(* reasoned about for tables of any length.  Positions count from 1.       *)
(***************************************************************************)
EXTENDS Integers, Sequences, FiniteSets

CONSTANTS
  Entries,   \* the ranges [low, high, third, who] a table may have
  PCs,       \* the addresses that are looked up
  MaxEntries \* bound: entries of a table

ASSUME RangeTableAssumption ==
  /\ Entries \subseteq [low : Int, high : Int, third : Int, who : Nat]
  /\ PCs \subseteq Int /\ MaxEntries \in Nat

VARIABLES
  given,   \* the vector as it was read
  table,   \* the array that is sorted in place
  base, size, \* the slice backtrace_qsort is about, behind position base
  mid, nxt, \* its mid, and its i
  calls,   \* the calls that wait for the call they have made, outermost first
  step,    \* where the code is
  key,     \* pc, the address that is looked up
  lo, hi,  \* the part of the table bsearch still looks at, behind lo up to hi
  entry,   \* the entry found, 0 for NULL
  useless  \* the units whose lines cannot be read (lines is -1)
slice == <<base, size>>
search == <<key, lo, hi, entry, useless>>
rt_vars == <<given, table, slice, mid, nxt, calls, step, search>>

\* function_addrs_compare and unit_addrs_compare: by low, the larger first, then
\* by the name of the function or the lines of the unit.
Greater(x, y) ==
  \/ x.low > y.low
  \/ x.low = y.low /\ x.high < y.high
  \/ x.low = y.low /\ x.high = y.high /\ x.third > y.third

Has(e, pc) == e.low <= pc /\ pc < e.high
Swapped(a, i, j) == [k \in DOMAIN a |-> a[IF k = i THEN j ELSE IF k = j THEN i ELSE k]]

RTInit ==
  /\ \E n \in 0 .. MaxEntries : given \in [1 .. n -> Entries]
  /\ table = given
  /\ base = 0 /\ size = Len(given) /\ mid = 0 /\ nxt = 0 /\ calls = <<>>
  /\ step = "sort"
  /\ key = 0 /\ lo = 0 /\ hi = 0 /\ entry = 0 /\ useless = {}
-----------------------------------------------------------------------------
(* backtrace_qsort *)

\* The middle element becomes the pivot, at the front.
Pivot ==
  /\ step = "sort" /\ size >= 2
  /\ table' = Swapped(table, base + 1, base + size \div 2 + 1)
  /\ mid' = 0 /\ nxt' = 1
  /\ step' = "partition"
  /\ UNCHANGED <<given, slice, calls, search>>

\* What sorts before the pivot moves to the front.
Partition ==
  /\ step = "partition" /\ nxt < size
  /\ IF Greater(table[base + 1], table[base + nxt + 1])
     THEN mid' = mid + 1 /\ table' = Swapped(table, base + mid' + 1, base + nxt + 1)
     ELSE UNCHANGED <<mid, table>>
  /\ nxt' = nxt + 1
  /\ UNCHANGED <<given, slice, calls, step, search>>

\* Mutant of Recurse: the pivot stays at the front.
RecurseUnplaced ==
  /\ step = "partition" /\ nxt = size
  /\ calls' = Append(calls, [base |-> base, size |-> size, mid |-> mid])
  /\ IF 2 * mid < size
     THEN UNCHANGED base /\ size' = mid
     ELSE base' = base + mid + 1 /\ size' = size - (mid + 1)
  /\ step' = "sort"
  /\ UNCHANGED <<given, table, mid, nxt, search>>

\* The pivot goes to mid, and a call sorts the smaller part.
Recurse ==
  /\ step = "partition" /\ nxt = size
  /\ table' = Swapped(table, base + 1, base + mid + 1)
  /\ calls' = Append(calls, [base |-> base, size |-> size, mid |-> mid])
  /\ IF 2 * mid < size
     THEN UNCHANGED base /\ size' = mid
     ELSE base' = base + mid + 1 /\ size' = size - (mid + 1)
  /\ step' = "sort"
  /\ UNCHANGED <<given, mid, nxt, search>>

\* The caller goes on with the larger part ("goto tail_recurse").
RestOf(c) == IF 2 * c.mid < c.size THEN [base |-> c.base + c.mid + 1, size |-> c.size - (c.mid + 1)]
             ELSE [base |-> c.base, size |-> c.mid]
ReturnFrom ==
  /\ step = "sort" /\ size < 2
  /\ IF calls = <<>> THEN step' = "sorted" /\ UNCHANGED <<slice, calls>>
     ELSE LET rest == RestOf(calls[Len(calls)])
          IN  /\ base' = rest.base /\ size' = rest.size
              /\ calls' = SubSeq(calls, 1, Len(calls) - 1)
              /\ UNCHANGED step
  /\ UNCHANGED <<given, table, mid, nxt, search>>
-----------------------------------------------------------------------------
(* dwarf_lookup_pc, report_inlined_functions *)

LookUp ==
  /\ step \in {"sorted", "found"}
  /\ key' \in PCs /\ useless' \in SUBSET {e.who : e \in Entries}
  /\ lo' = 0 /\ hi' = Len(table) /\ entry' = 0
  /\ step' = "bsearch"
  /\ UNCHANGED <<given, table, slice, mid, nxt, calls>>

\* bsearch: one turn of its loop, with function_addrs_search or unit_addrs_search.
Middle == (lo + hi) \div 2 + 1
Bisect ==
  /\ step = "bsearch"
  /\ \/ lo >= hi /\ step' = "found" /\ UNCHANGED <<lo, hi, entry>>
     \/ lo < hi /\ key < table[Middle].low /\ hi' = Middle - 1 /\ UNCHANGED <<lo, entry, step>>
     \/ lo < hi /\ key >= table[Middle].high /\ key >= table[Middle].low
          /\ lo' = Middle /\ UNCHANGED <<hi, entry, step>>
     \/ lo < hi /\ Has(table[Middle], key) /\ entry' = Middle /\ step' = "onward"
          /\ UNCHANGED <<lo, hi>>
  /\ UNCHANGED <<given, table, slice, mid, nxt, calls, key, useless>>

\* Mutant of Onward: the hit of bsearch is used.
OnwardNot ==
  /\ step = "onward" /\ step' = "back"
  /\ UNCHANGED <<given, table, slice, mid, nxt, calls, search>>

\* "If there are multiple ranges that contain PC, use the last one."
Onward ==
  /\ step = "onward"
  /\ IF entry < Len(table) /\ Has(table[entry + 1], key)
     THEN entry' = entry + 1 /\ UNCHANGED step
     ELSE step' = "back" /\ UNCHANGED entry
  /\ UNCHANGED <<given, table, slice, mid, nxt, calls, key, lo, hi, useless>>

\* "Skip units with no useful line number information by walking backward."
Back ==
  /\ step = "back"
  /\ IF entry > 1 /\ Has(table[entry - 1], key) /\ table[entry].who \in useless
     THEN entry' = entry - 1 /\ UNCHANGED step
     ELSE step' = "found" /\ UNCHANGED entry
  /\ UNCHANGED <<given, table, slice, mid, nxt, calls, key, lo, hi, useless>>

RTNext ==
  \/ Pivot \/ Partition \/ Recurse \/ ReturnFrom
  \/ LookUp \/ Bisect \/ Onward \/ Back
RTSpec == RTInit /\ [][RTNext]_rt_vars
-----------------------------------------------------------------------------
(* Properties *)

Sorted == step \in {"sorted", "bsearch", "onward", "back", "found"}

\* The vector is sorted, and has the entries it was given, each as often
\* (backtrace_qsort).
TimesIn(a, e) == Cardinality({i \in DOMAIN a : a[i] = e})
SortsTheVector ==
  Sorted => /\ \A i, j \in DOMAIN table : i < j => ~Greater(table[i], table[j])
            /\ \A i \in DOMAIN given : TimesIn(table, given[i]) = TimesIn(given, given[i])
            /\ Len(table) = Len(given)

\* A call sorts less than half of what its caller does: "that ensures that our
\* maximum stack depth is log count" (sort.c:92-93).
CallsHalve ==
  step \in {"sort", "partition"} =>
    /\ \A k \in 1 .. Len(calls) - 1 : 2 * calls[k + 1].size < calls[k].size
    /\ calls # <<>> => 2 * size < calls[Len(calls)].size /\ calls[1].size <= Len(given)

\* The entry an address gets has it.  It is the last that has it whose unit is
\* not useless, or the first that has it when all are, and there is none only
\* when no range has it - as long as no range that has the address sorts before
\* one that ends by it, as in a table of ranges that do not overlap
\* (dwarf_lookup_pc; dwarf.c:828-830, 2668-2671).
Apart == \A i, j \in DOMAIN given :
           Has(given[i], key) /\ given[j].high <= key => Greater(given[i], given[j])
FindsTheRange ==
  step = "found" =>
    /\ entry # 0 => Has(table[entry], key)
    /\ Apart =>
         /\ entry = 0 => \A i \in DOMAIN table : ~Has(table[i], key)
         /\ \A i \in DOMAIN table : Has(table[i], key) /\ i > entry => table[i].who \in useless
         /\ \A i \in DOMAIN table : entry # 0 /\ Has(table[i], key) /\ i < entry =>
              table[entry].who \notin useless
=============================================================================
