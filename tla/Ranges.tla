------------------------------- MODULE Ranges -------------------------------
(***************************************************************************)
(* The address ranges whose native frames are left out (vmp_stack.c):      *)
(* vmp_read_vmaps collects those of the interpreter from the lines of      *)
(* /proc/self/maps into a growing array of bounds, neighbours joined, and  *)
(* vmp_ignore_ip looks an address up by bisection over the single bounds.  *)
(* Both end of a range included.  The array is mem, from position 0; what  *)
(* is in a cell before it is written is Garbage.                           *)
(***************************************************************************)
EXTENDS Integers

CONSTANTS
  Mappings,  \* bound: the mappings <<start, end>> a line can be about
  Addrs,     \* bound: the addresses that are looked up
  Garbage    \* contents of fresh memory

ASSUME RangesAssumption ==
  /\ Mappings \subseteq Nat \X Nat /\ \A m \in Mappings : m[1] < m[2]
  /\ Addrs \subseteq Nat /\ Garbage \in Int

VARIABLES
  phase,     \* "idle", "reading" (vmp_read_vmaps), "search" (vmp_ignore_ip), "answered"
  mem,       \* vmp_ranges
  max_count, \* cells that were allocated
  count,     \* vmp_range_count
  cursor,    \* where the last bound was written
  last,      \* end of the mapping the last line was about
  maps,      \* the mappings that are to be ignored, of the file that was read
  ip, l, r,  \* vmp_ignore_ip: the address, the part of the array still searched
  ignored    \* its result
vars == <<phase, mem, max_count, count, cursor, last, maps, ip, l, r, ignored>>

InitialCount == 10

\* Writing a cell, and moving to larger memory.
Store(m, i, v) == [j \in DOMAIN m \cup {i} |-> IF j = i THEN v ELSE m[j]]
Realloc(m, n)  == [j \in 0..(n - 1) |-> IF j \in DOMAIN m THEN m[j] ELSE Garbage]

Init ==
  /\ phase = "idle"
  /\ mem = << >> /\ max_count = 0 /\ count = 0 /\ cursor = 0
  /\ last = 0 /\ maps = {}
  /\ ip = 0 /\ l = 0 /\ r = 0 /\ ignored = FALSE

Quiet == phase \in {"idle", "answered"}
-----------------------------------------------------------------------------
(* vmp_read_vmaps.                                                         *)

ResetRanges ==
  /\ Quiet
  /\ phase' = "reading"
  /\ max_count' = InitialCount
  /\ mem' = Store([j \in 0..(InitialCount - 1) |-> Garbage], 0, -1)
  /\ count' = 0 /\ cursor' = 0
  /\ last' = 0 /\ maps' = {}
  /\ ip' = 0 /\ ignored' = FALSE
  /\ UNCHANGED <<l, r>>

\* Mutant of ResizedCount: as if one bound were written.
ResizedCountOne == IF cursor + 1 > max_count THEN 2 * max_count ELSE max_count

ResizedCount == IF cursor + 2 > max_count THEN 2 * max_count ELSE max_count

\* _add_to_range, in the memory m.
AddToRange(m, start, end) ==
  LET c == IF cursor # 0 THEN cursor + 1 ELSE cursor
  IN  IF m[cursor] = start
      THEN mem' = Store(m, cursor, end) /\ UNCHANGED <<count, cursor>>
      ELSE /\ mem' = Store(Store(m, c, start), c + 1, end)
           /\ count' = count + 2 /\ cursor' = c + 1

\* A line whose mapping is to be ignored; the lines ascend.  Any other line
\* changes nothing.
IgnoredLine(start, end) ==
  /\ phase = "reading"
  /\ last <= start
  /\ max_count' = ResizedCount
  /\ AddToRange(IF max_count' = max_count THEN mem ELSE Realloc(mem, max_count'), start, end)
  /\ maps' = maps \cup {<<start, end>>}
  /\ last' = end
  /\ UNCHANGED <<phase, ip, l, r, ignored>>

EndOfFile ==
  /\ phase = "reading"
  /\ phase' = "idle"
  /\ UNCHANGED <<mem, max_count, count, cursor, last, maps, ip, l, r, ignored>>

\* vmp_native_disable frees the ranges.
NativeDisable ==
  /\ Quiet
  /\ phase' = "idle"
  /\ mem' = << >> /\ max_count' = 0 /\ count' = 0 /\ cursor' = 0 /\ maps' = {}
  /\ ip' = 0 /\ ignored' = FALSE
  /\ UNCHANGED <<last, l, r>>
-----------------------------------------------------------------------------
(* vmp_ignore_ip and vmp_binary_search_ranges.                             *)

IgnoreIp(x) ==
  /\ Quiet
  /\ ip' = x /\ l' = 0 /\ r' = count
  /\ ignored' = FALSE
  /\ phase' = IF count = 0 THEN "answered" ELSE "search"
  /\ UNCHANGED <<mem, max_count, count, cursor, last, maps>>

\* Mutant of Narrow: the middle is left out of the upper half.
NarrowPast ==
  LET m == l + (r - l) \div 2
  IN  /\ phase = "search" /\ (r - l) \div 2 # 0
      /\ IF ip < mem[m] THEN r' = m /\ UNCHANGED l ELSE l' = m + 1 /\ UNCHANGED r
      /\ UNCHANGED <<phase, mem, max_count, count, cursor, last, maps, ip, ignored>>

Narrow ==
  LET m == l + (r - l) \div 2
  IN  /\ phase = "search" /\ (r - l) \div 2 # 0
      /\ IF ip < mem[m] THEN r' = m /\ UNCHANGED l ELSE l' = m /\ UNCHANGED r
      /\ UNCHANGED <<phase, mem, max_count, count, cursor, last, maps, ip, ignored>>

\* One bound is left: the index of the lower bound of its range, or -1.
Outside == (l = 0 /\ mem[l] > ip) \/ (l = count - 1 /\ mem[l] < ip)
Lower   == IF l % 2 = 1 THEN l - 1 ELSE l
Answer ==
  /\ phase = "search" /\ (r - l) \div 2 = 0
  /\ phase' = "answered"
  /\ ignored' = (~Outside /\ mem[Lower] <= ip /\ ip <= mem[Lower + 1])
  /\ l' = 0 /\ r' = 0
  /\ UNCHANGED <<mem, max_count, count, cursor, last, maps, ip>>

Next ==
  \/ ResetRanges \/ EndOfFile \/ NativeDisable
  \/ \E m \in Mappings : IgnoredLine(m[1], m[2])
  \/ \E x \in Addrs : IgnoreIp(x)
  \/ Narrow \/ Answer
Spec == Init /\ [][Next]_vars
-----------------------------------------------------------------------------
\* The bounds are written where memory was allocated for them, however many
\* ranges there are.  (vmp_stack.c:569-595)
WrittenInBounds == DOMAIN mem = 0..(max_count - 1) /\ count <= max_count

\* An address is ignored exactly when a mapping that is to be ignored has it,
\* the address behind its end included.  (vmp_stack.c:832-878)
IgnoresTheMappings ==
  phase = "answered" => (ignored = \E m \in maps : m[1] <= ip /\ ip <= m[2])

\* The ranges ascend and do not touch.  (vmp_stack.c:579-595, 614)
RangesApart == \A i, j \in 0..(count - 1) : i < j => mem[i] < mem[j]
-----------------------------------------------------------------------------
(* The inductive invariant.                                                *)

Between(x) == \E k \in 0..(count - 1) : k % 2 = 0 /\ mem[k] <= x /\ x <= mem[k + 1]
Mapped(x)  == \E m \in maps : m[1] <= x /\ x <= m[2]

TypeOK ==
  /\ phase \in {"idle", "reading", "search", "answered"}
  /\ max_count \in Nat /\ count \in Nat /\ cursor \in Nat /\ last \in Nat
  /\ maps \subseteq Nat \X Nat
  /\ ip \in Nat /\ l \in Nat /\ r \in Nat /\ ignored \in BOOLEAN
  /\ \A i \in DOMAIN mem : mem[i] \in Int

\* The parity that makes the test of _resize_ranges enough.
Parity ==
  /\ max_count % 2 = 0 /\ count % 2 = 0 /\ count <= max_count
  /\ cursor = IF count = 0 THEN 0 ELSE count - 1
  /\ phase = "reading" => max_count >= InitialCount /\ (count = 0 => mem[0] = -1)

Collected ==
  /\ \A i \in 0..(count - 1) : 0 <= mem[i] /\ (phase = "reading" => mem[i] <= last)
  /\ \A x \in Nat : Mapped(x) <=> Between(x)

\* The bounds below l are not above ip, those from r on are.
Searched ==
  phase = "search" =>
    /\ count > 0 /\ l < r /\ r <= count
    /\ l = 0 \/ mem[l] <= ip
    /\ r = count \/ ip < mem[r]

IInv == TypeOK /\ WrittenInBounds /\ Parity /\ RangesApart /\ Collected /\ Searched /\ IgnoresTheMappings
=============================================================================
