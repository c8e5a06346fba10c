------------------------------- MODULE Report -------------------------------
(***************************************************************************)
(* What is made of the profiles that were read: Stats counts the functions *)
(* on top of each other once per profile and folds the profiles into a     *)
(* tree (src/vmprof/stats.py), and the printers of vmprofshow walk it      *)
(* (src/vmprof/show.py).                                                   *)
(*                                                                         *)
(* An entry of a profile is a frame or, in line mode after each frame, a   *)
(* line.  A node of the tree is the path of addresses that leads to it.    *)
(* Names are the kind the printers tell apart; percentages stay fractions. *)
(* Python's sum is Total, a cardinality, so that it can be reasoned about. *)
(***************************************************************************)
EXTENDS Integers, Sequences, FiniteSets, SequencesExt

CONSTANTS
  Codes,       \* addresses of Python code objects
  Natives,     \* addresses of native code
  Jitted,      \* the code addresses that PyPy also reports as jitted
  Assembled,   \* addresses of assembler, from PyPy
  Modules,     \* the code objects named py:<module>, not of vmprof/__main__.py
  LineNumbers, \* lines of a sample
  MaxDepth,    \* bound: frames of a profile
  MaxProfiles  \* bound: profiles

ASSUME ReportAssumption ==
  /\ Codes \cup Natives \cup Assembled \cup LineNumbers \subseteq Nat \ {0}
  /\ Codes \cap Natives = {} /\ Assembled \cap (Codes \cup Natives) = {}
  /\ Jitted \cup Modules \subseteq Codes
  /\ {MaxDepth, MaxProfiles} \subseteq Nat \ {0}

VARIABLES
  profiles,  \* stats.profiles, the outermost entry first
  lined,     \* profile_lines
  functions, \* how many profiles have a function
  seen,      \* current_iter: the functions of this profile that are counted
  tree,      \* the nodes by their path from the top
  root,      \* the address of the top
  cur,       \* get_tree's node,
  last,      \* last_addr
  addr,      \* and addr, which is kept from profile to profile
  shown,     \* filter_top's node, in the end the top of what is shown
  stage,     \* what is being computed
  next,      \* the profile that is looked at,
  pos        \* and its entry
loop == <<stage, next, pos>>
report_vars == <<profiles, lined, functions, seen, tree, root, cur, last, addr, shown, loop>>

Addresses == Codes \cup Natives \cup Assembled
Entry(k, a) == [kind |-> k, a |-> a]
NoEntry == Entry("none", 0)
PyPyFrames == {Entry("code", a) : a \in Codes} \cup {Entry("jit", a) : a \in Jitted}
                \cup {Entry("asm", a) : a \in Assembled}
CPythonFrames == {Entry("code", a) : a \in Codes} \cup {Entry("native", a) : a \in Natives}
LineEntries == {Entry("line", -n) : n \in LineNumbers}
\* read_all: in line mode the reversed trace has each frame before its line.
Lined(frames, lines) ==
  [i \in 1 .. 2 * Len(frames) |-> IF i % 2 = 1 THEN frames[(i + 1) \div 2] ELSE lines[i \div 2]]

PlainProfiles == BoundedSeq(PyPyFrames, MaxDepth) \cup BoundedSeq(CPythonFrames, MaxDepth)
LinedProfiles == UNION {{Lined(f, l) : f \in [1 .. n -> CPythonFrames],
                         l \in [1 .. n -> LineEntries]} : n \in 0 .. MaxDepth - 1}

\* The sum of a function's values: as many pairs.
Units(f) == UNION {{<<x, n>> : n \in 1 .. f[x]} : x \in DOMAIN f}
Total(f) == Cardinality(Units(f))

\* d[x] = d.get(x, 0) + 1
OneMore(d, x) == [y \in DOMAIN d \cup {x} |->
                    (IF y \in DOMAIN d THEN d[y] ELSE 0) + (IF y = x THEN 1 ELSE 0)]
Kinds == {"jit", "native"}
Node(n, number) == [count |-> n, lines |-> << >>, meta |-> [k \in Kinds |-> 0], nr |-> number]

ReportInit ==
  /\ \/ lined = FALSE /\ profiles \in BoundedSeq(PlainProfiles, MaxProfiles)
     \/ lined = TRUE  /\ profiles \in BoundedSeq(LinedProfiles, MaxProfiles)
  /\ functions = << >> /\ seen = {}
  /\ tree = << >> /\ root = 0 /\ cur = <<>> /\ last = 0 /\ addr = NoEntry /\ shown = <<>>
  /\ stage = "top" /\ next = 1 /\ pos = 1

\* The loops over the profiles and over the entries of one.
InProfile == next \in DOMAIN profiles /\ pos \in DOMAIN profiles[next]
NextEntry == pos' = pos + 1 /\ UNCHANGED <<stage, next>>
AtEnd     == next \in DOMAIN profiles /\ pos \notin DOMAIN profiles[next]
NextProfile == next' = next + 1 /\ pos' = 1 /\ UNCHANGED stage
Here == profiles[next][pos]
\* The next stage begins.
Begin(s) == next \notin DOMAIN profiles /\ stage' = s /\ next' = 1 /\ pos' = 1

-----------------------------------------------------------------------------
(* Stats.generate_top, called by the constructor *)

\* Mutant of CountEntry: a function is counted as often as it is on the stack.
CountEach ==
  /\ stage = "top" /\ InProfile /\ NextEntry
  /\ IF lined /\ pos % 2 = 0
     THEN UNCHANGED <<functions, seen>>
     ELSE functions' = OneMore(functions, Here.a) /\ seen' = seen \cup {Here.a}
  /\ UNCHANGED <<profiles, lined, tree, root, cur, last, addr, shown>>

CountEntry ==
  /\ stage = "top" /\ InProfile /\ NextEntry
  /\ IF (lined /\ pos % 2 = 0) \/ Here.a \in seen
     THEN UNCHANGED <<functions, seen>>
     ELSE functions' = OneMore(functions, Here.a) /\ seen' = seen \cup {Here.a}
  /\ UNCHANGED <<profiles, lined, tree, root, cur, last, addr, shown>>

CountedProfile ==
  /\ stage = "top" /\ AtEnd /\ NextProfile
  /\ seen' = {}
  /\ UNCHANGED <<profiles, lined, functions, tree, root, cur, last, addr, shown>>

\* get_top: the first address of the first profile that has one, or EmptyProfileFile.
GetTop ==
  /\ stage = "top"
  /\ IF \A i \in DOMAIN profiles : profiles[i] = <<>>
     THEN Begin("empty") /\ UNCHANGED <<tree, root, last>>
     ELSE /\ Begin("tree")
          /\ \E i \in DOMAIN profiles :
               /\ profiles[i] # <<>> /\ \A j \in 1 .. i - 1 : profiles[j] = <<>>
               /\ root' = profiles[i][1].a
          /\ tree' = [p \in {<<>>} |-> Node(Len(profiles), 0)]
          /\ last' = root'
  /\ UNCHANGED <<profiles, lined, functions, seen, cur, addr, shown>>

-----------------------------------------------------------------------------
(* Stats.get_tree *)

InTree == stage = "tree" /\ UNCHANGED <<profiles, lined, functions, seen, root, shown>>

SkipAssembler ==
  /\ InTree /\ InProfile /\ NextEntry
  /\ Here.kind = "asm"
  /\ UNCHANGED <<tree, cur, last, addr>>

CountLine ==
  /\ InTree /\ InProfile /\ NextEntry
  /\ Here.kind # "asm" /\ Here.a <= 0
  /\ addr' = Here
  /\ tree' = [tree EXCEPT ![cur].lines = OneMore(@, -Here.a)]
  /\ UNCHANGED <<cur, last>>

SkipDuplicate ==
  /\ InTree /\ InProfile /\ NextEntry
  /\ Here.kind # "asm" /\ Here.a > 0 /\ Here.a = last
  /\ addr' = Here
  /\ UNCHANGED <<tree, cur, last>>

AddChild ==
  /\ InTree /\ InProfile /\ NextEntry
  /\ Here.kind # "asm" /\ Here.a > 0 /\ Here.a # last
  /\ addr' = Here /\ last' = Here.a /\ cur' = Append(cur, Here.a)
  /\ tree' = IF cur' \in DOMAIN tree THEN [tree EXCEPT ![cur'].count = @ + 1]
             ELSE [p \in DOMAIN tree \cup {cur'} |->
                     IF p = cur' THEN Node(1, Cardinality(DOMAIN tree)) ELSE tree[p]]

\* Mutant of MarkLast: a profile that ends in the JIT is marked at the top.
MarkTop ==
  /\ InTree /\ AtEnd /\ NextProfile
  /\ tree' = IF addr.kind \in Kinds THEN [tree EXCEPT ![<<>>].meta[addr.kind] = @ + 1] ELSE tree
  /\ cur' = <<>> /\ last' = root /\ UNCHANGED addr

\* After the last entry its kind is counted at its node; an empty profile finds
\* the address of the one before.
MarkLast ==
  /\ InTree /\ AtEnd /\ NextProfile
  /\ tree' = IF addr.kind \in Kinds THEN [tree EXCEPT ![cur].meta[addr.kind] = @ + 1] ELSE tree
  /\ cur' = <<>> /\ last' = root /\ UNCHANGED addr

-----------------------------------------------------------------------------
(* Stats.filter_top *)

AddrOf(path)   == IF path = <<>> THEN root ELSE Last(path)
Children(path) == {q \in DOMAIN tree : q # <<>> /\ Front(q) = path}
\* The first of the children with the most samples, in the order of the dict.
Biggest(path) == {p \in Children(path) : \A q \in Children(path) :
  tree[p].count > tree[q].count \/ (tree[p].count = tree[q].count /\ tree[p].nr <= tree[q].nr)}

StartFilter ==
  /\ stage = "tree" /\ Begin("filter") /\ shown' = <<>>
  /\ UNCHANGED <<profiles, lined, functions, seen, tree, root, cur, last, addr>>

\* One turn of the loop: down the heaviest branch to the first module, or, at
\* the end of the branch, back to the top.
FilterTop ==
  /\ stage = "filter"
  /\ \/ AddrOf(shown) \in Modules /\ stage' = "done" /\ UNCHANGED shown
     \/ AddrOf(shown) \notin Modules /\ shown' \in Biggest(shown) /\ UNCHANGED stage
     \/ /\ AddrOf(shown) \notin Modules /\ Children(shown) = {}
        /\ stage' = "done" /\ shown' = <<>>
  /\ UNCHANGED <<profiles, lined, functions, seen, tree, root, cur, last, addr, next, pos>>

ReportNext ==
  \/ CountEntry \/ CountedProfile \/ GetTop
  \/ SkipAssembler \/ CountLine \/ SkipDuplicate \/ AddChild \/ MarkLast
  \/ StartFilter \/ FilterTop
ReportSpec == ReportInit /\ [][ReportNext]_report_vars

-----------------------------------------------------------------------------
(* Printing *)

CountOf(S) == Total([p \in S |-> tree[p].count])
Below(top) == {p \in DOMAIN tree : IsPrefix(top, p)}
NodesOf(a) == {p \in Below(shown) : AddrOf(p) = a}
Callees(a) == UNION {Children(p) : p \in NodesOf(a)}

\* Mutant of FlatOf: the counts of the functions called stay in.
FlatOfAll(a) == CountOf(NodesOf(a))

\* FlatPrinter: how much of the time a function had without its callees.
FlatOf(a) == CountOf(NodesOf(a)) - CountOf(Callees(a))

\* The same with no_native, which leaves native functions out and counts what
\* they cost for the function that called them.
FlatNoNative(a) ==
  CountOf(NodesOf(a)) - CountOf({p \in Callees(a) : AddrOf(p) \notin Natives})

-----------------------------------------------------------------------------
(* Properties *)

Done == stage = "done"

\* The topmost nodes of a function in the tree count the profiles it is in, as
\* generate_top does, however often and at whatever depth it recurs.  The root
\* counts every profile, and assembler has no node (get_tree, generate_top).
TreeMatchesTop ==
  Done => \A a \in (Codes \cup Natives) \ {root} :
    CountOf({p \in DOMAIN tree : AddrOf(p) = a /\ \A i \in 1 .. Len(p) - 1 : p[i] # a})
      = IF a \in DOMAIN functions THEN functions[a] ELSE 0

\* When no profile is without an address of its own, a function has as many
\* "jit" and "native" marks as profiles end in it in that way (get_tree).
EndsIn(profile, k, a) ==
  \E i \in DOMAIN profile : /\ profile[i] = Entry(k, a)
                            /\ \A j \in i + 1 .. Len(profile) : profile[j].kind = "asm"
MarksOf(k, a) == Total([p \in {q \in DOMAIN tree : AddrOf(q) = a} |-> tree[p].meta[k]])
MarksAddUp ==
  Done /\ (\A i \in DOMAIN profiles : \E j \in DOMAIN profiles[i] : profiles[i][j].kind # "asm") =>
    \A a \in Codes \cup Natives, k \in Kinds :
      MarksOf(k, a) = Cardinality({i \in DOMAIN profiles : EndsIn(profiles[i], k, a)})

\* The flat times without callees are times, and they add up to the time of the
\* tree that is shown; a function has no less when the native functions it
\* calls remain included, and most with all of them (FlatPrinter: "exclusive of
\* functions called").
FlatAddsUp ==
  Done =>
    /\ \A a \in Addresses : 0 <= FlatOf(a)
    /\ \A a \in Addresses \ Natives : /\ FlatOf(a) <= FlatNoNative(a)
                                      /\ FlatNoNative(a) <= CountOf(NodesOf(a))
    /\ Total([a \in Addresses |-> FlatOf(a)]) = tree[shown].count

=============================================================================
