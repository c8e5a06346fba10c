------------------------------ MODULE ElfFile -------------------------------
(***************************************************************************)
(* How libbacktrace reads the program and its shared libraries, once, when *)
(* vmp_resolve_addr is first called: fileline_initialize (fileline.c),     *)
(* backtrace_initialize, phdr_callback and elf_add (elf.c).  Each view of  *)
(* a file is an mmap that can fail, what is in the file is chosen where it *)
(* is looked at.  A module and its descriptor have one number: 0 is the    *)
(* program, the others count down in the order dl_iterate_phdr has them.   *)
(* The calls are made under the interpreter's lock, one after the other.   *)
(* The specification is ElfSpec, to be extended together with Ranges.      *)
(***************************************************************************)
EXTENDS Integers, Sequences, SequencesExt

CONSTANTS
  MaxModules,  \* bound: calls of phdr_callback
  None         \* NULL, and the descriptor -1

ASSUME ElfFileAssumption ==
  MaxModules \in Nat \ {0} /\ None \notin 0 .. MaxModules /\ None \notin {"dwarf", "nodebug"}

VARIABLES
  failed,    \* state->fileline_initialization_failed
  fn,        \* state->fileline_fn
  dwarfs,    \* modules in state->fileline_data
  syms,      \* modules in state->syminfo_data
  at,        \* where the initialization is
  pass,      \* the file name that is tried
  loc,       \* what elf_add works on: the module, its descriptor, exe, and the *_view_valid set
  elf_fn,    \* backtrace_initialize's elf_fileline_fn
  exe_fd,    \* pd.exe_descriptor
  left,      \* calls of phdr_callback still to come
  views,     \* views that are mapped
  closes     \* how often each descriptor that was opened was closed
elf_vars == <<failed, fn, dwarfs, syms, at, pass, loc, elf_fn, exe_fd, left, views, closes>>

Exe == 0

\* The names tried: state->filename and getexecname() are NULL here.
Names == <<None, None, "/proc/self/exe", "/proc/curproc/file">>

ElfInit ==
  /\ failed = FALSE /\ fn = None /\ dwarfs = {} /\ syms = {}
  /\ at = "idle" /\ pass = 1 /\ left = MaxModules
  /\ loc = [mod |-> Exe, fd |-> None, exe |-> TRUE, valid |-> {}]
  /\ elf_fn = "nodebug" /\ exe_fd = None
  /\ views = {} /\ closes = << >>

Opened(m) == closes' = [f \in DOMAIN closes \cup {m} |-> IF f = m THEN 0 ELSE closes[f]]
Closed(fds) == [f \in DOMAIN closes |-> IF f \in fds THEN closes[f] + 1 ELSE closes[f]]
-----------------------------------------------------------------------------
(* elf_add, on the module m with descriptor fd.                            *)

ElfAdd(m, exe) ==
  /\ loc' = [mod |-> m, fd |-> m, exe |-> exe, valid |-> {}]
  /\ at' = "header"

\* Back in backtrace_initialize, or in phdr_callback.
Return0 ==
  IF loc.exe THEN at' = "idle" /\ failed' = TRUE ELSE at' = "phdr" /\ UNCHANGED failed

\* fail: what is flagged valid is released and the descriptor closed.
Release(valid) == views \ {<<loc.mod, k>> : k \in valid}
Fail ==
  /\ views' = Release(loc.valid)
  /\ closes' = Closed({loc.fd})
  /\ Return0
  /\ UNCHANGED <<fn, dwarfs, syms, pass, loc, elf_fn, exe_fd, left>>

\* The file header; a program that can be moved is read again, when
\* phdr_callback knows where it is.
ReadHeader ==
  /\ at = "header"
  /\ \/ Fail
     \/ /\ loc.exe
        /\ exe_fd' = loc.fd /\ at' = "phdr"
        /\ UNCHANGED <<failed, fn, dwarfs, syms, pass, loc, elf_fn, left, views, closes>>
     \/ /\ at' = "shdrs"
        /\ UNCHANGED <<failed, fn, dwarfs, syms, pass, loc, elf_fn, exe_fd, left, views, closes>>

GetView(kind, next) ==
  /\ at = kind
  /\ \/ Fail
     \/ /\ views' = views \cup {<<loc.mod, kind>>}
        /\ loc' = [loc EXCEPT !.valid = @ \cup {kind}]
        /\ at' = next
        /\ UNCHANGED <<failed, fn, dwarfs, syms, pass, elf_fn, exe_fd, left, closes>>

\* Names of sections and the link to the strings may be out of range.
FindSections ==
  /\ at = "sections"
  /\ \/ Fail
     \/ /\ at' \in {"symtab", "release"}
        /\ UNCHANGED <<failed, fn, dwarfs, syms, pass, loc, elf_fn, exe_fd, left, views, closes>>

\* The table of symbols is made and published, which needs memory and names
\* in range.  The symbol table is released, and both stay flagged as valid.
InitializeSyminfo ==
  /\ at = "syminfo"
  /\ \/ Fail
     \/ /\ views' = Release({"symtab"})
        /\ syms' = syms \cup {loc.mod}
        /\ at' = "release"
        /\ UNCHANGED <<failed, fn, dwarfs, pass, loc, elf_fn, exe_fd, left, closes>>

ReleaseHeaders ==
  /\ at = "release"
  /\ views' = Release({"shdrs", "names"})
  /\ loc' = [loc EXCEPT !.valid = @ \ {"shdrs", "names"}]
  /\ at' \in {"debug", "nodebug"}
  /\ UNCHANGED <<failed, fn, dwarfs, syms, pass, elf_fn, exe_fd, left, closes>>

\* A close that fails is made once more.
CloseFails ==
  /\ views' = Release(loc.valid)
  /\ closes' = [closes EXCEPT ![loc.fd] = @ + 2]
  /\ Return0
  /\ UNCHANGED <<fn, dwarfs, syms, pass, loc, elf_fn, exe_fd, left>>
CloseFile ==
  /\ at \in {"nodebug", "close"}
  /\ \/ CloseFails
     \/ /\ closes' = Closed({loc.fd})
        /\ loc' = [loc EXCEPT !.fd = None]
        /\ at' = IF at = "nodebug" THEN "phdr" ELSE "dwarf"
        /\ UNCHANGED <<failed, fn, dwarfs, syms, pass, elf_fn, exe_fd, left, views>>

\* Mutant of AddDwarf: what a library's debug information sets is lost.
AddDwarfExe ==
  /\ at = "dwarf"
  /\ \/ Fail
     \/ /\ dwarfs' = dwarfs \cup {loc.mod}
        /\ elf_fn' = IF loc.exe THEN "dwarf" ELSE elf_fn
        /\ at' = "phdr"
        /\ UNCHANGED <<failed, fn, syms, pass, loc, exe_fd, left, views, closes>>

AddDwarf ==
  /\ at = "dwarf"
  /\ \/ Fail
     \/ /\ dwarfs' = dwarfs \cup {loc.mod}
        /\ elf_fn' = "dwarf"
        /\ at' = "phdr"
        /\ UNCHANGED <<failed, fn, syms, pass, loc, exe_fd, left, views, closes>>

ElfAddStep ==
  \/ ReadHeader
  \/ GetView("shdrs", "names") \/ GetView("names", "sections")
  \/ FindSections
  \/ GetView("symtab", "strtab") \/ GetView("strtab", "syminfo")
  \/ InitializeSyminfo
  \/ ReleaseHeaders
  \/ GetView("debug", "close")
  \/ CloseFile
  \/ AddDwarf
-----------------------------------------------------------------------------
(* fileline_initialize and backtrace_initialize.                           *)

\* backtrace_pcinfo: nothing is read again, whether it worked or not.
Pcinfo ==
  /\ at = "idle" /\ ~failed /\ fn = None
  /\ at' = "open"
  /\ UNCHANGED <<failed, fn, dwarfs, syms, pass, loc, elf_fn, exe_fd, left, views, closes>>

NextName ==
  /\ at = "open" /\ pass \in DOMAIN Names
  /\ pass' = pass + 1  \* no name, or no such file
  /\ UNCHANGED <<failed, fn, dwarfs, syms, at, loc, elf_fn, exe_fd, left, views, closes>>

OpenExe ==
  /\ at = "open" /\ pass \in DOMAIN Names /\ Names[pass] # None
  /\ Opened(Exe)
  /\ ElfAdd(Exe, TRUE)
  /\ UNCHANGED <<failed, fn, dwarfs, syms, pass, elf_fn, exe_fd, left, views>>

\* An error other than ENOENT ends the search, as does its end.
NotOpened ==
  /\ at = "open" /\ (pass \in DOMAIN Names => Names[pass] # None)
  /\ failed' = TRUE /\ at' = "idle"
  /\ UNCHANGED <<fn, dwarfs, syms, pass, loc, elf_fn, exe_fd, left, views, closes>>

\* phdr_callback for a module without a name: the program, if it waits.
NamelessModule ==
  /\ at = "phdr" /\ left > 0
  /\ left' = left - 1
  /\ exe_fd' = None
  /\ IF exe_fd = None THEN UNCHANGED <<loc, at>> ELSE ElfAdd(exe_fd, FALSE)
  /\ UNCHANGED <<failed, fn, dwarfs, syms, pass, elf_fn, views, closes>>

\* Mutant of NamedModule: the program is left open.
NamedModuleKeep ==
  /\ at = "phdr" /\ left > 0
  /\ left' = left - 1
  /\ exe_fd' = None
  /\ \/ UNCHANGED <<loc, at, closes>>
     \/ ElfAdd(left, FALSE) /\ Opened(left)
  /\ UNCHANGED <<failed, fn, dwarfs, syms, pass, elf_fn, views>>

\* And for one with a name, which may not open.
NamedModule ==
  /\ at = "phdr" /\ left > 0
  /\ left' = left - 1
  /\ exe_fd' = None
  /\ \/ UNCHANGED <<loc, at>> /\ closes' = Closed({exe_fd})
     \/ /\ ElfAdd(left, FALSE)
        /\ closes' = [f \in DOMAIN closes \cup {left} |-> IF f = left THEN 0 ELSE Closed({exe_fd})[f]]
  /\ UNCHANGED <<failed, fn, dwarfs, syms, pass, elf_fn, views>>

\* dl_iterate_phdr has called back at least for the program.
Initialized ==
  /\ at = "phdr" /\ left < MaxModules
  /\ fn' = elf_fn /\ at' = "idle"
  /\ UNCHANGED <<failed, dwarfs, syms, pass, loc, elf_fn, exe_fd, left, views, closes>>

ElfNext ==
  \/ Pcinfo \/ NextName \/ OpenExe \/ NotOpened
  \/ NamelessModule \/ NamedModule \/ Initialized
  \/ ElfAddStep
ElfSpec == ElfInit /\ [][ElfNext]_elf_vars
-----------------------------------------------------------------------------

Kept == {<<m, "strtab">> : m \in syms} \cup {<<m, "debug">> : m \in dwarfs}

\* Wherever the reading of a module fails, once all is done every file that
\* was opened is closed and only views stay mapped that the tables of symbols
\* or the debug information point into.  (elf.c:513-517, 836-849, 893-897)
NothingLeaks ==
  at = "idle" => (\A f \in DOMAIN closes : closes[f] > 0) /\ views \subseteq Kept

\* Addresses are looked up in the debug information exactly when some module
\* has any, whichever modules could not be read; a program that could not be
\* read leaves nothing behind.  (elf.c:908-912, 966-976, fileline.c:141-148)
DebugInfoUsed ==
  at = "idle" /\ (failed \/ fn # None)
    => /\ (fn = "dwarf") = (dwarfs # {})
       /\ failed => fn = None

=============================================================================
