------------------------------ MODULE ProfLog ------------------------------
(***************************************************************************)
(* What the buffer pool of vmprof_mt.c promises to the rest of vmprof: a   *)
(* file that receives every committed record once and in one piece, while  *)
(* "there is no hard guarantee about the order in which the committed      *)
(* blocks are actually written" (src/src/vmprof_mt.h).  There are no       *)
(* buffers, locks or contexts here.                                        *)
(***************************************************************************)
EXTENDS Naturals, Sequences

CONSTANTS
  Record,    \* identities of records
  Size       \* the sizes a record may have

VARIABLES
  open,      \* a session is running
  accepted,  \* sizes of the records committed in this session
  waiting,   \* the committed records that are not yet whole in the file
  file       \* the pieces in the file, in order

logVars == <<open, accepted, waiting, file>>

LogInit == open = FALSE /\ accepted = <<>> /\ waiting = {} /\ file = <<>>

Open == /\ ~open
        /\ open' = TRUE
        /\ accepted' = <<>>
        /\ waiting' = {}
        /\ file' = <<>>

\* A new record is accepted; it waits for its turn.
Accept == /\ open
          /\ \E r \in Record, n \in Size :
               /\ r \notin DOMAIN accepted
               /\ accepted' = [q \in DOMAIN accepted \cup {r} |->
                                 IF q = r THEN n ELSE accepted[q]]
               /\ waiting' = waiting \cup {r}
          /\ UNCHANGED <<open, file>>

\* The record the file ends in the middle of, and how much of it is there.
Unfinished == file # <<>> /\ file[Len(file)].upto < file[Len(file)].size
Resume(r)  == IF Unfinished THEN file[Len(file)].upto ELSE 0

\* Some record gets a piece nearer to its end; an unfinished one goes first.
Emit == /\ open
        /\ \E r \in waiting :
             /\ Unfinished => file[Len(file)].id = r
             /\ \E n \in Resume(r) + 1 .. accepted[r] :
                  /\ file' = Append(file, [id |-> r, from |-> Resume(r),
                                           upto |-> n, size |-> accepted[r]])
                  /\ waiting' = IF n = accepted[r] THEN waiting \ {r} ELSE waiting
        /\ UNCHANGED <<open, accepted>>

\* The session ends with nothing left to write.
Close == /\ open
         /\ waiting = {}
         /\ open' = FALSE
         /\ UNCHANGED <<accepted, waiting, file>>

LogNext == Open \/ Accept \/ Emit \/ Close

LogSpec == LogInit /\ [][LogNext]_logVars
=============================================================================
