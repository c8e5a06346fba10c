------------------------ MODULE ProfileFile_proofs ------------------------
(***************************************************************************)
(* Proofs about ProfileFile, for any addresses, names, sizes of a block of *)
(* names and numbers of samples: what the file keeps although disable()    *)
(* reads it through the descriptor of the writer, and that every id that   *)
(* disable() has seen gets the right name.                                 *)
(***************************************************************************)
EXTENDS ProfileFile, FiniteSetTheorems, TLAPS

Ids == Addrs \cup Natives

\* Every record there can be.
Rec == [tag : {"header", "trailer", "torn"}]
         \cup [tag : {"trace"}, id : Ids]
         \cup [tag : {"ip"}, id : Addrs, name : Names]
         \cup [tag : {"symbol"}, id : Ids, name : {Symbol}]

TypeInv ==
  /\ file \in Seq(Rec) /\ ready \in Seq(Rec) /\ codes \in Seq(Rec)
  /\ off \in 0 .. Len(file)
  /\ phase \in {"off", "on", "reading", "dumping", "emitting", "failed",
                "closed", "aborted"}
  /\ at \in [Addrs -> Names \cup {Nobody}] /\ lived \in [Addrs -> SUBSET Names]
  /\ taken \in Seq(Ids) /\ seen \subseteq Ids /\ todo \subseteq Ids
  /\ freed \subseteq Addrs \X Names
  /\ phase = "emitting" => todo \subseteq seen \cap Living

\* The records of the file, of the READY buffers and of the block of names.
F == ToSet(file)
R == ToSet(ready)
C == ToSet(codes)

\* The code object at an address that was sampled is alive, or its name is kept.
Known(a) == at[a] # Nobody \/ \E n \in Names : <<a, n>> \in freed

\* A record that is right: a trace of something known, the name of a code object
\* that lived at the address.
Good(r) == \/ r = Header \/ r = Torn
           \/ \E x \in Ids : r = Trace(x) /\ (x \in Addrs => Known(x))
           \/ \E x \in Ids : r = Native(x)
           \/ \E a \in Addrs : \E n \in lived[a] : r = Ip(a, n)

\* There is one trailer, the end of the file that disable() leaves.
Closed == {"closed", "aborted"}

GoodInv ==
  /\ \A r \in R \cup C : Good(r)
  /\ phase \notin Closed => \A r \in F : Good(r)
  /\ phase \in Closed =>
       /\ ready = <<>> /\ codes = <<>>
       /\ file # <<>> /\ file[Len(file)] = Trailer
       /\ \A k \in 1 .. Len(file) - 1 : Good(file[k])

\* Except while it reads, or when that fails, disable() leaves the offset at the
\* end of the file.
OffsetInv == phase \notin {"reading", "failed"} => off = Len(file)

\* The names of the living and of the freed are names that have lived, and the
\* freed ones are kept somewhere.
NameInv ==
  /\ \A a \in Addrs : at[a] # Nobody => at[a] \in lived[a]
  /\ \A c \in freed : c[2] \in lived[c[1]] /\ Ip(c[1], c[2]) \in F \cup R \cup C

Taken == ToSet(taken)
Unread == {file[k] : k \in off + 1 .. Len(file)}

\* A sampled id is found by disable(), unless its sample was in a READY buffer.
TakenInv ==
  /\ phase = "off" => Taken = {}
  /\ phase = "on" => \A x \in Taken : Trace(x) \in F \cup R
  /\ phase = "reading" =>
       \A x \in Taken : x \in missed \/ x \in seen \/ Trace(x) \in Unread
  /\ phase \in {"dumping", "emitting", "closed"} => \A x \in Taken : x \in missed \cup seen

\* What disable() has found gets a symbol, and the name of its code object.
SeenInv ==
  /\ \A x \in seen \cap Addrs : Known(x)
  /\ phase = "dumping" => \A x \in seen : x \in todo \/ Native(x) \in F
  /\ phase \in {"emitting", "closed"} => \A x \in seen : Native(x) \in F
  /\ phase = "emitting" =>
       \A x \in (seen \cap Addrs) \ todo :
         \E n \in lived[x] : Ip(x, n) \in F \cup R \cup C
  /\ phase = "closed" => \A x \in seen \cap Addrs : \E n \in lived[x] : Ip(x, n) \in F

\* All this holds as long as nothing was written over; a torn record stays.
Right == GoodInv /\ OffsetInv /\ NameInv /\ TakenInv /\ SeenInv
Inv   == TypeInv /\ (Whole => Right)

-----------------------------------------------------------------------------
(* Sequences of records as sets *)

LEMMA SetOfConcat ==
  ASSUME NEW s \in Seq(Rec), NEW t \in Seq(Rec)
  PROVE  /\ ToSet(s \o t) = ToSet(s) \cup ToSet(t)
         /\ s \o t \in Seq(Rec) /\ Len(s \o t) = Len(s) + Len(t)
<1>1. Len(s \o t) = Len(s) + Len(t) /\ DOMAIN (s \o t) = 1 .. Len(s) + Len(t)
  OBVIOUS
<1>2. ASSUME NEW r \in ToSet(s)  PROVE r \in ToSet(s \o t)
  <2>1. PICK i \in 1 .. Len(s) : s[i] = r
    BY DEF ToSet
  <2>2. i \in DOMAIN (s \o t) /\ (s \o t)[i] = r
    BY <1>1, <2>1
  <2>q. QED BY <2>2 DEF ToSet
<1>3. ASSUME NEW r \in ToSet(t)  PROVE r \in ToSet(s \o t)
  <2>1. PICK i \in 1 .. Len(t) : t[i] = r
    BY DEF ToSet
  <2>2. Len(s) + i \in DOMAIN (s \o t) /\ (s \o t)[Len(s) + i] = r
    BY <1>1, <2>1
  <2>q. QED BY <2>2 DEF ToSet
<1>4. ASSUME NEW r \in ToSet(s \o t)  PROVE r \in ToSet(s) \cup ToSet(t)
  <2>1. PICK i \in 1 .. Len(s) + Len(t) : (s \o t)[i] = r
    BY <1>1 DEF ToSet
  <2>2. CASE i <= Len(s)
    <3>1. i \in DOMAIN s /\ s[i] = r
      BY <2>1, <2>2
    <3>q. QED BY <3>1 DEF ToSet
  <2>3. CASE i > Len(s)
    <3>1. i - Len(s) \in DOMAIN t /\ t[i - Len(s)] = r
      BY <2>1, <2>3
    <3>q. QED BY <3>1 DEF ToSet
  <2>q. QED BY <2>2, <2>3
<1>q. QED BY <1>1, <1>2, <1>3, <1>4

LEMMA ConcatAt ==
  ASSUME NEW s \in Seq(Rec), NEW t \in Seq(Rec)
  PROVE  /\ \A k \in 1 .. Len(s) : (s \o t)[k] = s[k]
         /\ \A k \in 1 .. Len(t) : (s \o t)[Len(s) + k] = t[k]
OBVIOUS

LEMMA SetOfOne ==
  ASSUME NEW r \in Rec
  PROVE  <<r>> \in Seq(Rec) /\ ToSet(<<r>>) = {r} /\ Len(<<r>>) = 1 /\ <<r>>[1] = r
<1>1. \A i \in DOMAIN <<r>> : i = 1
  OBVIOUS
<1>q. QED BY <1>1 DEF ToSet

LEMMA SetOfNone == <<>> \in Seq(Rec) /\ ToSet(<<>>) = {}
BY DEF ToSet

LEMMA SetOfAppend ==
  ASSUME NEW s \in Seq(Rec), NEW r \in Rec
  PROVE  /\ ToSet(Append(s, r)) = ToSet(s) \cup {r} /\ Append(s, r) \in Seq(Rec)
<1>1. Append(s, r) = s \o <<r>>
  OBVIOUS
<1>q. QED BY <1>1, SetOfOne, SetOfConcat

LEMMA SetMembers ==
  ASSUME NEW s \in Seq(Rec)
  PROVE  /\ \A k \in 1 .. Len(s) : s[k] \in ToSet(s)
         /\ \A r \in ToSet(s) : r \in Rec /\ \E k \in 1 .. Len(s) : s[k] = r
BY DEF ToSet

-----------------------------------------------------------------------------
(* Writing *)

\* At the end of the file a write appends.
LEMMA WriteAtEnd ==
  ASSUME NEW records \in Seq(Rec), file \in Seq(Rec), off = Len(file), Write(records)
  PROVE  /\ file' = file \o records /\ file' \in Seq(Rec)
         /\ F' = F \cup ToSet(records)
         /\ off' = Len(file') /\ off' \in 0 .. Len(file')
<1>1. file' = file \o records /\ off' = Len(file) + Len(records)
  BY DEF Write
<1>q. QED BY <1>1, SetOfConcat DEF F

\* Before its end it overwrites: a record is torn.
LEMMA WriteBefore ==
  ASSUME NEW records \in Seq(Rec), records # <<>>, file \in Seq(Rec),
         off \in 0 .. Len(file) - 1, Write(records)
  PROVE  file' \in Seq(Rec) /\ off' \in 0 .. Len(file') /\ ~Whole'
<1> DEFINE a == SubSeq(file, 1, off)
           b == SubSeq(file, off + 2, Len(file))
           t == <<Torn>>
<1>1. file' = ((a \o records) \o t) \o b /\ off' = off + Len(records)
  <2>1. ~(records = <<>> \/ off = Len(file))
    OBVIOUS
  <2>q. QED BY <2>1, Zenon DEF Write
<1>2. a \in Seq(Rec) /\ Len(a) = off /\ b \in Seq(Rec)
  OBVIOUS
<1>3. t \in Seq(Rec) /\ ToSet(t) = {Torn} /\ Len(t) = 1
  <2>1. Torn \in Rec
    BY DEF Torn, Rec
  <2>q. QED BY <2>1, SetOfOne
<1> HIDE DEF a, b, t
<1> DEFINE ar  == a \o records
           art == ar \o t
<1>4. ar \in Seq(Rec) /\ Len(ar) = off + Len(records)
  BY <1>2, SetOfConcat
<1> HIDE DEF ar
<1>5. art \in Seq(Rec) /\ Len(art) = Len(ar) + 1 /\ Torn \in ToSet(art)
  BY <1>3, <1>4, SetOfConcat
<1> HIDE DEF art
<1>6. /\ art \o b \in Seq(Rec) /\ Len(art \o b) = Len(art) + Len(b)
      /\ Torn \in ToSet(art \o b)
  BY <1>2, <1>5, SetOfConcat
<1>7. file' = art \o b
  BY <1>1 DEF ar, art
<1>8. Len(records) \in Nat /\ Len(b) \in Nat
  BY <1>2
<1>q. QED BY <1>1, <1>4, <1>5, <1>6, <1>7, <1>8 DEF Whole

\* A write that tears nothing appends.
LEMMA WriteEffect ==
  ASSUME NEW records \in Seq(Rec), file \in Seq(Rec), off \in 0 .. Len(file),
         Write(records)
  PROVE  /\ file' \in Seq(Rec) /\ off' \in 0 .. Len(file')
         /\ Whole' => /\ Whole
                      /\ file' = file \o records /\ F' = F \cup ToSet(records)
                      /\ IF off = Len(file) THEN off' = Len(file')
                                            ELSE records = <<>> /\ off' = off /\ file' = file
<1>1. F \subseteq F' /\ Whole' => Whole
  BY DEF Whole, F
<1>2. CASE off = Len(file)
  BY <1>1, <1>2, WriteAtEnd
<1>3. CASE off # Len(file) /\ records = <<>>
  <2>1. file' = file /\ off' = off + 0 /\ file \o records = file
    BY <1>3 DEF Write
  <2>q. QED BY <1>1, <1>3, <2>1, SetOfNone DEF F
<1>4. CASE off # Len(file) /\ records # <<>>
  <2>1. off \in 0 .. Len(file) - 1
    BY <1>4
  <2>q. QED BY <1>4, <2>1, WriteBefore
<1>q. QED BY <1>2, <1>3, <1>4

LEMMA PrefixOfConcat ==
  ASSUME NEW s \in Seq(Rec), NEW t \in Seq(Rec)
  PROVE  IsPrefix(s, s \o t)
<1>1. Len(s) <= Len(s \o t) /\ SubSeq(s, 1, Len(s)) = SubSeq(s \o t, 1, Len(s))
  OBVIOUS
<1>q. QED BY <1>1 DEF IsPrefix

LEMMA PrefixOfItself ==
  ASSUME NEW s \in Seq(Rec)
  PROVE  IsPrefix(s, s)
BY DEF IsPrefix

\* The file goes on as it was: what was ready or in the block and r may be
\* appended, nothing of it is lost.
Kept(r) ==
  /\ F \subseteq F' /\ F \cup R \subseteq F' \cup R'
  /\ F' \cup R' \cup C' = F \cup R \cup C \cup {r}
  /\ IsPrefix(file, file')
  /\ IF off = Len(file) THEN off' = Len(file') ELSE file' = file /\ off' = off

LEMMA RegisterEffect ==
  ASSUME TypeInv, NEW r \in Rec, Register(r)
  PROVE  /\ file' \in Seq(Rec) /\ ready' \in Seq(Rec) /\ codes' \in Seq(Rec)
         /\ off' \in 0 .. Len(file')
         /\ Whole' => Whole /\ Kept(r)
<1> USE DEF R, C
<1>t. /\ file \in Seq(Rec) /\ ready \in Seq(Rec) /\ codes \in Seq(Rec)
      /\ off \in 0 .. Len(file)
  BY DEF TypeInv
<1>1. CASE /\ codes # <<>> /\ Len(codes) < Room
           /\ codes' = Append(codes, r) /\ UNCHANGED <<file, off, ready>>
  <2>1. codes' \in Seq(Rec) /\ C' = C \cup {r}
    BY <1>1, <1>t, SetOfAppend
  <2>2. F' = F /\ R' = R /\ Whole' = Whole
    BY <1>1 DEF F, Whole
  <2>q. QED BY <1>t, <1>1, <2>1, <2>2, PrefixOfItself DEF Kept
<1>2. CASE codes' = <<r>> /\ UNCHANGED <<file, off>> /\ ready' = ready \o codes
  <2>1. codes' \in Seq(Rec) /\ C' = {r}
    BY <1>2, SetOfOne
  <2>2. ready' \in Seq(Rec) /\ R' = R \cup C
    BY <1>2, <1>t, SetOfConcat
  <2>3. F' = F /\ Whole' = Whole
    BY <1>2 DEF F, Whole
  <2>q. QED BY <1>t, <1>2, <2>1, <2>2, <2>3, PrefixOfItself DEF Kept
<1>3. CASE codes' = <<r>> /\ Write(codes \o ready) /\ ready' = <<>>
  <2>1. codes' \in Seq(Rec) /\ C' = {r}
    BY <1>3, SetOfOne
  <2>2. ready' \in Seq(Rec) /\ R' = {}
    BY <1>3, SetOfNone
  <2>3. codes \o ready \in Seq(Rec) /\ ToSet(codes \o ready) = C \cup R
    BY <1>t, SetOfConcat
  <2>4. /\ file' \in Seq(Rec) /\ off' \in 0 .. Len(file')
        /\ Whole' => /\ Whole
                     /\ file' = file \o (codes \o ready) /\ F' = F \cup (C \cup R)
                     /\ IF off = Len(file) THEN off' = Len(file')
                                           ELSE off' = off /\ file' = file
    BY <1>t, <1>3, <2>3, WriteEffect
  <2>5. Whole' => IsPrefix(file, file')
    BY <1>t, <2>3, <2>4, PrefixOfConcat
  <2>q. QED BY <2>1, <2>2, <2>4, <2>5 DEF Kept
<1>q. QED BY <1>1, <1>2, <1>3 DEF Register

-----------------------------------------------------------------------------
(* Records *)

LEMMA RecordTypes ==
  /\ Header \in Rec /\ Torn \in Rec /\ Trailer \in Rec
  /\ \A x \in Ids : Trace(x) \in Rec /\ Native(x) \in Rec
  /\ \A a \in Addrs, n \in Names : Ip(a, n) \in Rec
BY DEF Rec, Header, Torn, Trailer, Trace, Native, Ip

LEMMA RecordsDiffer ==
  ASSUME NEW r, Good(r)
  PROVE  /\ r # Trailer
         /\ r.tag = "trace" => \E x \in Ids : r = Trace(x) /\ r.id = x /\ (x \in Addrs => Known(x))
         /\ r.tag = "symbol" => r.name = Symbol
         /\ r.tag = "ip" => r.id \in Addrs /\ r.name \in lived[r.id]
BY DEF Good, Trailer, Header, Torn, Trace, Native, Ip

\* Nothing that is right becomes wrong.
Grows == /\ \A a \in Addrs : lived[a] \subseteq lived'[a]
         /\ \A a \in Addrs : Known(a) => Known(a)'

LEMMA GoodStays ==
  ASSUME Grows, NEW r, Good(r)
  PROVE  Good(r)'
<1>1. CASE r = Header \/ r = Torn
  BY <1>1 DEF Good, Header, Torn
<1>2. CASE \E x \in Ids : r = Trace(x) /\ (x \in Addrs => Known(x))
  BY <1>2 DEF Good, Grows, Trace, Ids
<1>3. CASE \E x \in Ids : r = Native(x)
  BY <1>3 DEF Good, Native, Ids
<1>4. CASE \E a \in Addrs : \E n \in lived[a] : r = Ip(a, n)
  BY <1>4 DEF Good, Grows, Ip
<1>q. QED BY <1>1, <1>2, <1>3, <1>4 DEF Good

LEMMA SameMemory ==
  ASSUME UNCHANGED <<lived, at, freed>>
  PROVE  Grows
BY DEF Grows, Known

\* What a registration leaves right, whoever is reading.
LEMMA RegisterKeeps ==
  ASSUME TypeInv, Right, Whole', phase \notin Closed, phase' = phase,
         NEW r \in Rec, Register(r), Good(r)', Grows
  PROVE  GoodInv' /\ OffsetInv' /\ Kept(r)
<1>1. Kept(r) /\ GoodInv /\ OffsetInv
  BY RegisterEffect DEF Right
<1>2. GoodInv'
  <2>1. \A q \in F \cup R \cup C : Good(q)'
    BY <1>1, GoodStays DEF GoodInv
  <2>q. QED BY <1>1, <2>1 DEF GoodInv, Kept
<1>3. OffsetInv'
  BY <1>1 DEF OffsetInv, Kept
<1>q. QED BY <1>1, <1>2, <1>3

LEMMA UnreadKept ==
  ASSUME TypeInv, NEW r, Kept(r)
  PROVE  \/ Unread = {}
         \/ Unread' = Unread
<1>1. CASE off = Len(file)
  BY <1>1 DEF Unread, TypeInv
<1>2. CASE off # Len(file)
  BY <1>2 DEF Unread, Kept
<1>q. QED BY <1>1, <1>2

-----------------------------------------------------------------------------
(* The steps: types, and a torn record stays *)

LEMMA SampleTypes ==
  ASSUME TypeInv, NEW x \in Living \cup Natives, Sample(x)
  PROVE  TypeInv' /\ (Whole' => Whole)
<1>1. /\ phase' = phase /\ phase = "on" /\ taken' = Append(taken, x)
      /\ UNCHANGED <<codes, seen, todo, at, lived, freed>>
  BY DEF Sample, memory
<1>2. x \in Ids /\ Trace(x) \in Rec /\ <<Trace(x)>> \in Seq(Rec)
  BY RecordTypes, SetOfOne DEF Living, Ids
<1>3. /\ file' \in Seq(Rec) /\ ready' \in Seq(Rec) /\ off' \in 0 .. Len(file')
      /\ Whole' => Whole
  <2>1. CASE Write(ready \o <<Trace(x)>>) /\ ready' = <<>>
    <3>1. ready \o <<Trace(x)>> \in Seq(Rec)
      BY <1>2, SetOfConcat DEF TypeInv
    <3>q. QED BY <2>1, <3>1, WriteEffect, SetOfNone DEF TypeInv
  <2>2. CASE ready' = Append(ready, Trace(x)) /\ UNCHANGED <<file, off>>
    BY <1>2, <2>2, SetOfAppend DEF TypeInv, Whole
  <2>q. QED BY <2>1, <2>2 DEF Sample
<1>4. taken' \in Seq(Ids)
  BY <1>1, <1>2 DEF TypeInv
<1>q. QED BY <1>1, <1>3, <1>4 DEF TypeInv

LEMMA RegisterTypes ==
  ASSUME TypeInv, NEW a \in Addrs, CodeDealloc(a) \/ EmitCode(a)
  PROVE  /\ TypeInv' /\ (Whole' => Whole)
         /\ at[a] \in Names /\ Ip(a, at[a]) \in Rec /\ Register(Ip(a, at[a]))
<1>1. at[a] # Nobody /\ Register(Ip(a, at[a]))
  BY DEF CodeDealloc, EmitCode, TypeInv, Living
<1>2. at[a] \in Names /\ Ip(a, at[a]) \in Rec
  BY <1>1, RecordTypes DEF TypeInv
<1>3. /\ file' \in Seq(Rec) /\ ready' \in Seq(Rec) /\ codes' \in Seq(Rec)
      /\ off' \in 0 .. Len(file') /\ (Whole' => Whole)
  BY <1>1, <1>2, RegisterEffect
<1>4. CASE CodeDealloc(a)
  <2>1. /\ at' = [at EXCEPT ![a] = Nobody] /\ freed' = freed \cup {<<a, at[a]>>}
        /\ UNCHANGED <<phase, seen, todo, lived, taken>> /\ phase # "emitting"
    BY <1>4 DEF CodeDealloc, Running
  <2>q. QED BY <1>1, <1>2, <1>3, <2>1 DEF TypeInv
<1>5. CASE EmitCode(a)
  <2>1. todo' \subseteq todo /\ UNCHANGED <<phase, seen, at, lived, taken, freed>>
    BY <1>5 DEF EmitCode, memory, ghosts
  <2>q. QED BY <1>1, <1>2, <1>3, <2>1 DEF TypeInv, Living
<1>q. QED BY <1>4, <1>5

LEMMA WritingTypes ==
  ASSUME TypeInv, Enable \/ DisableVmprof \/ \E x \in Ids : DumpSymbol(x)
  PROVE  TypeInv' /\ (Whole' => Whole)
<1>1. CASE Enable
  <2>1. <<Header>> \in Seq(Rec)
    BY RecordTypes, SetOfOne
  <2>2. file' \in Seq(Rec) /\ off' \in 0 .. Len(file') /\ (Whole' => Whole)
    BY <1>1, <2>1, WriteEffect DEF Enable, TypeInv
  <2>q. QED BY <1>1, <2>2 DEF Enable, TypeInv, memory, ghosts
<1>2. ASSUME NEW x \in Ids, DumpSymbol(x)
      PROVE  TypeInv' /\ (Whole' => Whole)
  <2>1. <<Native(x)>> \in Seq(Rec)
    BY RecordTypes, SetOfOne
  <2>2. file' \in Seq(Rec) /\ off' \in 0 .. Len(file') /\ (Whole' => Whole)
    BY <1>2, <2>1, WriteEffect DEF DumpSymbol, TypeInv
  <2>q. QED BY <1>2, <2>2 DEF DumpSymbol, TypeInv, memory, ghosts
<1>3. CASE DisableVmprof
  <2>1. codes \o ready \o <<Trailer>> \in Seq(Rec)
    BY RecordTypes, SetOfOne, SetOfConcat DEF TypeInv
  <2>2. file' \in Seq(Rec) /\ off' \in 0 .. Len(file') /\ (Whole' => Whole)
    BY <1>3, <2>1, WriteEffect DEF DisableVmprof, TypeInv
  <2>q. QED BY <1>3, <2>2, SetOfNone DEF DisableVmprof, TypeInv, memory, ghosts
<1>q. QED BY <1>1, <1>2, <1>3

LEMMA StepTypes == TypeInv /\ [Next]_vars => TypeInv' /\ (Whole' => Whole)
<1> SUFFICES ASSUME TypeInv, [Next]_vars  PROVE TypeInv' /\ (Whole' => Whole)
  OBVIOUS
<1>1. CASE StopSampling \/ FinishedReading \/ WriteAllCodes \/ ReadFails \/ UNCHANGED vars
  BY <1>1 DEF StopSampling, FinishedReading, WriteAllCodes, ReadFails,
              TypeInv, Living, Whole, vars, memory, ghosts
<1>2. CASE ReadRecord
  <2>1. file[off + 1] \in Rec
    BY <1>2 DEF ReadRecord, TypeInv
  <2>2. file[off + 1].tag = "trace" => file[off + 1].id \in Ids
    BY <2>1 DEF Rec
  <2>3. seen' \subseteq Ids /\ off' \in 0 .. Len(file')
    BY <1>2, <2>2 DEF ReadRecord, TypeInv
  <2>q. QED BY <1>2, <2>3 DEF ReadRecord, TypeInv, Whole, memory, ghosts
<1>3. CASE ReadTorn
  <2>1. seen' \subseteq Ids /\ off' \in 0 .. Len(file')
    BY <1>3 DEF ReadTorn, TypeInv, Ids
  <2>q. QED BY <1>3, <2>1 DEF ReadTorn, TypeInv, Whole, memory, ghosts
<1>4. ASSUME NEW a \in Addrs, NEW n \in Names, CodeNew(a, n)
      PROVE  TypeInv' /\ (Whole' => Whole)
  BY <1>4 DEF CodeNew, Running, TypeInv, Whole, ghosts
<1>q. QED BY <1>1, <1>2, <1>3, <1>4, WritingTypes, SampleTypes, RegisterTypes DEF Next, Ids

-----------------------------------------------------------------------------
(* The steps: what stays right *)

\* The name of a freed code object goes into the block, the READY buffers or the
\* file, while nothing is torn.
LEMMA CodeDeallocKeeps ==
  ASSUME TypeInv, Right, Whole', NEW a \in Addrs, CodeDealloc(a)
  PROVE  Right'
<1> PICK n : n = at[a]
  OBVIOUS
<1> DEFINE r == Ip(a, n)
<1>0. GoodInv /\ OffsetInv /\ NameInv /\ TakenInv /\ SeenInv
  BY DEF Right
<1>1. /\ phase' = phase /\ phase \in {"on", "reading", "dumping", "failed"} /\ n # Nobody
      /\ at' = [at EXCEPT ![a] = Nobody] /\ freed' = freed \cup {<<a, n>>}
      /\ UNCHANGED <<seen, todo, lived, taken, missed>> /\ Register(r)
  BY DEF CodeDealloc, Running
<1>2. n \in Names /\ n \in lived[a] /\ r \in Rec
  BY <1>0, <1>1, RecordTypes DEF TypeInv, NameInv
<1>3. Grows
  BY <1>1, <1>2 DEF Grows, Known, TypeInv
<1>4. Good(r)'
  BY <1>1, <1>2 DEF Good, Ip
<1>5. GoodInv' /\ OffsetInv' /\ Kept(r)
  BY <1>1, <1>2, <1>3, <1>4, RegisterKeeps DEF Closed
<1> HIDE DEF r
<1>7. NameInv'
  <2>1. \A b \in Addrs : at'[b] # Nobody => at'[b] \in lived'[b]
    BY <1>0, <1>1 DEF NameInv, TypeInv
  <2>2. \A c \in freed' : c[2] \in lived'[c[1]]
    BY <1>0, <1>1, <1>2 DEF NameInv
  <2>3. ASSUME NEW c \in freed'
        PROVE  Ip(c[1], c[2]) \in F' \cup R' \cup C'
    <3>2. CASE c \in freed
      BY <1>0, <1>5, <3>2 DEF NameInv, Kept
    <3>3. CASE c = <<a, n>>
      BY <1>5, <3>3 DEF Kept, r
    <3>q. QED BY <1>1, <2>3, <3>2, <3>3
  <2>q. QED BY <2>1, <2>2, <2>3 DEF NameInv
<1>8. TakenInv'
  <2>1. Taken' = Taken
    BY <1>1 DEF Taken
  <2>2. CASE phase = "on"
    BY <1>0, <1>1, <1>5, <2>1, <2>2 DEF TakenInv, Kept
  <2>3. CASE phase = "reading"
    <3>1. Unread = {} \/ Unread' = Unread
      BY <1>5, UnreadKept
    <3>q. QED BY <1>0, <1>1, <2>1, <2>3, <3>1 DEF TakenInv
  <2>4. CASE phase \in {"dumping", "failed"}
    BY <1>0, <1>1, <2>1, <2>4 DEF TakenInv
  <2>q. QED BY <1>1, <2>2, <2>3, <2>4
<1>9. SeenInv'
  <2>1. \A x \in seen' \cap Addrs : Known(x)'
    BY <1>0, <1>1, <1>3 DEF SeenInv, Grows
  <2>q. QED BY <1>0, <1>1, <1>5, <2>1 DEF SeenInv, Kept
<1>q. QED BY <1>5, <1>7, <1>8, <1>9 DEF Right

\* A code object is created.
LEMMA CodeNewKeeps ==
  ASSUME TypeInv, Right, NEW a \in Addrs, NEW n \in Names, CodeNew(a, n)
  PROVE  Right'
<1>0. GoodInv /\ OffsetInv /\ NameInv /\ TakenInv /\ SeenInv
  BY DEF Right
<1>1. /\ phase \in {"on", "reading", "dumping", "failed"} /\ at[a] = Nobody
      /\ at' = [at EXCEPT ![a] = n] /\ lived' = [lived EXCEPT ![a] = @ \cup {n}]
      /\ UNCHANGED <<file, off, ready, codes, phase, seen, todo, taken, missed, freed>>
  BY DEF CodeNew, Running, ghosts
<1>2. n # Nobody
  BY DEF Names, Nobody
<1>3. Grows
  BY <1>0, <1>1, <1>2 DEF Grows, Known, TypeInv
<1>4. F' = F /\ R' = R /\ C' = C /\ Taken' = Taken /\ Unread' = Unread
  BY <1>1 DEF F, R, C, Taken, Unread
<1>6. GoodInv'
  <2>1. \A r \in F \cup R \cup C : Good(r)
    BY <1>0, <1>1 DEF GoodInv, Closed
  <2>2. \A r \in F \cup R \cup C : Good(r)'
    BY <1>3, <2>1, GoodStays
  <2>q. QED BY <1>1, <1>4, <2>2 DEF GoodInv, Closed
<1>7. NameInv'
  BY <1>0, <1>1, <1>4 DEF NameInv, TypeInv
<1>8. TakenInv' /\ OffsetInv'
  BY <1>0, <1>1, <1>4 DEF TakenInv, OffsetInv
<1>9. SeenInv'
  <2>1. \A x \in seen' \cap Addrs : Known(x)'
    BY <1>0, <1>1, <1>3 DEF SeenInv, Grows
  <2>q. QED BY <1>0, <1>1, <1>4, <2>1 DEF SeenInv
<1>q. QED BY <1>6, <1>7, <1>8, <1>9 DEF Right

\* The name of a living code object that disable() has seen.
LEMMA EmitCodeKeeps ==
  ASSUME TypeInv, Right, Whole', NEW a \in Addrs, EmitCode(a)
  PROVE  Right'
<1> PICK n : n = at[a]
  OBVIOUS
<1> DEFINE r == Ip(a, n)
<1>0. GoodInv /\ OffsetInv /\ NameInv /\ TakenInv /\ SeenInv
  BY DEF Right
<1>1. /\ phase = "emitting" /\ phase' = phase /\ a \in todo /\ todo' = todo \ {a}
      /\ UNCHANGED <<at, seen, lived, taken, missed, freed>> /\ Register(r)
  BY DEF EmitCode, memory, ghosts
<1>2. n \in Names /\ n \in lived[a] /\ r \in Rec
  BY <1>0, <1>1, RecordTypes DEF TypeInv, NameInv, Living
<1>3. Grows
  BY <1>1, SameMemory
<1>4. Good(r)'
  BY <1>1, <1>2 DEF Good, Ip
<1>5. GoodInv' /\ OffsetInv' /\ Kept(r)
  BY <1>1, <1>2, <1>3, <1>4, RegisterKeeps DEF Closed
<1>7. NameInv'
  BY <1>0, <1>1, <1>5 DEF NameInv, Kept
<1>8. TakenInv'
  BY <1>0, <1>1 DEF TakenInv, Taken
<1>9. SeenInv'
  <2>1. \A x \in seen' \cap Addrs : Known(x)'
    BY <1>0, <1>1, <1>3 DEF SeenInv, Grows
  <2>2. ASSUME NEW x \in (seen' \cap Addrs) \ todo'
        PROVE  \E m \in lived'[x] : Ip(x, m) \in F' \cup R' \cup C'
    <3>1. CASE x = a
      BY <1>1, <1>2, <1>5, <3>1 DEF Kept, r
    <3>2. CASE x # a
      BY <1>0, <1>1, <1>5, <3>2 DEF SeenInv, Kept
    <3>q. QED BY <3>1, <3>2
  <2>4. \A x \in seen' : Native(x) \in F'
    BY <1>0, <1>1, <1>5 DEF SeenInv, Kept
  <2>q. QED BY <1>1, <2>1, <2>2, <2>4 DEF SeenInv
<1>q. QED BY <1>5, <1>7, <1>8, <1>9 DEF Right

\* As long as only good records come the file is good.
LEMMA GoodKept ==
  ASSUME GoodInv, phase \notin Closed, phase' \notin Closed, Grows, NEW r,
         Good(r)', F' \cup R' \cup C' \subseteq F \cup R \cup C \cup {r}
  PROVE  GoodInv'
<1>1. \A q \in F \cup R \cup C : Good(q)'
  BY GoodStays DEF GoodInv, Closed
<1>q. QED BY <1>1 DEF GoodInv

LEMMA EnableKeeps == TypeInv /\ Right /\ Enable => Right'
<1> SUFFICES ASSUME TypeInv, Right, Enable  PROVE Right'
  OBVIOUS
<1>0. TypeInv /\ GoodInv /\ OffsetInv /\ NameInv /\ TakenInv /\ SeenInv
  BY DEF Right
<1>1. /\ phase = "off" /\ phase' = "on" /\ Write(<<Header>>)
      /\ UNCHANGED <<ready, codes, seen, todo, at, lived, taken, missed, freed>>
  BY DEF Enable, memory, ghosts
<1>2. off = Len(file) /\ file \in Seq(Rec) /\ <<Header>> \in Seq(Rec)
      /\ ToSet(<<Header>>) = {Header}
  BY <1>0, <1>1, RecordTypes, SetOfOne DEF OffsetInv, TypeInv
<1>3. /\ file' \in Seq(Rec) /\ F' = F \cup {Header}
      /\ off' = Len(file') /\ off' \in 0 .. Len(file') /\ R' = R /\ C' = C
  BY <1>1, <1>2, WriteAtEnd DEF R, C
<1>4. Grows
  BY <1>1, SameMemory
<1>5. GoodInv'
  <2>1. Good(Header)'
    BY DEF Good, Header
  <2>q. QED BY <1>0, <1>1, <1>3, <1>4, <2>1, GoodKept DEF Closed
<1>6. OffsetInv'
  BY <1>0, <1>1, <1>3 DEF TypeInv, OffsetInv
<1>7. NameInv' /\ TakenInv'
  BY <1>0, <1>1, <1>3 DEF NameInv, TakenInv, Taken
<1>8. SeenInv'
  BY <1>0, <1>1, <1>4 DEF SeenInv, Grows
<1>q. QED BY <1>5, <1>6, <1>7, <1>8 DEF Right

\* A sample of something that lives is written, or stays in its buffer.
LEMMA SampleKeeps ==
  ASSUME TypeInv, Right, NEW x \in Living \cup Natives, Sample(x)
  PROVE  Right'
<1> DEFINE r == Trace(x)
<1>0. TypeInv /\ GoodInv /\ OffsetInv /\ NameInv /\ TakenInv /\ SeenInv
  BY DEF Right
<1>1. /\ phase = "on" /\ phase' = "on" /\ taken' = Append(taken, x)
      /\ UNCHANGED <<codes, seen, todo, at, lived, missed, freed>>
  BY DEF Sample, memory
<1>2. /\ off = Len(file) /\ file \in Seq(Rec) /\ ready \in Seq(Rec)
      /\ x \in Ids /\ r \in Rec /\ <<r>> \in Seq(Rec) /\ ToSet(<<r>>) = {r}
  BY <1>0, <1>1, RecordTypes, SetOfOne DEF OffsetInv, TypeInv, Ids, Living
<1>3. x \in Addrs => Known(x)
  BY ProfileFileAssumption DEF Living, Known
<1>4. Grows /\ Good(r)'
  <2>1. Grows
    BY <1>1, SameMemory
  <2>2. Good(r)
    BY <1>2, <1>3 DEF Good
  <2>q. QED BY <2>1, <2>2, GoodStays
<1> HIDE DEF r
<1>5. /\ file' \in Seq(Rec) /\ ready' \in Seq(Rec)
      /\ F \subseteq F' /\ F' \cup R' = F \cup R \cup {r} /\ C' = C
      /\ off' = Len(file') /\ off' \in 0 .. Len(file')
  <2>1. CASE Write(ready \o <<r>>) /\ ready' = <<>>
    <3>1. ready \o <<r>> \in Seq(Rec) /\ ToSet(ready \o <<r>>) = R \cup {r}
      BY <1>2, SetOfConcat DEF R
    <3>2. R' = {} /\ ready' \in Seq(Rec)
      BY <2>1, SetOfNone DEF R
    <3>q. QED BY <1>1, <1>2, <2>1, <3>1, <3>2, WriteAtEnd DEF C
  <2>2. CASE ready' = Append(ready, r) /\ UNCHANGED <<file, off>>
    BY <1>0, <1>1, <1>2, <2>2, SetOfAppend DEF F, R, C, TypeInv
  <2>q. QED BY <2>1, <2>2 DEF Sample, r
<1>6. Taken' = Taken \cup {x} /\ taken' \in Seq(Ids)
  <2>1. Len(taken') = Len(taken) + 1 /\ taken' \in Seq(Ids)
    BY <1>0, <1>1, <1>2 DEF TypeInv
  <2>2. \A i \in 1 .. Len(taken') :
          taken'[i] = IF i <= Len(taken) THEN taken[i] ELSE x
    BY <1>0, <1>1, <1>2 DEF TypeInv
  <2>3. DOMAIN taken' = 1 .. Len(taken') /\ DOMAIN taken = 1 .. Len(taken) /\ Len(taken) \in Nat
    BY <1>0, <2>1 DEF TypeInv
  <2>4. taken'[Len(taken) + 1] = x /\ Len(taken) + 1 \in DOMAIN taken'
    BY <2>1, <2>2, <2>3
  <2>5. Taken \subseteq Taken'
    BY <2>1, <2>2, <2>3 DEF Taken, ToSet
  <2>6. x \in Taken'
    BY <2>4 DEF Taken, ToSet
  <2>7. Taken' \subseteq Taken \cup {x}
    BY <2>1, <2>2, <2>3 DEF Taken, ToSet
  <2>q. QED BY <2>1, <2>5, <2>6, <2>7
<1>7. GoodInv'
  BY <1>0, <1>1, <1>4, <1>5, GoodKept DEF Closed
<1>8. OffsetInv'
  BY <1>0, <1>1, <1>5, <1>6 DEF TypeInv, OffsetInv
<1>9. NameInv'
  BY <1>0, <1>1, <1>5 DEF NameInv
<1>10. TakenInv'
  BY <1>0, <1>1, <1>5, <1>6 DEF TakenInv, r
<1>11. SeenInv'
  BY <1>0, <1>1, <1>4 DEF SeenInv, Grows
<1>q. QED BY <1>7, <1>8, <1>9, <1>10, <1>11 DEF Right

\* disable() goes back to the start of the file: everything is unread.
LEMMA StopSamplingKeeps == TypeInv /\ Right /\ StopSampling => Right'
<1> SUFFICES ASSUME TypeInv, Right, StopSampling  PROVE Right'
  OBVIOUS
<1>0. TypeInv /\ GoodInv /\ OffsetInv /\ NameInv /\ TakenInv /\ SeenInv
  BY DEF Right
<1>1. /\ phase = "on" /\ phase' = "reading" /\ off' = 0
      /\ missed' = {r.id : r \in {q \in ToSet(ready) : q.tag = "trace"}}
      /\ UNCHANGED <<file, ready, codes, seen, todo, at, lived, taken, freed>>
  BY DEF StopSampling, memory
<1>2. F' = F /\ R' = R /\ C' = C /\ Taken' = Taken /\ Grows
  BY <1>1, SameMemory DEF F, R, C, Taken
<1>3. GoodInv'
  BY <1>0, <1>1, <1>2, GoodStays DEF GoodInv, Closed
<1>4. OffsetInv'
  BY <1>0, <1>1 DEF TypeInv, OffsetInv
<1>5. NameInv'
  BY <1>0, <1>1, <1>2 DEF NameInv
<1>6. TakenInv'
  <2>1. ASSUME NEW x \in Taken  PROVE x \in missed' \/ Trace(x) \in Unread'
    <3>1. CASE Trace(x) \in F
      BY <1>0, <1>1, <3>1, SetMembers DEF Unread, F, TypeInv
    <3>2. CASE Trace(x) \in R
      <4>1. Trace(x).tag = "trace" /\ Trace(x).id = x
        BY DEF Trace
      <4>q. QED BY <1>1, <3>2, <4>1 DEF R
    <3>q. QED BY <1>0, <1>1, <3>1, <3>2 DEF TakenInv
  <2>q. QED BY <1>1, <1>2, <2>1 DEF TakenInv
<1>7. SeenInv'
  BY <1>0, <1>1, <1>2 DEF SeenInv, Grows
<1>q. QED BY <1>3, <1>4, <1>5, <1>6, <1>7 DEF Right

\* The trace that is read is seen, and what was sampled is known.
LEMMA ReadRecordKeeps == TypeInv /\ Right /\ ReadRecord => Right'
<1> SUFFICES ASSUME TypeInv, Right, ReadRecord  PROVE Right'
  OBVIOUS
<1> DEFINE r == file[off + 1]
<1>0. TypeInv /\ GoodInv /\ OffsetInv /\ NameInv /\ TakenInv /\ SeenInv
  BY DEF Right
<1>1. /\ phase = "reading" /\ phase' = phase /\ off < Len(file) /\ off' = off + 1
      /\ r # Torn
      /\ seen' = IF r.tag = "trace" THEN seen \cup {r.id} ELSE seen
      /\ UNCHANGED <<file, ready, codes, todo, at, lived, taken, missed, freed>>
  BY DEF ReadRecord, memory, ghosts
<1>2. F' = F /\ R' = R /\ C' = C /\ Taken' = Taken /\ Grows
  BY <1>1, SameMemory DEF F, R, C, Taken
<1>3. off + 1 \in 1 .. Len(file) /\ r \in F
  BY <1>0, <1>1, SetMembers DEF TypeInv, F
<1>4. Good(r)
  BY <1>0, <1>1, <1>3 DEF GoodInv, Closed
<1>5. r.tag = "trace" => r.id \in Ids /\ r = Trace(r.id) /\ (r.id \in Addrs => Known(r.id))
  BY <1>4, RecordsDiffer
<1>6. GoodInv'
  BY <1>0, <1>1, <1>2, GoodStays DEF GoodInv, Closed
<1>7. OffsetInv'
  BY <1>0, <1>1, <1>3, <1>5 DEF TypeInv, OffsetInv
<1>8. NameInv'
  BY <1>0, <1>1, <1>2 DEF NameInv
<1>9. TakenInv'
  <2>1. ASSUME NEW x \in Taken
        PROVE  x \in missed \/ x \in seen' \/ Trace(x) \in Unread'
    <3>1. CASE Trace(x) \in Unread
      <4>1. PICK k \in off + 1 .. Len(file) : file[k] = Trace(x)
        BY <3>1 DEF Unread
      <4>2. CASE k = off + 1
        BY <1>1, <4>1, <4>2 DEF Trace
      <4>3. CASE k # off + 1
        <5>1. k \in off' + 1 .. Len(file')
          BY <1>0, <1>1, <4>1, <4>3 DEF TypeInv
        <5>q. QED BY <1>1, <4>1, <5>1 DEF Unread
      <4>q. QED BY <4>2, <4>3
    <3>q. QED BY <1>0, <1>1, <1>2, <3>1 DEF TakenInv
  <2>q. QED BY <1>1, <1>2, <2>1 DEF TakenInv
<1>10. SeenInv'
  BY <1>0, <1>1, <1>2, <1>5 DEF SeenInv, Grows
<1>q. QED BY <1>6, <1>7, <1>8, <1>9, <1>10 DEF Right

\* At the end of the file nothing is unread.
LEMMA FinishedReadingKeeps == TypeInv /\ Whole /\ Right /\ FinishedReading => Right'
<1> SUFFICES ASSUME TypeInv, Whole, Right, FinishedReading  PROVE Right'
  OBVIOUS
<1>0. GoodInv /\ OffsetInv /\ NameInv /\ TakenInv /\ SeenInv
  BY DEF Right
<1>1. /\ phase = "reading" /\ phase' = "dumping" /\ todo' = seen
      /\ UNCHANGED <<file, ready, codes, seen, at, lived, taken, missed, freed>>
  BY DEF FinishedReading, memory, ghosts
<1>2. off = Len(file) /\ off' = Len(file)
  <2>1. CASE off # Len(file)
    <3>1. off + 1 \in 1 .. Len(file) /\ file[off + 1] = Torn
      BY <2>1 DEF FinishedReading, TypeInv
    <3>2. Torn \in F
      BY <3>1, SetMembers DEF TypeInv, F
    <3>q. QED BY <3>2 DEF Whole, F
  <2>q. QED BY <2>1 DEF FinishedReading
<1>3. F' = F /\ R' = R /\ C' = C /\ Taken' = Taken /\ Grows /\ Unread = {}
  BY <1>1, <1>2, SameMemory DEF F, R, C, Taken, Unread, TypeInv
<1>4. GoodInv'
  BY <1>0, <1>1, <1>3, GoodStays DEF GoodInv, Closed
<1>5. OffsetInv' /\ NameInv' /\ TakenInv'
  BY <1>0, <1>1, <1>2, <1>3 DEF OffsetInv, NameInv, TakenInv
<1>6. SeenInv'
  BY <1>0, <1>1, <1>3 DEF SeenInv, Grows
<1>q. QED BY <1>4, <1>5, <1>6 DEF Right

\* An exception: nothing is said any more of what was seen.
LEMMA ReadFailsKeeps == TypeInv /\ Right /\ ReadFails => Right'
<1> SUFFICES ASSUME TypeInv, Right, ReadFails  PROVE Right'
  OBVIOUS
<1>0. GoodInv /\ OffsetInv /\ NameInv /\ TakenInv /\ SeenInv
  BY DEF Right
<1>1. /\ phase \in {"reading", "dumping", "emitting"} /\ phase' = "failed"
      /\ UNCHANGED <<file, off, ready, codes, seen, at, lived, taken, missed, freed>>
  BY DEF ReadFails, memory, ghosts
<1>2. F' = F /\ R' = R /\ C' = C /\ Grows
  BY <1>1, SameMemory DEF F, R, C
<1>3. GoodInv'
  BY <1>0, <1>1, <1>2, GoodStays DEF GoodInv, Closed
<1>4. OffsetInv' /\ NameInv' /\ TakenInv'
  BY <1>0, <1>1, <1>2 DEF OffsetInv, NameInv, TakenInv
<1>5. SeenInv'
  BY <1>0, <1>1, <1>2 DEF SeenInv, Grows
<1>q. QED BY <1>3, <1>4, <1>5 DEF Right

\* A symbol, or a placeholder, for an id.
LEMMA DumpSymbolKeeps ==
  ASSUME TypeInv, Right, NEW x \in Ids, DumpSymbol(x)
  PROVE  Right'
<1> DEFINE r == Native(x)
<1>0. TypeInv /\ GoodInv /\ OffsetInv /\ NameInv /\ TakenInv /\ SeenInv
  BY DEF Right
<1>1. /\ phase = "dumping" /\ phase' = phase /\ todo' = todo \ {x} /\ Write(<<r>>)
      /\ UNCHANGED <<ready, codes, seen, at, lived, taken, missed, freed>>
  BY DEF DumpSymbol, memory, ghosts
<1>2. off = Len(file) /\ file \in Seq(Rec) /\ <<r>> \in Seq(Rec) /\ ToSet(<<r>>) = {r}
  BY <1>0, <1>1, RecordTypes, SetOfOne DEF OffsetInv, TypeInv
<1>3. Grows /\ Good(r)'
  BY <1>1, SameMemory DEF Good
<1> HIDE DEF r
<1>4. /\ file' \in Seq(Rec) /\ F' = F \cup {r}
      /\ off' = Len(file') /\ off' \in 0 .. Len(file') /\ R' = R /\ C' = C
  BY <1>1, <1>2, WriteAtEnd DEF R, C
<1>5. GoodInv'
  BY <1>0, <1>1, <1>3, <1>4, GoodKept DEF Closed
<1>6. OffsetInv'
  BY <1>0, <1>1, <1>4 DEF TypeInv, OffsetInv
<1>7. NameInv' /\ TakenInv'
  BY <1>0, <1>1, <1>4 DEF NameInv, TakenInv, Taken
<1>8. SeenInv'
  BY <1>0, <1>1, <1>3, <1>4 DEF SeenInv, Grows, r
<1>q. QED BY <1>5, <1>6, <1>7, <1>8 DEF Right

\* What disable() has seen and is not alive was freed, and its name kept.
LEMMA WriteAllCodesKeeps == TypeInv /\ Right /\ WriteAllCodes => Right'
<1> SUFFICES ASSUME TypeInv, Right, WriteAllCodes  PROVE Right'
  OBVIOUS
<1>0. TypeInv /\ GoodInv /\ OffsetInv /\ NameInv /\ TakenInv /\ SeenInv
  BY DEF Right
<1>1. /\ phase = "dumping" /\ todo = {} /\ phase' = "emitting" /\ todo' = seen \cap Living
      /\ UNCHANGED <<file, off, ready, codes, seen, at, lived, taken, missed, freed>>
  BY DEF WriteAllCodes, memory, ghosts
<1>2. F' = F /\ R' = R /\ C' = C /\ Taken' = Taken /\ Living' = Living /\ Grows
  BY <1>1, SameMemory DEF F, R, C, Taken, Living
<1>3. GoodInv'
  BY <1>0, <1>1, <1>2, GoodStays DEF GoodInv, Closed
<1>4. OffsetInv'
  BY <1>0, <1>1 DEF TypeInv, OffsetInv
<1>5. NameInv' /\ TakenInv'
  BY <1>0, <1>1, <1>2 DEF NameInv, TakenInv
<1>6. SeenInv'
  <2>1. ASSUME NEW x \in (seen \cap Addrs) \ Living
        PROVE  \E n \in lived[x] : Ip(x, n) \in F \cup R \cup C
    <3>1. PICK n \in Names : <<x, n>> \in freed
      BY <1>0 DEF SeenInv, Known, Living
    <3>2. n \in lived[x] /\ Ip(x, n) \in F \cup R \cup C
      BY <1>0, <1>1, <3>1 DEF NameInv
    <3>q. QED BY <3>2
  <2>2. \A x \in seen' \cap Addrs : Known(x)'
    BY <1>0, <1>1, <1>2 DEF SeenInv, Grows
  <2>q. QED BY <1>0, <1>1, <1>2, <2>1, <2>2 DEF SeenInv
<1>q. QED BY <1>3, <1>4, <1>5, <1>6 DEF Right

\* The last names and the trailer, where nothing follows.
LEMMA DisableVmprofKeeps ==
  ASSUME TypeInv, Right, Whole', DisableVmprof
  PROVE  Right' /\ IsPrefix(file, file')
<1> DEFINE t == codes \o ready
           s == file \o t
<1>0. GoodInv /\ OffsetInv /\ NameInv /\ TakenInv /\ SeenInv
  BY DEF Right
<1>1. /\ phase \in {"emitting", "failed"} /\ phase' \in Closed
      /\ phase' = "closed" => phase = "emitting" /\ todo = {}
      /\ codes' = <<>> /\ ready' = <<>>
      /\ Write(t \o <<Trailer>>)
      /\ UNCHANGED <<seen, todo, at, lived, taken, missed, freed>>
  BY DEF DisableVmprof, memory, ghosts, Closed
<1>2. off \in 0 .. Len(file) /\ file \in Seq(Rec) /\ ready \in Seq(Rec) /\ codes \in Seq(Rec)
  BY DEF TypeInv
<1>3. t \in Seq(Rec) /\ ToSet(t) = R \cup C
  BY <1>2, SetOfConcat DEF R, C
<1> HIDE DEF t
<1>4. s \in Seq(Rec) /\ ToSet(s) = F \cup R \cup C
  BY <1>2, <1>3, SetOfConcat DEF F
<1>5. /\ <<Trailer>> \in Seq(Rec) /\ ToSet(<<Trailer>>) = {Trailer}
      /\ Len(<<Trailer>>) = 1 /\ <<Trailer>>[1] = Trailer
  BY RecordTypes, SetOfOne
<1>6. /\ t \o <<Trailer>> \in Seq(Rec) /\ ToSet(t \o <<Trailer>>) = R \cup C \cup {Trailer}
      /\ t \o <<Trailer>> # <<>>
  BY <1>3, <1>5, SetOfConcat, SetOfNone
<1>7. /\ file' = file \o (t \o <<Trailer>>) /\ file' \in Seq(Rec)
      /\ F' = F \cup R \cup C \cup {Trailer}
      /\ off' = Len(file')
  <2>1. /\ file' = file \o (t \o <<Trailer>>) /\ file' \in Seq(Rec)
        /\ F' = F \cup (R \cup C \cup {Trailer})
        /\ IF off = Len(file) THEN off' = Len(file') ELSE t \o <<Trailer>> = <<>>
    BY <1>1, <1>2, <1>6, WriteEffect
  <2>q. QED BY <1>6, <2>1
<1>8. IsPrefix(file, file')
  BY <1>2, <1>6, <1>7, PrefixOfConcat
<1>9. file' = s \o <<Trailer>>
  BY <1>2, <1>3, <1>5, <1>7
<1> HIDE DEF s
<1>10. /\ Len(file') = Len(s) + 1 /\ file'[Len(file')] = Trailer /\ file' # <<>>
       /\ \A k \in 1 .. Len(file') - 1 : file'[k] \in ToSet(s)
  <2>1. Len(file') = Len(s) + 1 /\ Len(s) \in Nat
    BY <1>4, <1>5, <1>9, SetOfConcat
  <2>2. file'[Len(s) + 1] = Trailer
    BY <1>4, <1>5, <1>9, ConcatAt
  <2>3. \A k \in 1 .. Len(s) : file'[k] = s[k]
    BY <1>4, <1>5, <1>9, ConcatAt
  <2>4. Len(file') - 1 = Len(s) /\ file' # <<>>
    BY <2>1
  <2>q. QED BY <1>4, <2>1, <2>2, <2>3, <2>4, SetMembers
<1>11. Grows
  BY <1>1, SameMemory
<1>12. GoodInv'
  <2>1. \A r \in ToSet(s) : Good(r)'
    BY <1>0, <1>1, <1>4, <1>11, GoodStays DEF GoodInv, Closed
  <2>2. R' = {} /\ C' = {}
    BY <1>1, SetOfNone DEF R, C
  <2>q. QED BY <1>1, <1>10, <2>1, <2>2 DEF GoodInv
<1>13. OffsetInv' /\ NameInv'
  BY <1>0, <1>1, <1>7 DEF OffsetInv, NameInv
<1>14. TakenInv'
  BY <1>0, <1>1 DEF TakenInv, Taken, Closed
<1>15. SeenInv'
  BY <1>0, <1>1, <1>7, <1>11 DEF SeenInv, Grows, Closed
<1>q. QED BY <1>8, <1>12, <1>13, <1>14, <1>15 DEF Right

LEMMA StutterKeeps == TypeInv /\ Right /\ UNCHANGED vars => Right'
<1> SUFFICES ASSUME TypeInv, Right, UNCHANGED vars  PROVE Right'
  OBVIOUS
<1>0. TypeInv /\ GoodInv /\ OffsetInv /\ NameInv /\ TakenInv /\ SeenInv
  BY DEF Right
<1>1. UNCHANGED <<file, off, ready, codes, phase, seen, todo, at, lived, taken, missed, freed>>
  BY DEF vars, memory, ghosts
<1>2. F' = F /\ R' = R /\ C' = C /\ Taken' = Taken /\ Unread' = Unread /\ Grows
  BY <1>1, SameMemory DEF F, R, C, Taken, Unread
<1>3. GoodInv'
  BY <1>0, <1>1, <1>2, GoodStays DEF GoodInv, Closed
<1>4. OffsetInv' /\ NameInv' /\ TakenInv'
  BY <1>0, <1>1, <1>2 DEF TypeInv, OffsetInv, NameInv, TakenInv
<1>5. SeenInv'
  BY <1>0, <1>1, <1>2 DEF SeenInv, Grows
<1>q. QED BY <1>3, <1>4, <1>5 DEF Right

LEMMA InitInv == Init => Inv
<1> SUFFICES ASSUME Init  PROVE Inv
  OBVIOUS
<1>1. /\ file = <<>> /\ ready = <<>> /\ codes = <<>> /\ taken = <<>> /\ off = 0
      /\ phase = "off" /\ seen = {} /\ todo = {} /\ freed = {}
      /\ at \in [Addrs -> Names \cup {Nobody}]
      /\ lived = [a \in Addrs |-> {at[a]} \ {Nobody}]
  BY DEF Init
<1>2. F = {} /\ R = {} /\ C = {} /\ Taken = {}
  BY <1>1 DEF F, R, C, Taken, ToSet
<1>3. TypeInv
  BY <1>1 DEF TypeInv
<1>4. GoodInv /\ OffsetInv
  BY <1>1, <1>2 DEF GoodInv, OffsetInv, Closed
<1>5. NameInv /\ TakenInv /\ SeenInv
  BY <1>1, <1>2 DEF NameInv, TakenInv, SeenInv
<1>q. QED BY <1>3, <1>4, <1>5 DEF Inv, Right

LEMMA NextInv == Inv /\ [Next]_vars => Inv'
<1> SUFFICES ASSUME Inv, [Next]_vars  PROVE Inv'
  OBVIOUS
<1>1. TypeInv /\ TypeInv' /\ (Whole' => Whole /\ Right)
  BY StepTypes DEF Inv
<1>2. ASSUME Whole'  PROVE Right'
  <2>1. Whole /\ Right
    BY <1>1, <1>2
  <2>2. ~ReadTorn
    <3>1. ASSUME ReadTorn  PROVE FALSE
      <4>1. off + 1 \in 1 .. Len(file) /\ file[off + 1] = Torn
        BY <1>1, <3>1 DEF ReadTorn, TypeInv
      <4>q. QED BY <1>1, <2>1, <4>1, SetMembers DEF TypeInv, Whole
    <3>q. QED BY <3>1
  <2>3. \A x \in Addrs \cup Natives : x \in Ids
    BY DEF Ids
  <2>q. QED BY <1>1, <1>2, <2>1, <2>2, <2>3, EnableKeeps, StopSamplingKeeps, ReadRecordKeeps,
           FinishedReadingKeeps, WriteAllCodesKeeps, ReadFailsKeeps, DisableVmprofKeeps,
           SampleKeeps, DumpSymbolKeeps, CodeDeallocKeeps, EmitCodeKeeps, CodeNewKeeps,
           StutterKeeps DEF Next
<1>q. QED BY <1>1, <1>2 DEF Inv

\* The inductive invariant: what is in the file, the READY buffers and the block
\* of names, and what disable() has found and named so far.
THEOREM InductiveInvariant == Spec => []Inv
BY InitInv, NextInv, PTL DEF Spec

-----------------------------------------------------------------------------
\* Whatever disable() reads, and whatever is sampled, registered or dumped, a
\* whole file is only appended to, unless a code object dies while it is read or
\* the reading has failed half-way.
THEOREM FileIsAppendedTo == Spec => AppendOnly
<1>1. ASSUME Inv, [Next]_vars
      PROVE  [\/ IsPrefix(file, file') \/ ~Whole
              \/ phase = "reading" /\ at' # at
              \/ phase = "failed" /\ off < Len(file)]_vars
  <2> SUFFICES ASSUME Next, Whole, ~(phase = "reading" /\ at' # at),
                      ~(phase = "failed" /\ off < Len(file))
               PROVE  IsPrefix(file, file')
    BY <1>1
  <2>0. /\ TypeInv /\ OffsetInv
        /\ file \in Seq(Rec) /\ ready \in Seq(Rec) /\ codes \in Seq(Rec)
    BY <1>1 DEF Inv, TypeInv, Right
  <2>1. file' = file => IsPrefix(file, file')
    BY <2>0, PrefixOfItself
  <2>2. ASSUME NEW records \in Seq(Rec), phase # "reading", Write(records)
        PROVE  IsPrefix(file, file')
    <3>1. off = Len(file)
      BY <2>0, <2>2 DEF OffsetInv, TypeInv
    <3>q. QED BY <2>0, <2>2, <3>1, WriteAtEnd, PrefixOfConcat
  <2>3. CASE Enable
    <3>1. <<Header>> \in Seq(Rec)
      BY RecordTypes, SetOfOne
    <3>q. QED BY <2>2, <2>3, <3>1 DEF Enable
  <2>4. ASSUME NEW x \in Living \cup Natives, Sample(x)
        PROVE  IsPrefix(file, file')
    <3>1. ready \o <<Trace(x)>> \in Seq(Rec)
      BY <2>0, RecordTypes, SetOfOne, SetOfConcat DEF Living, Ids
    <3>q. QED BY <2>1, <2>2, <2>4, <3>1 DEF Sample
  <2>5. ASSUME NEW x \in Addrs \cup Natives, DumpSymbol(x)
        PROVE  IsPrefix(file, file')
    <3>1. <<Native(x)>> \in Seq(Rec)
      BY RecordTypes, SetOfOne DEF Ids
    <3>q. QED BY <2>2, <2>5, <3>1 DEF DumpSymbol
  <2>6. ASSUME NEW a \in Addrs, CodeDealloc(a) \/ EmitCode(a)
        PROVE  IsPrefix(file, file')
    <3>1. Register(Ip(a, at[a]))
      BY <2>0, <2>6, RegisterTypes
    <3>2. phase # "reading"
      BY <2>0, <2>6 DEF CodeDealloc, EmitCode, TypeInv
    <3>3. codes \o ready \in Seq(Rec)
      BY <2>0, SetOfConcat
    <3>q. QED BY <2>1, <2>2, <3>1, <3>2, <3>3 DEF Register
  <2>7. CASE DisableVmprof
    <3>1. codes \o ready \o <<Trailer>> \in Seq(Rec)
      BY <2>0, RecordTypes, SetOfOne, SetOfConcat
    <3>q. QED BY <2>2, <2>7, <3>1 DEF DisableVmprof
  <2>8. CASE \/ StopSampling \/ ReadRecord \/ ReadTorn \/ FinishedReading \/ WriteAllCodes
             \/ ReadFails \/ \E a \in Addrs, n \in Names : CodeNew(a, n)
    BY <2>1, <2>8 DEF StopSampling, ReadRecord, ReadTorn, FinishedReading, WriteAllCodes,
                      ReadFails, CodeNew
  <2>q. QED BY <2>3, <2>4, <2>5, <2>6, <2>7, <2>8 DEF Next
<1>q. QED BY <1>1, InductiveInvariant, PTL DEF Spec, AppendOnly

-----------------------------------------------------------------------------
(* The reader of the closed file *)

LEMMA FrontOf ==
  ASSUME NEW s \in Seq(Rec), NEW n \in 0 .. Len(s)
  PROVE  /\ Len(SubSeq(s, 1, n)) = n /\ DOMAIN SubSeq(s, 1, n) = 1 .. n
         /\ \A k \in 1 .. n : SubSeq(s, 1, n)[k] = s[k]
OBVIOUS

\* It reads everything in front of the trailer.
LEMMA ReadAllIs ==
  ASSUME TypeInv, Right, phase \in Closed
  PROVE  /\ \A r \in F : r = Trailer \/ r \in ToSet(ReadAll)
         /\ \A r \in ToSet(ReadAll) : Good(r)
<1>0. /\ file \in Seq(Rec) /\ file # <<>> /\ file[Len(file)] = Trailer
      /\ \A k \in 1 .. Len(file) - 1 : Good(file[k]) /\ file[k] # Trailer
  BY RecordsDiffer DEF TypeInv, Right, GoodInv
<1>1. Len(file) \in Nat \ {0}
  BY <1>0
<1>2. \A k \in 1 .. Len(file) : file[k] = Trailer <=> k = Len(file)
  BY <1>0, <1>1
<1> DEFINE ends == {k \in 1 .. Len(file) : file[k] = Trailer}
<1>3. ends = {Len(file)}
  BY <1>1, <1>2
<1>4. (CHOOSE k \in ends : \A l \in ends : k <= l) = Len(file)
  BY <1>1, <1>3
<1>5. ReadAll = SubSeq(file, 1, Len(file) - 1)
  BY <1>3, <1>4 DEF ReadAll
<1>6. /\ Len(ReadAll) = Len(file) - 1 /\ DOMAIN ReadAll = 1 .. Len(file) - 1
      /\ \A k \in 1 .. Len(file) - 1 : ReadAll[k] = file[k]
  <2> HIDE DEF ends
  <2>1. Len(file) - 1 \in 0 .. Len(file)
    BY <1>1
  <2>q. QED BY <1>0, <1>5, <2>1, FrontOf
<1>7. ASSUME NEW r \in F, r # Trailer
      PROVE  r \in ToSet(ReadAll)
  <2>1. PICK k \in 1 .. Len(file) : file[k] = r
    BY <1>0, SetMembers DEF F
  <2>2. k \in 1 .. Len(file) - 1
    BY <1>0, <1>1, <1>7, <2>1
  <2>q. QED BY <1>6, <2>1, <2>2 DEF ToSet
<1>8. \A r \in ToSet(ReadAll) : Good(r)
  BY <1>0, <1>6 DEF ToSet
<1>q. QED BY <1>7, <1>8

\* The name of every code object that was freed while the profiler was enabled
\* is in the file that disable() leaves, whatever became of the block it was put
\* into and although the reading may have failed, unless records were written over.
THEOREM TheFreedAreNamed == Spec => []FreedAreNamed
<1>1. Inv => FreedAreNamed
  <2> SUFFICES ASSUME Inv, phase \in Closed, Whole, NEW c \in freed
               PROVE  c[2] \in Given(c[1])
    BY DEF FreedAreNamed, Closed
  <2>0. TypeInv /\ Right
    BY DEF Inv
  <2> DEFINE r == Ip(c[1], c[2])
  <2>1. R = {} /\ C = {}
    BY <2>0, SetOfNone DEF R, C, Right, GoodInv
  <2>2. r \in F
    BY <2>0, <2>1 DEF Right, NameInv
  <2>3. r # Trailer /\ r.tag = "ip" /\ r.id = c[1] /\ r.name = c[2]
    BY DEF Ip, Trailer
  <2>4. r \in ToSet(ReadAll)
    BY <2>0, <2>2, <2>3, ReadAllIs
  <2> HIDE DEF r
  <2>q. QED BY <2>3, <2>4 DEF Given
<1>q. QED BY <1>1, InductiveInvariant, PTL

\* A set of finitely many numbers has a largest one.
LEMMA Largest ==
  ASSUME NEW S, S \subseteq 0 .. MaxName, S # {}
  PROVE  \E n \in S : \A m \in S : m <= n
<1> DEFINE Above(n) == {m \in S : m > n}
           T == {Above(n) : n \in S}
<1>1. IsFiniteSet(S) /\ S \subseteq Nat
  <2>1. MaxName \in Nat /\ S \in SUBSET (0 .. MaxName)
    BY ProfileFileAssumption
  <2>2. IsFiniteSet(0 .. MaxName)
    BY <2>1, FS_Interval
  <2>3. IsFiniteSet(S)
    BY <2>1, <2>2, FS_Subset
  <2>q. QED BY <2>1, <2>3
<1>2. T \subseteq SUBSET S /\ T # {}
  OBVIOUS
<1>3. IsWellFoundedOn(StrictSubsetOrdering(S), SUBSET S)
  BY <1>1, FS_FiniteSubsetsOfFinite, FS_StrictSubsetOrderingWellFounded
<1>4. PICK A \in T : \A B \in T : <<B, A>> \notin StrictSubsetOrdering(S)
  <2> HIDE DEF T
  <2>q. QED BY <1>2, <1>3, WFMin
<1>5. PICK n \in S : A = Above(n)
  OBVIOUS
<1>6. ASSUME NEW m \in S, m > n
      PROVE  FALSE
  <2>1. m \in A /\ m \notin Above(m)
    BY <1>1, <1>5, <1>6
  <2>0. ASSUME NEW l \in Above(m)  PROVE l \in A
    <3>1. l \in S /\ l > m /\ l \in Nat /\ m \in Nat /\ n \in Nat
      BY <1>1
    <3>2. l > n
      BY <1>6, <3>1
    <3>q. QED BY <1>5, <3>1, <3>2
  <2>2. <<Above(m), A>> \in (SUBSET S) \X (SUBSET S) /\ Above(m) # A
    BY <1>5, <2>1
  <2>3. <<Above(m), A>> \in StrictSubsetOrdering(S)
    BY <2>0, <2>2 DEF StrictSubsetOrdering
  <2>q. QED BY <1>4, <2>3
<1>q. QED BY <1>1, <1>6

\* Every sampled id ends up with a name: that of a code object that lived at its
\* address, though disable() wrote a placeholder for it too, or the symbol of a
\* native function; but for the samples that were kept back in a buffer when
\* disable() read the file, and for files in which records were written over.
THEOREM TheSampledAreNamed == Spec => []SampledAreNamed
<1>1. Inv => SampledAreNamed
  <2> SUFFICES ASSUME Inv, phase = "closed", Whole, NEW k \in 1 .. Len(taken),
                      taken[k] \in seen
               PROVE  LET x == taken[k]
                      IN  /\ Given(x) # {}
                          /\ AdrDict(x) \in IF x \in Addrs THEN lived[x] ELSE {Symbol}
    <3>1. ASSUME Inv, phase = "closed", Whole, NEW j \in 1 .. Len(taken)
          PROVE  taken[j] \in missed \cup seen
      <4>1. taken[j] \in Taken
        BY <3>1 DEF Inv, TypeInv, Taken, ToSet
      <4>q. QED BY <3>1, <4>1 DEF Inv, Right, TakenInv
    <3>q. QED BY <3>1 DEF SampledAreNamed
  <2> DEFINE x == taken[k]
  <2>t. TypeInv /\ Right /\ phase \in Closed
    BY DEF Inv, Closed
  <2>0. x \in seen /\ x \in Ids /\ (x \in Addrs => lived[x] \subseteq Names)
    BY DEF Inv, TypeInv, Ids
  <2> HIDE DEF x
  <2>1. Symbol \in Given(x)
    <3> DEFINE r == Native(x)
    <3>1. r \in F
      BY <2>0 DEF Inv, Right, SeenInv
    <3>2. r # Trailer /\ r.tag = "symbol" /\ r.id = x /\ r.name = Symbol
      BY DEF Native, Trailer
    <3>3. r \in ToSet(ReadAll)
      BY <3>1, <3>2, <2>t, ReadAllIs
    <3> HIDE DEF r
    <3>q. QED BY <3>2, <3>3 DEF Given
  <2>2. ASSUME NEW n \in Given(x)
        PROVE  n = Symbol \/ (x \in Addrs /\ n \in lived[x])
    <3>1. PICK r \in ToSet(ReadAll) : r.tag \in {"ip", "symbol"} /\ r.id = x /\ r.name = n
      BY DEF Given
    <3>2. Good(r)
      BY <2>t, ReadAllIs
    <3>q. QED BY <3>1, <3>2, RecordsDiffer
  <2>3. Given(x) \subseteq 0 .. MaxName
    BY <2>0, <2>2, ProfileFileAssumption DEF Names, Symbol
  <2>4. AdrDict(x) \in Given(x) /\ \A m \in Given(x) : m <= AdrDict(x)
    <3>1. \E n \in Given(x) : \A m \in Given(x) : m <= n
      BY <2>1, <2>3, Largest
    <3>q. QED BY <3>1 DEF AdrDict
  <2>5. CASE x \in Addrs
    <3>1. PICK n \in lived[x] : Ip(x, n) \in F
      BY <2>0, <2>5 DEF Inv, Right, SeenInv
    <3> DEFINE r == Ip(x, n)
    <3>2. r # Trailer /\ r.tag = "ip" /\ r.id = x /\ r.name = n
      BY DEF Ip, Trailer
    <3>3. r \in ToSet(ReadAll)
      BY <3>1, <3>2, <2>t, ReadAllIs
    <3> HIDE DEF r
    <3>4. n \in Given(x)
      BY <3>2, <3>3 DEF Given
    <3>5. AdrDict(x) # Symbol
      BY <2>0, <2>4, <2>5, <3>1, <3>4 DEF Names, Symbol
    <3>q. QED BY <2>2, <2>4, <2>5, <3>5 DEF x
  <2>6. CASE x \notin Addrs
    BY <2>1, <2>2, <2>4, <2>6 DEF x
  <2>q. QED BY <2>5, <2>6
<1>q. QED BY <1>1, InductiveInvariant, PTL
=============================================================================
