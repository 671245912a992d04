--------------------------- MODULE ProcessorProofs ---------------------------
(***************************************************************************)
(* Proofs about Processor, for any group, any number of partitions, any    *)
(* log and any number of faults.                                           *)
(***************************************************************************)
EXTENDS Processor, FiniteSetTheorems, WellFoundedInduction, TLAPS

-----------------------------------------------------------------------------
(* Types. *)

(* NoChunk and NewPart are values of their types. *)
LEMMA NoneType == NoChunk \in Chunk /\ NewPart \in Part
<1>1. Len(Tables) \in Nat
  BY ProcessorAssumption
<1>2. NoChunk \in Chunk
  BY <1>1 DEF NoChunk, Chunk
<1> QED
  BY <1>2 DEF NewPart, Part

(* close keeps a partition well typed and moves the open chunk to the end of closed. *)
LEMMA CloseType ==
  ASSUME NEW ps \in Part
  PROVE  /\ close(ps) \in Part
         /\ close(ps).open = NoChunk
         /\ close(ps).closed = Append(ps.closed, ps.open)
         /\ close(ps).lastOffset = ps.lastOffset
         /\ close(ps).hwm = ps.hwm
<1>1. ps.open \in Chunk /\ ps.closed \in Seq(Chunk) /\ Append(ps.closed, ps.open) \in Seq(Chunk)
  BY DEF Part
<1> QED
  BY <1>1, NoneType DEF close, Part

(* extend grows the open chunk by one record. *)
LEMMA ExtendType ==
  ASSUME NEW c \in Chunk, NEW o \in Nat, NEW r \in Record
  PROVE  /\ extend(c, o, r) \in Chunk
         /\ extend(c, o, r).last = o
         /\ extend(c, o, r).first = IF c = NoChunk THEN o ELSE c.first
         /\ extend(c, o, r).tab = IF c = NoChunk THEN 0 ELSE c.tab
         /\ extend(c, o, r).status = IF c = NoChunk THEN "buffered" ELSE c.status
<1>1. r.win \in Nat /\ r.size \in Nat /\ Len(Tables) \in Nat
  BY ProcessorAssumption
<1>2. CASE c = NoChunk
  BY <1>1, <1>2 DEF extend, newChunk, Chunk
<1>3. CASE c # NoChunk
  <2> DEFINE e == [c EXCEPT !.last = o, !.bytes = @ + r.size]
  <2>1. c.bytes + r.size \in Nat /\ o \in Int
    BY <1>1 DEF Chunk
  <2>2. e \in Chunk
    BY <2>1 DEF Chunk
  <2>3. e.last = o /\ e.first = c.first /\ e.tab = c.tab /\ e.status = c.status
    BY DEF Chunk
  <2>4. extend(c, o, r) = e
    BY <1>3 DEF extend
  <2> QED
    BY <1>3, <2>2, <2>3, <2>4
<1> QED
  BY <1>2, <1>3

(* add keeps a partition well typed. *)
LEMMA AddType ==
  ASSUME NEW ps \in Part, NEW o \in Nat, NEW r \in Record
  PROVE  add(ps, o, r) \in Part
<1> DEFINE cut   == IF ps.open # NoChunk /\ r.win > ps.open.win THEN close(ps) ELSE ps
           grown == [cut EXCEPT !.open = extend(cut.open, o, r), !.lastOffset = o]
<1>1. cut \in Part
  BY CloseType
<1>2. extend(cut.open, o, r) \in Chunk /\ o \in Int
  <2>1. cut.open \in Chunk
    BY <1>1 DEF Part
  <2> QED
    BY <2>1, ExtendType
<1> HIDE DEF cut
<1>3. grown \in Part
  BY <1>1, <1>2 DEF Part
<1>4. add(ps, o, r) \in {grown, close(grown)}
  BY DEF add, cut
<1> QED
  BY <1>3, <1>4, CloseType

(* closeParts keeps every partition well typed. *)
LEMMA ClosePartsType ==
  ASSUME NEW f \in [Partition -> Part], NEW P
  PROVE  closeParts(f, P) \in [Partition -> Part]
BY CloseType DEF closeParts

(* trim keeps a partition well typed and drops the first n chunks. *)
LEMMA TrimType ==
  ASSUME NEW ps \in Part, NEW n \in 0..Len(ps.closed)
  PROVE  /\ trim(ps, n) \in Part
         /\ trim(ps, n).open = ps.open
         /\ trim(ps, n).lastOffset = ps.lastOffset
         /\ trim(ps, n).hwm = ps.hwm
         /\ Len(trim(ps, n).closed) = Len(ps.closed) - n
         /\ \A i \in 1..(Len(ps.closed) - n) :
              trim(ps, n).closed[i] = [ps.closed[i + n] EXCEPT !.tab = 0]
<1> DEFINE k  == Len(ps.closed) - n
           cl == [i \in 1..k |-> [ps.closed[i + n] EXCEPT !.tab = 0]]
<1>1. ps.closed \in Seq(Chunk) /\ Len(ps.closed) \in Nat /\ k \in Nat
  BY DEF Part
<1>2. ASSUME NEW i \in 1..k
      PROVE  [ps.closed[i + n] EXCEPT !.tab = 0] \in Chunk
  <2>1. ps.closed[i + n] \in Chunk
    BY <1>1
  <2>2. 0 \in 0..Len(Tables)
    BY ProcessorAssumption
  <2> QED
    BY <2>1, <2>2 DEF Chunk
<1>3. cl \in Seq(Chunk) /\ Len(cl) = k
  BY <1>1, <1>2
<1>4. trim(ps, n) = [ps EXCEPT !.closed = cl]
  BY DEF trim
<1> HIDE DEF cl
<1>5. /\ trim(ps, n) \in Part /\ trim(ps, n).closed = cl
      /\ trim(ps, n).open = ps.open /\ trim(ps, n).lastOffset = ps.lastOffset
      /\ trim(ps, n).hwm = ps.hwm
  BY <1>3, <1>4 DEF Part
<1> QED
  BY <1>1, <1>3, <1>5 DEF cl

-----------------------------------------------------------------------------
(* What a partition's chunks say about the log and the store. *)

(* L2 continues the log L. *)
Continues(L, L2) == Len(L) <= Len(L2) /\ \A i \in 1..Len(L) : L2[i] = L[i]

(* Sound chunks stay sound as the log and the store grow. *)
LEMMA GrowTable ==
  ASSUME NEW L \in Seq(Record), NEW L2 \in Seq(Record), NEW R, NEW R2, NEW p, NEW c,
         c.first \in Int, c.last \in Int, InLog(L, c), NEW i,
         Continues(L, L2), R \subseteq R2, TableStored(L, R, p, c, i)
  PROVE  TableStored(L2, R2, p, c, i)
<1> SUFFICES ASSUME NEW o \in c.first..c.last, Tables[i] \in L2[o + 1].tables
             PROVE  <<p, o, Tables[i]>> \in R2
  BY DEF TableStored
<1>1. o + 1 \in 1..Len(L)
  BY DEF InLog
<1>2. L2[o + 1] = L[o + 1]
  BY <1>1 DEF Continues
<1> QED
  BY <1>2 DEF TableStored

LEMMA GrowInLog ==
  ASSUME NEW L \in Seq(Record), NEW L2 \in Seq(Record), NEW c, c.last \in Int,
         InLog(L, c), Continues(L, L2)
  PROVE  InLog(L2, c)
BY DEF InLog, Continues

LEMMA GrowPart ==
  ASSUME NEW L \in Seq(Record), NEW L2 \in Seq(Record), NEW R, NEW R2, NEW p,
         NEW ps \in Part, Continues(L, L2), R \subseteq R2, PartSound(L, R, p, ps)
  PROVE  PartSound(L2, R2, p, ps)
<1>1. ASSUME NEW i \in 1..Len(ps.closed)
      PROVE  ClosedSound(L2, R2, p, ps.closed[i])
  <2> DEFINE c == ps.closed[i]
  <2>1. c \in Chunk /\ ClosedSound(L, R, p, c)
    BY DEF Part, PartSound
  <2> HIDE DEF c
  <2>2. c.first \in Int /\ c.last \in Int /\ InLog(L, c)
    BY <2>1 DEF Chunk, ClosedSound
  <2>3. \A j : TableStored(L, R, p, c, j) => TableStored(L2, R2, p, c, j)
    BY <2>2, GrowTable
  <2>4. InLog(L2, c)
    BY <2>2, GrowInLog
  <2>5. ClosedSound(L2, R2, p, c)
    BY <2>1, <2>3, <2>4 DEF ClosedSound
  <2> QED
    BY <2>5 DEF c
<1>2. ps.open # NoChunk => InLog(L2, ps.open)
  BY GrowInLog DEF PartSound, Part, Chunk
<1> QED
  BY <1>1, <1>2 DEF PartSound

LEMMA GrowOwner ==
  ASSUME NEW L \in Seq(Record), NEW L2 \in Seq(Record), NEW R, NEW R2, NEW p,
         NEW ps \in Part, NEW k \in Nat, NEW cm \in Nat, k <= Len(L),
         Continues(L, L2), R \subseteq R2, OwnerSound(L, R, p, ps, k, cm)
  PROVE  OwnerSound(L2, R2, p, ps, k, cm)
<1>1. ASSUME NEW o \in 0..(k - 1), StoredIn(L, R, p, o)
      PROVE  StoredIn(L2, R2, p, o)
  <2>1. o + 1 \in 1..Len(L)
    OBVIOUS
  <2>2. L2[o + 1] = L[o + 1]
    BY <2>1 DEF Continues
  <2> QED
    BY <1>1, <2>2 DEF StoredIn
<1> QED
  BY <1>1 DEF OwnerSound

(* close keeps the chunks sound. *)
LEMMA ClosePart ==
  ASSUME NEW L \in Seq(Record), NEW R, NEW p, NEW ps \in Part,
         ps.open # NoChunk, PartSound(L, R, p, ps)
  PROVE  PartSound(L, R, p, close(ps))
<1> DEFINE cl == Append(ps.closed, ps.open)
<1>1. ps.closed \in Seq(Chunk) /\ ps.open \in Chunk
  BY DEF Part
<1>2. /\ Len(cl) = Len(ps.closed) + 1
      /\ \A i \in 1..Len(ps.closed) : cl[i] = ps.closed[i]
      /\ cl[Len(ps.closed) + 1] = ps.open
  BY <1>1
<1>3. ClosedSound(L, R, p, ps.open)
  BY DEF PartSound, ClosedSound
<1>4. close(ps).closed = cl /\ close(ps).open = NoChunk
  BY CloseType
<1> HIDE DEF cl
<1>5. \A i \in 1..Len(cl) : ClosedSound(L, R, p, cl[i])
  BY <1>1, <1>2, <1>3 DEF PartSound
<1> QED
  BY <1>4, <1>5 DEF PartSound

LEMMA CloseOwner ==
  ASSUME NEW L, NEW R, NEW p, NEW ps \in Part, NEW k \in Nat, NEW cm \in Nat,
         ps.open # NoChunk, OwnerSound(L, R, p, ps, k, cm)
  PROVE  OwnerSound(L, R, p, close(ps), k, cm)
<1> DEFINE cl == Append(ps.closed, ps.open)
           n  == Len(ps.closed)
<1>1. ps.closed \in Seq(Chunk) /\ ps.open \in Chunk /\ n \in Nat
  BY DEF Part
<1>2. /\ Len(cl) = n + 1
      /\ \A i \in 1..n : cl[i] = ps.closed[i]
      /\ cl[n + 1] = ps.open
  BY <1>1
<1>3. close(ps).closed = cl /\ close(ps).open = NoChunk /\ close(ps).lastOffset = ps.lastOffset
  BY CloseType
<1> HIDE DEF cl
<1>4. \A i \in 1..Len(cl) : cm <= cl[i].first /\ cl[i].last < k
  <2> TAKE i \in 1..Len(cl)
  <2>1. CASE i = n + 1
    BY <1>2, <2>1 DEF OwnerSound
  <2>2. CASE i # n + 1
    <3>1. i \in 1..n /\ cl[i] = ps.closed[i]
      BY <1>1, <1>2, <2>2
    <3> QED
      BY <3>1 DEF OwnerSound
  <2> QED
    BY <2>1, <2>2
<1>5. ASSUME NEW i \in 1..Len(cl), NEW j \in 1..Len(cl), i < j
      PROVE  cl[i].last < cl[j].first
  <2>1. CASE j = n + 1
    <3>1. i \in 1..n /\ cl[j] = ps.open /\ cl[i] = ps.closed[i]
      BY <1>1, <1>2, <1>5, <2>1
    <3> QED
      BY <3>1 DEF OwnerSound
  <2>2. CASE j # n + 1
    <3>1. i \in 1..n /\ j \in 1..n /\ cl[j] = ps.closed[j] /\ cl[i] = ps.closed[i]
      BY <1>1, <1>2, <1>5, <2>2
    <3> QED
      BY <3>1, <1>5 DEF OwnerSound
  <2> QED
    BY <2>1, <2>2
<1>6. ASSUME NEW o \in 0..(k - 1)
      PROVE  StoredIn(L, R, p, o) \/ \E i \in 1..Len(cl) : Covers(cl[i], o)
  <2>1. CASE ps.open # NoChunk /\ Covers(ps.open, o)
    BY <1>1, <1>2, <2>1
  <2>2. CASE \E i \in 1..n : Covers(ps.closed[i], o)
    BY <1>1, <1>2, <2>2
  <2> QED
    BY <2>1, <2>2 DEF OwnerSound
<1> QED
  BY <1>3, <1>4, <1>5, <1>6 DEF OwnerSound

(* Extending the open chunk by the record at k keeps a partition sound. *)
LEMMA GrowOpen ==
  ASSUME NEW L \in Seq(Record), NEW R, NEW p, NEW ps \in Part,
         NEW k \in Nat, NEW cm \in Nat, k < Len(L),
         PartSound(L, R, p, ps), OwnerSound(L, R, p, ps, k, cm),
         NEW new \in Part,
         new = [ps EXCEPT !.open = extend(ps.open, k, L[k + 1]), !.lastOffset = k]
  PROVE  /\ PartSound(L, R, p, new)
         /\ OwnerSound(L, R, p, new, k + 1, cm)
         /\ new.open # NoChunk
<1> DEFINE c == ps.open
           e == extend(ps.open, k, L[k + 1])
<1>1. L[k + 1] \in Record /\ c \in Chunk /\ ps.closed \in Seq(Chunk) /\ ps.lastOffset \in Int
  BY DEF Part
<1>2. /\ e \in Chunk /\ e.last = k
      /\ e.first = IF c = NoChunk THEN k ELSE c.first
      /\ e.tab = IF c = NoChunk THEN 0 ELSE c.tab
      /\ e.status = IF c = NoChunk THEN "buffered" ELSE c.status
  <2> DEFINE r == L[k + 1]
  <2>1. r \in Record /\ c \in Chunk
    BY <1>1
  <2> HIDE DEF r, c
  <2>2. /\ extend(c, k, r) \in Chunk /\ extend(c, k, r).last = k
        /\ extend(c, k, r).first = IF c = NoChunk THEN k ELSE c.first
        /\ extend(c, k, r).tab = IF c = NoChunk THEN 0 ELSE c.tab
        /\ extend(c, k, r).status = IF c = NoChunk THEN "buffered" ELSE c.status
    BY <2>1, ExtendType, SMTT(30)
  <2>3. e = extend(c, k, r)
    BY DEF r, c
  <2> HIDE DEF e
  <2> QED
    BY <2>2, <2>3
<1>3. new.open = e /\ new.closed = ps.closed /\ new.lastOffset = k
  BY <1>1 DEF Part
<1> HIDE DEF e
<1>4. e # NoChunk
  BY <1>2 DEF NoChunk
<1>5. InLog(L, e) /\ e.tab = 0 /\ e.status = "buffered"
  <2>1. CASE c = NoChunk
    BY <1>2, <2>1 DEF InLog
  <2>2. CASE c # NoChunk
    <3>1. InLog(L, c) /\ c.tab = 0 /\ c.status = "buffered" /\ c.last < k
      BY <2>2 DEF PartSound, OwnerSound
    <3> QED
      BY <1>1, <1>2, <2>2, <3>1 DEF InLog, Chunk
  <2> QED
    BY <2>1, <2>2
<1>6. PartSound(L, R, p, new)
  BY <1>3, <1>5 DEF PartSound
<1>7. cm <= e.first /\ \A i \in 1..Len(ps.closed) : ps.closed[i].last < e.first
  BY <1>1, <1>2 DEF OwnerSound
<1>8. \A i \in 1..Len(ps.closed) : cm <= ps.closed[i].first /\ ps.closed[i].last < k + 1
  <2> TAKE i \in 1..Len(ps.closed)
  <2>1. ps.closed[i] \in Chunk
    BY <1>1
  <2>2. ps.closed[i].last \in Int
    BY <2>1 DEF Chunk
  <2> QED
    BY <2>2 DEF OwnerSound
<1>9. ASSUME NEW o \in 0..k
      PROVE  \/ StoredIn(L, R, p, o)
             \/ \E i \in 1..Len(ps.closed) : Covers(ps.closed[i], o)
             \/ Covers(e, o)
  <2>1. CASE o = k
    BY <1>2, <1>5, <2>1 DEF Covers, InLog
  <2>2. CASE o # k
    <3>1. o \in 0..(k - 1)
      BY <2>2
    <3>2. c # NoChunk /\ Covers(c, o) => Covers(e, o)
      BY <1>2, <3>1 DEF Covers
    <3> QED
      BY <3>1, <3>2 DEF OwnerSound
  <2> QED
    BY <2>1, <2>2
<1>10. OwnerSound(L, R, p, new, k + 1, cm)
  BY <1>2, <1>3, <1>4, <1>7, <1>8, <1>9 DEF OwnerSound
<1> QED
  BY <1>3, <1>4, <1>6, <1>10

(* add: the record at the member's position joins the chunks. *)
LEMMA AddSound ==
  ASSUME NEW L \in Seq(Record), NEW R, NEW p, NEW ps \in Part,
         NEW k \in Nat, NEW cm \in Nat, k < Len(L),
         PartSound(L, R, p, ps), OwnerSound(L, R, p, ps, k, cm)
  PROVE  /\ add(ps, k, L[k + 1]) \in Part
         /\ PartSound(L, R, p, add(ps, k, L[k + 1]))
         /\ OwnerSound(L, R, p, add(ps, k, L[k + 1]), k + 1, cm)
<1> DEFINE r     == L[k + 1]
           cut   == IF ps.open # NoChunk /\ r.win > ps.open.win THEN close(ps) ELSE ps
           grown == [cut EXCEPT !.open = extend(cut.open, k, r), !.lastOffset = k]
<1>1. r \in Record
  OBVIOUS
<1>2. cut \in Part /\ PartSound(L, R, p, cut) /\ OwnerSound(L, R, p, cut, k, cm)
  BY CloseType, ClosePart, CloseOwner
<1>3. grown \in Part
  <2> HIDE DEF cut, r
  <2>1. cut.open \in Chunk
    BY <1>2 DEF Part
  <2>2. extend(cut.open, k, r) \in Chunk
    BY <1>1, <2>1, ExtendType
  <2>3. k \in Int
    OBVIOUS
  <2> QED
    BY <1>2, <2>2, <2>3 DEF Part
<1>4. /\ PartSound(L, R, p, grown) /\ OwnerSound(L, R, p, grown, k + 1, cm)
      /\ grown.open # NoChunk
  <2> HIDE DEF cut
  <2> QED
    BY <1>2, <1>3, GrowOpen
<1>5. add(ps, k, r) \in {grown, close(grown)}
  BY DEF add
<1> HIDE DEF grown
<1>6. /\ close(grown) \in Part /\ PartSound(L, R, p, close(grown))
      /\ OwnerSound(L, R, p, close(grown), k + 1, cm)
  BY <1>3, <1>4, CloseType, ClosePart, CloseOwner
<1> QED
  BY <1>3, <1>4, <1>5, <1>6

(* trim keeps the chunks sound. *)
LEMMA TrimPart ==
  ASSUME NEW L \in Seq(Record), NEW R, NEW p, NEW ps \in Part,
         NEW n \in 0..Len(ps.closed), PartSound(L, R, p, ps)
  PROVE  PartSound(L, R, p, trim(ps, n))
<1> DEFINE cl == trim(ps, n).closed
<1>1. ps.closed \in Seq(Chunk) /\ Len(ps.closed) \in Nat
  BY DEF Part
<1>2. ASSUME NEW i \in 1..(Len(ps.closed) - n)
      PROVE  ClosedSound(L, R, p, cl[i])
  <2> DEFINE c == ps.closed[i + n]
  <2>1. c \in Chunk /\ ClosedSound(L, R, p, c)
    BY <1>1 DEF PartSound
  <2>2. cl[i] = [c EXCEPT !.tab = 0]
    BY TrimType
  <2> HIDE DEF c, cl
  <2>3. cl[i].first = c.first /\ cl[i].last = c.last /\ cl[i].status = c.status /\ cl[i].tab = 0
    BY <2>1, <2>2 DEF Chunk
  <2> QED
    BY <2>1, <2>3 DEF ClosedSound, TableStored, InLog
<1>3. Len(cl) = Len(ps.closed) - n /\ trim(ps, n).open = ps.open
  BY TrimType
<1> QED
  BY <1>2, <1>3 DEF PartSound

(* A chunk marked stored has every row of every record it covers in the store. *)
LEMMA StoredChunk ==
  ASSUME NEW L \in Seq(Record), NEW R, NEW p, NEW c \in Chunk,
         ClosedSound(L, R, p, c), c.status = "stored", NEW o \in Int, Covers(c, o)
  PROVE  StoredIn(L, R, p, o)
<1> SUFFICES ASSUME NEW t \in L[o + 1].tables PROVE <<p, o, t>> \in R
  BY DEF StoredIn
<1>1. o \in c.first..c.last /\ o + 1 \in 1..Len(L)
  BY DEF ClosedSound, InLog, Covers, Chunk
<1>2. L[o + 1] \in [win : Nat, size : Nat, tables : SUBSET Table]
  BY <1>1, ProcessorAssumption
<1>3. PICK i \in 1..Len(Tables) : t = Tables[i]
  BY <1>2 DEF Table
<1> QED
  BY <1>1, <1>3 DEF ClosedSound, TableStored

(***************************************************************************)
(* flushClosed: with n stored chunks at the head of closed released, what  *)
(* was read is still stored or in a chunk, and every record up to the last *)
(* of the n chunks is stored, so the group may resume after it.            *)
(***************************************************************************)
LEMMA TrimOwner ==
  ASSUME NEW L \in Seq(Record), NEW R, NEW p, NEW ps \in Part,
         NEW k \in Nat, NEW cm \in Nat, NEW n \in 0..Len(ps.closed),
         PartSound(L, R, p, ps), OwnerSound(L, R, p, ps, k, cm), StoredPrefix(ps.closed, n)
  PROVE  /\ OwnerSound(L, R, p, trim(ps, n), k, cm)
         /\ n > 0 =>
              LET up == ps.closed[n].last + 1 IN
              /\ up \in Nat /\ cm <= up /\ up <= k
              /\ OwnerSound(L, R, p, trim(ps, n), k, up)
              /\ \A o \in 0..(up - 1) : StoredIn(L, R, p, o)
<1> DEFINE cl  == ps.closed
           new == trim(ps, n)
           N   == Len(ps.closed)
<1>1. cl \in Seq(Chunk) /\ N \in Nat /\ ps.lastOffset \in Int /\ ps.open \in Chunk
  BY DEF Part
<1>2. \A i \in 1..N : cl[i] \in Chunk /\ cl[i].first \in Int /\ cl[i].last \in Int
  <2>1. \A i \in 1..N : cl[i] \in Chunk
    BY <1>1
  <2> QED
    BY <2>1 DEF Chunk
<1>3. /\ new.open = ps.open /\ new.lastOffset = ps.lastOffset
      /\ Len(new.closed) = N - n
      /\ \A i \in 1..(N - n) : /\ i + n \in 1..N
                              /\ new.closed[i].first = cl[i + n].first
                              /\ new.closed[i].last = cl[i + n].last
  <2>1. \A i \in 1..(N - n) : i + n \in 1..N /\ new.closed[i] = [cl[i + n] EXCEPT !.tab = 0]
    <3>1. \A i \in 1..(N - n) : i + n \in 1..N
      BY <1>1
    <3> QED
      BY <3>1, TrimType
  <2>2. \A i \in 1..(N - n) : cl[i + n] \in Chunk
    BY <1>2, <2>1
  <2>3. \A i \in 1..(N - n) : /\ new.closed[i].first = cl[i + n].first
                              /\ new.closed[i].last = cl[i + n].last
    <3>1. \A c \in Chunk : [c EXCEPT !.tab = 0].first = c.first /\ [c EXCEPT !.tab = 0].last = c.last
      BY DEF Chunk
    <3> QED
      BY <2>1, <2>2, <3>1
  <2> QED
    BY <2>1, <2>3, TrimType
<1> HIDE DEF new
<1>4. ASSUME NEW i \in 1..n, NEW o \in Int, Covers(cl[i], o)
      PROVE  StoredIn(L, R, p, o)
  <2>1. i \in 1..N /\ cl[i].status = "stored"
    BY <1>1 DEF StoredPrefix
  <2>2. cl[i] \in Chunk /\ ClosedSound(L, R, p, cl[i])
    BY <1>2, <2>1 DEF PartSound
  <2> QED
    BY <1>4, <2>1, <2>2, StoredChunk
<1>5. \A i \in 1..(N - n) : new.closed[i].last < k
  BY <1>3 DEF OwnerSound
<1>6. \A i, j \in 1..(N - n) : i < j => new.closed[i].last < new.closed[j].first
  <2> TAKE i, j \in 1..(N - n)
  <2>1. i < j => i + n < j + n
    BY <1>1
  <2> QED
    BY <1>3, <2>1 DEF OwnerSound
<1>7. new.open # NoChunk =>
        new.open.last < k /\ \A i \in 1..(N - n) : new.closed[i].last < new.open.first
  BY <1>3 DEF OwnerSound
<1>8. ASSUME NEW o \in 0..(k - 1)
      PROVE  \/ StoredIn(L, R, p, o)
             \/ \E i \in 1..(N - n) : Covers(new.closed[i], o)
             \/ new.open # NoChunk /\ Covers(new.open, o)
  <2>1. ASSUME NEW i \in 1..N, Covers(cl[i], o), i > n
        PROVE  \E j \in 1..(N - n) : Covers(new.closed[j], o)
    <3>1. i - n \in 1..(N - n) /\ (i - n) + n = i
      BY <1>1, <2>1
    <3>2. Covers(new.closed[i - n], o)
      BY <1>3, <2>1, <3>1 DEF Covers
    <3> QED
      BY <3>1, <3>2
  <2>2. ASSUME NEW i \in 1..N, Covers(cl[i], o), ~(i > n)
        PROVE  StoredIn(L, R, p, o)
    BY <1>1, <1>4, <2>2
  <2> QED
    BY <1>3, <2>1, <2>2 DEF OwnerSound
<1>9. ASSUME NEW c \in Nat, c <= k,
             \A i \in 1..(N - n) : c <= new.closed[i].first,
             new.open # NoChunk => c <= new.open.first
      PROVE  OwnerSound(L, R, p, new, k, c)
  <2>1. new.lastOffset < k
    BY <1>3 DEF OwnerSound
  <2> QED
    BY <1>3, <1>5, <1>6, <1>7, <1>8, <1>9, <2>1 DEF OwnerSound
<1>10. OwnerSound(L, R, p, new, k, cm)
  BY <1>3, <1>9 DEF OwnerSound
<1>11. ASSUME n > 0
       PROVE  LET up == cl[n].last + 1 IN
              /\ up \in Nat /\ cm <= up /\ up <= k
              /\ OwnerSound(L, R, p, new, k, up)
              /\ \A o \in 0..(up - 1) : StoredIn(L, R, p, o)
  <2> DEFINE up == cl[n].last + 1
  <2>1. n \in 1..N
    BY <1>1, <1>11
  <2>2. InLog(L, cl[n]) /\ cm <= cl[n].first /\ cl[n].last < k
    BY <2>1 DEF PartSound, ClosedSound, OwnerSound
  <2>3. up \in Nat /\ cm <= up /\ up <= k /\ cl[n].last \in Int
    <3> DEFINE x == cl[n].first
               y == cl[n].last
    <3>1. x \in Int /\ y \in Int
      BY <1>2, <2>1
    <3>2. 0 <= x /\ x <= y /\ cm <= x /\ y < k
      BY <2>2 DEF InLog
    <3> HIDE DEF x, y, cl
    <3>3. y + 1 \in Nat /\ cm <= y + 1 /\ y + 1 <= k
      BY <3>1, <3>2
    <3> QED
      BY <3>1, <3>3 DEF y
  <2>4. \A i \in 1..(N - n) : up <= new.closed[i].first
    <3> TAKE i \in 1..(N - n)
    <3>1. i + n \in 1..N /\ n < i + n
      BY <1>1, <1>3
    <3> DEFINE y == cl[n].last
               z == cl[i + n].first
    <3>2. y < z /\ z \in Int /\ y \in Int
      BY <1>2, <2>1, <3>1 DEF OwnerSound
    <3>3. new.closed[i].first = z
      BY <1>3
    <3> HIDE DEF y, z, cl
    <3>4. y + 1 <= z
      BY <3>2
    <3> QED
      BY <3>3, <3>4 DEF y
  <2>5. new.open # NoChunk => up <= new.open.first
    <3>1. new.open.first \in Int
      BY <1>1, <1>3 DEF Chunk
    <3> QED
      BY <1>3, <2>1, <2>3, <3>1 DEF OwnerSound
  <2> HIDE DEF up
  <2>6. OwnerSound(L, R, p, new, k, up)
    BY <1>9, <2>3, <2>4, <2>5
  <2>7. ASSUME NEW o \in 0..(up - 1)
        PROVE  StoredIn(L, R, p, o)
    <3>1. o \in 0..(k - 1) /\ o \in Int /\ o < up
      BY <2>3
    <3>2. ASSUME NEW i \in 1..(N - n), Covers(new.closed[i], o)
          PROVE  FALSE
      <4>1. new.closed[i].first \in Int
        BY <1>2, <1>3
      <4>2. up <= new.closed[i].first /\ new.closed[i].first <= o
        BY <2>4, <3>2 DEF Covers
      <4> QED
        BY <2>3, <3>1, <4>1, <4>2
    <3>3. ~(new.open # NoChunk /\ Covers(new.open, o))
      <4>1. new.open.first \in Int
        BY <1>1, <1>3 DEF Chunk
      <4> QED
        BY <2>3, <2>5, <3>1, <4>1 DEF Covers
    <3> QED
      BY <1>8, <3>1, <3>2, <3>3
  <2> QED
    BY <2>3, <2>6, <2>7 DEF up
<1> QED
  BY <1>10, <1>11 DEF new

-----------------------------------------------------------------------------
(* The inductive invariant, and what a step that leaves its parts alone keeps. *)

IInv == TypeOK /\ PipelineSound

LEMMA SpendType ==
  ASSUME budget \in [Fault -> Nat], NEW f \in Fault, Spend(f)
  PROVE  budget' \in [Fault -> Nat]
<1>1. budget[f] - 1 \in Nat
  BY DEF Spend
<1> QED
  BY <1>1 DEF Spend

LEMMA StoreFrame ==
  ASSUME TablesInOrder, StoreSound, UNCHANGED <<log, rows, tokens, inflight>>
  PROVE  TablesInOrder' /\ StoreSound'
<1>1. TablesInOrder'
  BY DEF TablesInOrder, Rec
<1>2. StoreSound'
  BY DEF StoreSound, BlockRows, Rec, End
<1> QED
  BY <1>1, <1>2

LEMMA ChunksFrame ==
  ASSUME ChunksSound, UNCHANGED <<log, rows, parts>>
  PROVE  ChunksSound'
BY DEF ChunksSound

LEMMA CommittedFrame ==
  ASSUME CommittedStored, UNCHANGED <<log, rows, committed>>
  PROVE  CommittedStored'
BY DEF CommittedStored, Stored, End

(* A partition nothing is buffered for is sound at the position it resumes from. *)
LEMMA NewPartSound ==
  ASSUME NEW L \in Seq(Record), NEW R, NEW p, NEW k \in Nat,
         \A o \in 0..(k - 1) : StoredIn(L, R, p, o)
  PROVE  PartSound(L, R, p, NewPart) /\ OwnerSound(L, R, p, NewPart, k, k)
<1>1. NewPart.closed = <<>> /\ NewPart.open = NoChunk /\ NewPart.lastOffset = -1
  BY DEF NewPart
<1>2. Len(NewPart.closed) = 0
  BY <1>1
<1>3. PartSound(L, R, p, NewPart)
  BY <1>1, <1>2 DEF PartSound
<1>4. OwnerSound(L, R, p, NewPart, k, k)
  BY <1>1, <1>2 DEF OwnerSound
<1> QED
  BY <1>3, <1>4

(* What a member keeps of a partition after applyRevocations is sound. *)
LEMMA KeptSound ==
  ASSUME TypeOK, ChunksSound, NEW m \in Member, NEW p \in Partition
  PROVE  /\ applyRevocations(m, p) \in Part
         /\ PartSound(log[p], rows, p, applyRevocations(m, p))
<1>1. log[p] \in Seq(Record) /\ parts[m][p] \in Part
  BY DEF TypeOK, GroupTypeOK
<1>2. 0 \in Nat /\ \A o \in 0..(0 - 1) : StoredIn(log[p], rows, p, o)
  OBVIOUS
<1>3. PartSound(log[p], rows, p, NewPart)
  BY <1>1, <1>2, NewPartSound
<1> QED
  BY <1>1, <1>3, NoneType DEF applyRevocations, ChunksSound

(* A member may give up its claim on the committed offset. *)
LEMMA LowerFloor ==
  ASSUME NEW L \in Seq(Record), NEW R, NEW p, NEW ps \in Part, NEW k \in Nat, NEW cm \in Nat,
         PartSound(L, R, p, ps), OwnerSound(L, R, p, ps, k, cm)
  PROVE  OwnerSound(L, R, p, ps, k, 0)
<1>1. \A i \in 1..Len(ps.closed) : 0 <= ps.closed[i].first
  BY DEF PartSound, ClosedSound, InLog
<1>2. ps.open # NoChunk => 0 <= ps.open.first
  BY DEF PartSound, InLog
<1> QED
  BY <1>1, <1>2 DEF OwnerSound

-----------------------------------------------------------------------------
(* One lemma per action. *)

LEMMA ProduceStep ==
  ASSUME IInv, NEW q \in Partition, ProduceRecord(q)
  PROVE  IInv'
<1> USE DEF IInv, PipelineSound
<1>1. PICK r \in Record : log' = [log EXCEPT ![q] = Append(@, r)]
  BY DEF ProduceRecord, Produce
<1>2. UNCHANGED <<committed, owner, pos, lost, gone, localVars, storeVars, timed, budget>>
  BY DEF ProduceRecord, Produce
<1>3. TypeOK'
  BY <1>1, <1>2 DEF TypeOK, GroupTypeOK, localVars, storeVars
<1>4. \A p \in Partition : /\ log[p] \in Seq(Record) /\ log'[p] \in Seq(Record)
                           /\ Continues(log[p], log'[p])
  BY <1>1 DEF TypeOK, GroupTypeOK, Continues
<1>5. \A p \in Partition : \A o \in 0..(Len(log[p]) - 1) :
         o < Len(log'[p]) /\ log'[p][o + 1] = log[p][o + 1]
  BY <1>4 DEF Continues
<1>6. CommittedStored'
  <2> SUFFICES ASSUME NEW p \in Partition, NEW o \in 0..(committed[p] - 1)
               PROVE  o < Len(log'[p]) /\ StoredIn(log'[p], rows, p, o)
    BY <1>2 DEF CommittedStored, Stored, End, storeVars
  <2>1. o < Len(log[p]) /\ StoredIn(log[p], rows, p, o) /\ committed[p] \in Nat
    BY DEF CommittedStored, Stored, End, TypeOK, GroupTypeOK
  <2>2. o \in 0..(Len(log[p]) - 1)
    BY <1>4, <2>1
  <2> QED
    BY <1>5, <2>1, <2>2 DEF StoredIn
<1>7. TablesInOrder'
  <2>1. \A x \in rows : x[1] \in Partition /\ x[2] \in 0..(Len(log[x[1]]) - 1)
    BY DEF StoreSound, End, TypeOK
  <2>2. \A x \in rows : log'[x[1]][x[2] + 1] = log[x[1]][x[2] + 1]
    BY <1>5, <2>1
  <2>3. UNCHANGED rows
    BY <1>2 DEF storeVars
  <2> QED
    BY <2>2, <2>3 DEF TablesInOrder, Rec
<1>8. ChunksSound'
  <2> SUFFICES ASSUME NEW m \in Member, NEW p \in Partition
               PROVE  PartSound(log'[p], rows, p, parts[m][p])
    BY <1>2 DEF ChunksSound, localVars, storeVars
  <2>1. parts[m][p] \in Part /\ PartSound(log[p], rows, p, parts[m][p])
    BY DEF ChunksSound, TypeOK
  <2> QED
    BY <1>4, <2>1, GrowPart
<1>9. StoreSound'
  <2>1. ASSUME NEW b \in tokens \cup inflight
        PROVE  b.p \in Partition /\ b.first \in Int /\ b.last \in Int /\ InLog(log[b.p], b)
    BY DEF TypeOK, Block, StoreSound
  <2>2. ASSUME NEW b \in tokens
        PROVE  InLog(log'[b.p], b) /\ BlockRows(b)' \subseteq rows
    <3>1. \A x \in b.first..b.last : log'[b.p][x + 1] = log[b.p][x + 1]
      <4> TAKE x \in b.first..b.last
      <4>1. b.p \in Partition /\ x \in 0..(Len(log[b.p]) - 1)
        BY <1>4, <2>1 DEF InLog
      <4> QED
        BY <1>5, <4>1
    <3>2. BlockRows(b)' = BlockRows(b)
      BY <3>1 DEF BlockRows, Rec
    <3> QED
      BY <1>4, <2>1, <3>2, GrowInLog DEF StoreSound
  <2>3. ASSUME NEW b \in inflight
        PROVE  InLog(log'[b.p], b) /\ EarlierStored(log'[b.p], rows, b)
    <3>1. InLog(log'[b.p], b)
      BY <1>4, <2>1, GrowInLog
    <3>2. \A i : TableStored(log[b.p], rows, b.p, b, i) => TableStored(log'[b.p], rows, b.p, b, i)
      BY <1>4, <2>1, GrowTable
    <3> QED
      BY <3>1, <3>2 DEF StoreSound, EarlierStored
  <2>4. \A x \in rows : x[2] \in 0..(Len(log'[x[1]]) - 1)
    BY <1>4 DEF StoreSound, End, Continues, TypeOK
  <2> QED
    BY <1>2, <2>2, <2>3, <2>4 DEF StoreSound, End, storeVars
<1>10. GroupSound'
  <2>1. \A m \in Member, p \in Partition : pos[m][p] + batch[m][p] <= Len(log'[p])
    <3> TAKE m \in Member, p \in Partition
    <3>1. pos[m][p] \in Nat /\ batch[m][p] \in Nat /\ pos[m][p] + batch[m][p] <= Len(log[p])
      BY DEF GroupSound, End, TypeOK, GroupTypeOK
    <3> QED
      BY <1>4, <3>1 DEF Continues
  <2> QED
    BY <1>2, <2>1 DEF GroupSound, Owned, Fetching, End, localVars
<1>11. OwnersSound'
  <2> SUFFICES ASSUME NEW m \in Member, NEW p \in Fetching(m)
               PROVE  OwnerSound(log'[p], rows, p, applyRevocations(m, p), pos[m][p], Floor(m, p))
    BY <1>2 DEF OwnersSound, Fetching, Owned, Floor, applyRevocations, localVars, storeVars
  <2>1. /\ p \in Partition /\ pos[m][p] \in Nat /\ Floor(m, p) \in Nat
        /\ applyRevocations(m, p) \in Part
    BY KeptSound DEF TypeOK, GroupTypeOK, Fetching, Owned, Floor
  <2>2. pos[m][p] <= Len(log[p])
    BY <2>1 DEF GroupSound, End, TypeOK, GroupTypeOK
  <2> QED
    BY <1>4, <2>1, <2>2, GrowOwner DEF OwnersSound
<1> QED
  BY <1>3, <1>6, <1>7, <1>8, <1>9, <1>10, <1>11

LEMMA AssignStep ==
  ASSUME IInv, NEW m \in Member, NEW p \in Partition, AssignPartition(m, p)
  PROVE  IInv'
<1> USE DEF IInv, PipelineSound
<1>1. /\ pc[m] = "poll" /\ owner[p] = NoMember /\ lost[m] = {}
      /\ owner' = [owner EXCEPT ![p] = m]
      /\ pos' = [pos EXCEPT ![m][p] = committed[p]]
      /\ UNCHANGED <<log, committed, lost, gone, localVars, storeVars, timed, budget>>
  BY DEF AssignPartition, Assign
<1>2. TypeOK'
  BY <1>1 DEF TypeOK, GroupTypeOK, localVars, storeVars
<1>3. CommittedStored' /\ TablesInOrder' /\ StoreSound' /\ ChunksSound'
  BY <1>1, CommittedFrame, StoreFrame, ChunksFrame DEF localVars, storeVars
<1>4. p \notin Fetching(m) /\ NoMember \notin Member
  BY <1>1, GroupAssumption DEF Fetching, Owned
<1>5. committed[p] \in Nat /\ committed[p] <= Len(log[p])
  <2>1. committed[p] \in Nat /\ Len(log[p]) \in Nat
    BY DEF TypeOK, GroupTypeOK
  <2>2. CASE committed[p] = 0
    BY <2>1, <2>2
  <2>3. CASE committed[p] # 0
    <3>1. committed[p] - 1 \in 0..(committed[p] - 1)
      BY <2>1, <2>3
    <3> QED
      BY <2>1, <3>1 DEF CommittedStored, End
  <2> QED
    BY <2>2, <2>3
<1>6. GroupSound'
  <2> SUFFICES ASSUME NEW n \in Member PROVE
        /\ lost[n] # {} => Owned(n)' = {}
        /\ gone[n] # {} => pc[n] = "poll"
        /\ pc[n] = "down" => Fetching(n)' = {}
        /\ \A q \in Partition :
             /\ pos'[n][q] + batch[n][q] <= Len(log[q])
             /\ q \notin Fetching(n)' \/ pc[n] \in {"poll", "flush"} => batch[n][q] = 0
             /\ q \notin Fetching(n)' \cup gone[n] => parts[n][q] = NewPart
    BY <1>1 DEF GroupSound, End, localVars
  <2>1. n # m => Owned(n)' = Owned(n) /\ Fetching(n)' = Fetching(n)
    BY <1>1, <1>4 DEF Owned, Fetching, TypeOK, GroupTypeOK
  <2>2. n = m => Fetching(n)' = Fetching(n) \cup {p}
    BY <1>1 DEF Owned, Fetching, TypeOK, GroupTypeOK
  <2>3. ASSUME NEW q \in Partition PROVE pos'[n][q] + batch[n][q] <= Len(log[q])
    <3>1. CASE n = m /\ q = p
      <4>1. pos'[n][q] = committed[p] /\ batch[n][q] = 0
        BY <1>1, <3>1 DEF GroupSound, TypeOK, GroupTypeOK
      <4> QED
        BY <1>5, <3>1, <4>1
    <3>2. CASE ~(n = m /\ q = p)
      BY <1>1, <3>2 DEF GroupSound, End, TypeOK, GroupTypeOK
    <3> QED
      BY <3>1, <3>2
  <2> QED
    BY <1>1, <2>1, <2>2, <2>3 DEF GroupSound
<1>7. OwnersSound'
  <2> SUFFICES ASSUME NEW n \in Member, NEW q \in Fetching(n)'
               PROVE  OwnerSound(log[q], rows, q, applyRevocations(n, q), pos'[n][q], Floor(n, q)')
    BY <1>1 DEF OwnersSound, applyRevocations, localVars, storeVars
  <2>1. CASE n = m /\ q = p
    <3>1. applyRevocations(m, p) = NewPart
      BY <1>4, <2>1 DEF GroupSound, applyRevocations
    <3>2. pos'[n][q] = committed[p] /\ Floor(n, q)' = committed[p]
      BY <1>1, <2>1 DEF Floor, TypeOK, GroupTypeOK
    <3>3. \A o \in 0..(committed[p] - 1) : StoredIn(log[p], rows, p, o)
      BY DEF CommittedStored, Stored
    <3>4. log[p] \in Seq(Record)
      BY DEF TypeOK, GroupTypeOK
    <3> QED
      BY <1>5, <2>1, <3>1, <3>2, <3>3, <3>4, NewPartSound
  <2>2. CASE ~(n = m /\ q = p)
    <3>1. q \in Fetching(n) /\ pos'[n][q] = pos[n][q]
      BY <1>1, <2>2 DEF Fetching, Owned, TypeOK, GroupTypeOK
    <3>2. Floor(n, q)' = Floor(n, q)
      BY <1>1, <1>4, <2>2, <3>1 DEF Floor, Fetching, Owned, TypeOK, GroupTypeOK
    <3> QED
      BY <3>1, <3>2 DEF OwnersSound
  <2> QED
    BY <2>1, <2>2
<1> QED
  BY <1>2, <1>3, <1>6, <1>7

LEMMA RevokeStep ==
  ASSUME IInv, NEW m \in Member, NEW p \in Partition, RevokePartition(m, p)
  PROVE  IInv'
<1> USE DEF IInv, PipelineSound
<1>1. /\ pc[m] = "poll" /\ owner[p] = m
      /\ owner' = [owner EXCEPT ![p] = NoMember]
      /\ pos' = [pos EXCEPT ![m][p] = 0]
      /\ gone' = [gone EXCEPT ![m] = @ \cup {p}]
      /\ UNCHANGED <<log, committed, lost, localVars, storeVars, timed>>
  BY DEF RevokePartition, Revoke
<1>2. TypeOK'
  <2>1. budget' \in [Fault -> Nat]
    BY SpendType DEF RevokePartition, TypeOK, Fault
  <2> QED
    BY <1>1, <2>1 DEF TypeOK, GroupTypeOK, localVars, storeVars
<1>3. CommittedStored' /\ TablesInOrder' /\ StoreSound' /\ ChunksSound'
  BY <1>1, CommittedFrame, StoreFrame, ChunksFrame DEF localVars, storeVars
<1>4. lost[m] = {} /\ NoMember \notin Member
  BY <1>1, GroupAssumption DEF GroupSound, Owned
<1>5. /\ \A n \in Member : n # m => Owned(n)' = Owned(n) /\ Fetching(n)' = Fetching(n) /\ gone'[n] = gone[n]
      /\ Owned(m)' = Owned(m) \ {p} /\ Fetching(m)' = Fetching(m) \ {p} /\ gone'[m] = gone[m] \cup {p}
  BY <1>1, <1>4 DEF Owned, Fetching, TypeOK, GroupTypeOK
<1>6. GroupSound'
  <2> SUFFICES ASSUME NEW n \in Member PROVE
        /\ lost[n] # {} => Owned(n)' = {}
        /\ gone'[n] # {} => pc[n] = "poll"
        /\ pc[n] = "down" => Fetching(n)' = {}
        /\ \A q \in Partition :
             /\ pos'[n][q] + batch[n][q] <= Len(log[q])
             /\ q \notin Fetching(n)' \/ pc[n] \in {"poll", "flush"} => batch[n][q] = 0
             /\ q \notin Fetching(n)' \cup gone'[n] => parts[n][q] = NewPart
    BY <1>1 DEF GroupSound, End, localVars
  <2>3. ASSUME NEW q \in Partition PROVE pos'[n][q] + batch[n][q] <= Len(log[q])
    <3>1. CASE n = m /\ q = p
      <4>1. pos'[n][q] = 0 /\ batch[n][q] = 0 /\ Len(log[q]) \in Nat
        BY <1>1, <3>1 DEF GroupSound, TypeOK, GroupTypeOK
      <4> QED
        BY <4>1
    <3>2. CASE ~(n = m /\ q = p)
      BY <1>1, <3>2 DEF GroupSound, End, TypeOK, GroupTypeOK
    <3> QED
      BY <3>1, <3>2
  <2> QED
    BY <1>1, <1>4, <1>5, <2>3 DEF GroupSound
<1>7. OwnersSound'
  <2> SUFFICES ASSUME NEW n \in Member, NEW q \in Fetching(n)'
               PROVE  OwnerSound(log[q], rows, q, applyRevocations(n, q)', pos'[n][q], Floor(n, q)')
    BY <1>1 DEF OwnersSound, localVars, storeVars
  <2>1. q \in Fetching(n) /\ ~(n = m /\ q = p) /\ applyRevocations(n, q)' = applyRevocations(n, q)
    BY <1>1, <1>5 DEF applyRevocations, localVars
  <2>2. pos'[n][q] = pos[n][q]
    BY <1>1, <2>1 DEF TypeOK, GroupTypeOK
  <2>3. Floor(n, q)' = Floor(n, q)
    BY <1>1, <1>4, <2>1 DEF Floor, Fetching, Owned, TypeOK, GroupTypeOK
  <2> QED
    BY <2>1, <2>2, <2>3 DEF OwnersSound
<1> QED
  BY <1>2, <1>3, <1>6, <1>7

LEMMA ExpelStep ==
  ASSUME IInv, NEW m \in Member, ExpelMember(m)
  PROVE  IInv'
<1> USE DEF IInv, PipelineSound
<1>1. /\ pc[m] # "down" /\ Owned(m) # {}
      /\ owner' = [p \in Partition |-> IF owner[p] = m THEN NoMember ELSE owner[p]]
      /\ lost' = [lost EXCEPT ![m] = Owned(m)]
      /\ UNCHANGED <<log, committed, pos, gone, localVars, storeVars, timed>>
  BY DEF ExpelMember, Expel
<1>2. TypeOK'
  <2>1. budget' \in [Fault -> Nat]
    BY SpendType DEF ExpelMember, TypeOK, Fault
  <2> QED
    BY <1>1, <2>1 DEF TypeOK, GroupTypeOK, localVars, storeVars, Owned
<1>3. CommittedStored' /\ TablesInOrder' /\ StoreSound' /\ ChunksSound'
  BY <1>1, CommittedFrame, StoreFrame, ChunksFrame DEF localVars, storeVars
<1>4. lost[m] = {} /\ NoMember \notin Member
  BY <1>1, GroupAssumption DEF GroupSound
<1>5. /\ \A n \in Member : n # m => Owned(n)' = Owned(n) /\ lost'[n] = lost[n]
      /\ Owned(m)' = {}
      /\ \A n \in Member : Fetching(n)' = Fetching(n)
  BY <1>1, <1>4 DEF Owned, Fetching, TypeOK, GroupTypeOK
<1>6. GroupSound'
  BY <1>1, <1>5 DEF GroupSound, End, localVars
<1>7. OwnersSound'
  <2> SUFFICES ASSUME NEW n \in Member, NEW q \in Fetching(n)
               PROVE  OwnerSound(log[q], rows, q, applyRevocations(n, q), pos[n][q], Floor(n, q)')
    BY <1>1, <1>5 DEF OwnersSound, applyRevocations, localVars, storeVars
  <2>1. OwnerSound(log[q], rows, q, applyRevocations(n, q), pos[n][q], Floor(n, q))
    BY DEF OwnersSound
  <2>2. /\ q \in Partition /\ log[q] \in Seq(Record) /\ applyRevocations(n, q) \in Part
        /\ pos[n][q] \in Nat /\ Floor(n, q) \in Nat
        /\ PartSound(log[q], rows, q, applyRevocations(n, q))
    BY KeptSound DEF Fetching, Owned, Floor, TypeOK, GroupTypeOK
  <2>3. Floor(n, q)' = Floor(n, q) \/ Floor(n, q)' = 0
    BY <1>1, <1>4, <2>2 DEF Floor
  <2> QED
    BY <2>1, <2>2, <2>3, LowerFloor
<1> QED
  BY <1>2, <1>3, <1>6, <1>7

LEMMA NoticeStep ==
  ASSUME IInv, NEW m \in Member, NoticeLoss(m)
  PROVE  IInv'
<1> USE DEF IInv, PipelineSound
<1>1. /\ pc[m] = "poll" /\ lost[m] # {}
      /\ gone' = [gone EXCEPT ![m] = @ \cup lost[m]]
      /\ lost' = [lost EXCEPT ![m] = {}]
      /\ pos' = [pos EXCEPT ![m] = [p \in Partition |-> 0]]
      /\ UNCHANGED <<log, committed, owner, localVars, storeVars, timed, budget>>
  BY DEF NoticeLoss, Notice
<1>2. TypeOK'
  BY <1>1 DEF TypeOK, GroupTypeOK, localVars, storeVars
<1>3. CommittedStored' /\ TablesInOrder' /\ StoreSound' /\ ChunksSound'
  BY <1>1, CommittedFrame, StoreFrame, ChunksFrame DEF localVars, storeVars
<1>4. Owned(m) = {}
  BY <1>1 DEF GroupSound
<1>5. /\ \A n \in Member : n # m => /\ Fetching(n)' = Fetching(n) /\ gone'[n] = gone[n]
                                    /\ lost'[n] = lost[n] /\ pos'[n] = pos[n]
      /\ \A n \in Member : Owned(n)' = Owned(n)
      /\ Fetching(m)' = {} /\ gone'[m] = gone[m] \cup Fetching(m)
      /\ \A q \in Partition : pos'[m][q] = 0
  BY <1>1, <1>4 DEF Owned, Fetching, TypeOK, GroupTypeOK
<1>6. GroupSound'
  <2> SUFFICES ASSUME NEW n \in Member PROVE
        /\ lost'[n] # {} => Owned(n)' = {}
        /\ gone'[n] # {} => pc[n] = "poll"
        /\ pc[n] = "down" => Fetching(n)' = {}
        /\ \A q \in Partition :
             /\ pos'[n][q] + batch[n][q] <= Len(log[q])
             /\ q \notin Fetching(n)' \/ pc[n] \in {"poll", "flush"} => batch[n][q] = 0
             /\ q \notin Fetching(n)' \cup gone'[n] => parts[n][q] = NewPart
    BY <1>1 DEF GroupSound, End, localVars
  <2>1. CASE n # m
    BY <1>5, <2>1 DEF GroupSound, End
  <2>2. CASE n = m
    <3>1. \A q \in Partition : pos'[n][q] + batch[n][q] <= Len(log[q])
      <4> TAKE q \in Partition
      <4>1. batch[n][q] = 0 /\ Len(log[q]) \in Nat
        BY <1>1, <2>2 DEF GroupSound, TypeOK, GroupTypeOK
      <4> QED
        BY <1>5, <2>2, <4>1
    <3>2. lost'[n] = {}
      BY <1>1, <2>2 DEF TypeOK, GroupTypeOK
    <3> QED
      BY <1>1, <1>5, <2>2, <3>1, <3>2 DEF GroupSound
  <2> QED
    BY <2>1, <2>2
<1>7. OwnersSound'
  BY <1>1, <1>5 DEF OwnersSound, localVars, storeVars, Floor, applyRevocations
<1> QED
  BY <1>2, <1>3, <1>6, <1>7

(* A process that ends, by Crash or Exit, leaves nothing behind. *)
LEMMA LeaveStep ==
  ASSUME IInv, NEW m \in Member, pc' = [pc EXCEPT ![m] = "down"], Leave(m), Fresh(m),
         UNCHANGED <<storeVars, timed>>, budget' \in [Fault -> Nat]
  PROVE  IInv'
<1> USE DEF IInv, PipelineSound
<1>1. /\ owner' = [p \in Partition |-> IF owner[p] = m THEN NoMember ELSE owner[p]]
      /\ lost' = [lost EXCEPT ![m] = {}]
      /\ gone' = [gone EXCEPT ![m] = {}]
      /\ pos' = [pos EXCEPT ![m] = [p \in Partition |-> 0]]
      /\ UNCHANGED <<log, committed>>
  BY DEF Leave
<1>2. /\ parts' = [parts EXCEPT ![m] = [p \in Partition |-> NewPart]]
      /\ batch' = [batch EXCEPT ![m] = [p \in Partition |-> 0]]
      /\ cur' = [cur EXCEPT ![m] = NoPartition]
      /\ cancelled' = cancelled \ {m}
  BY DEF Fresh
<1>3. TypeOK'
  BY <1>1, <1>2, NoneType DEF TypeOK, GroupTypeOK, storeVars
<1>4. CommittedStored' /\ TablesInOrder' /\ StoreSound'
  BY <1>1, CommittedFrame, StoreFrame DEF storeVars
<1>5. NoMember \notin Member
  BY GroupAssumption
<1>6. /\ \A n \in Member : n # m => /\ Owned(n)' = Owned(n) /\ lost'[n] = lost[n] /\ gone'[n] = gone[n]
                                    /\ Fetching(n)' = Fetching(n) /\ pos'[n] = pos[n]
                                    /\ parts'[n] = parts[n] /\ batch'[n] = batch[n] /\ pc'[n] = pc[n]
      /\ Owned(m)' = {} /\ lost'[m] = {} /\ gone'[m] = {} /\ Fetching(m)' = {}
      /\ \A q \in Partition : pos'[m][q] = 0 /\ batch'[m][q] = 0 /\ parts'[m][q] = NewPart
  BY <1>1, <1>2, <1>5 DEF Owned, Fetching, TypeOK, GroupTypeOK
<1>7. ChunksSound'
  <2> SUFFICES ASSUME NEW n \in Member, NEW q \in Partition
               PROVE  PartSound(log[q], rows, q, parts'[n][q])
    BY <1>1 DEF ChunksSound, storeVars
  <2>1. log[q] \in Seq(Record)
    BY DEF TypeOK, GroupTypeOK
  <2>2. PartSound(log[q], rows, q, NewPart)
    <3>1. 0 \in Nat /\ \A o \in 0..(0 - 1) : StoredIn(log[q], rows, q, o)
      OBVIOUS
    <3> QED
      BY <2>1, <3>1, NewPartSound
  <2> QED
    BY <1>6, <2>2 DEF ChunksSound
<1>8. GroupSound'
  <2> SUFFICES ASSUME NEW n \in Member PROVE
        /\ lost'[n] # {} => Owned(n)' = {}
        /\ gone'[n] # {} => pc'[n] = "poll"
        /\ pc'[n] = "down" => Fetching(n)' = {}
        /\ \A q \in Partition :
             /\ pos'[n][q] + batch'[n][q] <= Len(log[q])
             /\ q \notin Fetching(n)' \/ pc'[n] \in {"poll", "flush"} => batch'[n][q] = 0
             /\ q \notin Fetching(n)' \cup gone'[n] => parts'[n][q] = NewPart
    BY <1>1 DEF GroupSound, End
  <2>1. CASE n # m
    BY <1>6, <2>1 DEF GroupSound, End
  <2>2. CASE n = m
    <3>1. \A q \in Partition : Len(log[q]) \in Nat
      BY DEF TypeOK, GroupTypeOK
    <3> QED
      BY <1>6, <2>2, <3>1
  <2> QED
    BY <2>1, <2>2
<1>9. OwnersSound'
  <2> SUFFICES ASSUME NEW n \in Member, NEW q \in Fetching(n)'
               PROVE  OwnerSound(log[q], rows, q, applyRevocations(n, q)', pos'[n][q], Floor(n, q)')
    BY <1>1 DEF OwnersSound, storeVars
  <2>1. /\ n # m /\ q \in Fetching(n) /\ q \in Partition
        /\ applyRevocations(n, q)' = applyRevocations(n, q)
    BY <1>6 DEF Fetching, Owned, TypeOK, GroupTypeOK, applyRevocations
  <2>2. Floor(n, q)' = Floor(n, q)
    BY <1>1, <1>5, <2>1 DEF Floor
  <2> QED
    BY <1>6, <2>1, <2>2 DEF OwnersSound
<1> QED
  BY <1>3, <1>4, <1>7, <1>8, <1>9

LEMMA CrashStep ==
  ASSUME IInv, NEW m \in Member, Crash(m)
  PROVE  IInv'
<1>1. budget' \in [Fault -> Nat]
  BY SpendType DEF Crash, IInv, TypeOK, Fault
<1> QED
  BY <1>1, LeaveStep DEF Crash

LEMMA ExitStep ==
  ASSUME IInv, NEW m \in Member, Exit(m)
  PROVE  IInv'
<1>1. budget' \in [Fault -> Nat]
  BY DEF Exit, IInv, TypeOK
<1> QED
  BY <1>1, LeaveStep DEF Exit

(* Starting a process and cancelling its context touch no data. *)
LEMMA StartStep ==
  ASSUME IInv, NEW m \in Member, Start(m)
  PROVE  IInv'
<1> USE DEF IInv, PipelineSound
<1>1. /\ pc[m] = "down" /\ pc' = [pc EXCEPT ![m] = "poll"]
      /\ UNCHANGED <<groupVars, cancelled, parts, batch, cur, buffered, closedN, storeVars, timed, budget>>
  BY DEF Start
<1>2. TypeOK'
  BY <1>1 DEF TypeOK, GroupTypeOK, groupVars, storeVars
<1>3. CommittedStored' /\ TablesInOrder' /\ StoreSound' /\ ChunksSound'
  BY <1>1, CommittedFrame, StoreFrame, ChunksFrame DEF groupVars, storeVars
<1>4. GroupSound'
  <2>1. Fetching(m) = {}
    BY <1>1 DEF GroupSound
  <2>2. \A n \in Member : /\ Owned(n)' = Owned(n) /\ Fetching(n)' = Fetching(n)
                           /\ pc'[n] = IF n = m THEN "poll" ELSE pc[n]
    BY <1>1 DEF groupVars, Owned, Fetching, TypeOK
  <2> SUFFICES ASSUME NEW n \in Member PROVE
        /\ lost[n] # {} => Owned(n) = {}
        /\ gone[n] # {} => pc'[n] = "poll"
        /\ pc'[n] = "down" => Fetching(n) = {}
        /\ \A q \in Partition :
             /\ pos[n][q] + batch[n][q] <= End(q)
             /\ q \notin Fetching(n) \/ pc'[n] \in {"poll", "flush"} => batch[n][q] = 0
             /\ q \notin Fetching(n) \cup gone[n] => parts[n][q] = NewPart
    BY <1>1, <2>2 DEF GroupSound, End, groupVars
  <2> QED
    BY <2>1, <2>2 DEF GroupSound
<1>5. OwnersSound'
  BY <1>1 DEF OwnersSound, groupVars, storeVars, Owned, Fetching, Floor, applyRevocations
<1> QED
  BY <1>2, <1>3, <1>4, <1>5

LEMMA CancelStep ==
  ASSUME IInv, NEW m \in Member, Cancel(m)
  PROVE  IInv'
<1> USE DEF IInv, PipelineSound
<1>1. /\ cancelled' = cancelled \cup {m}
      /\ UNCHANGED <<groupVars, pc, parts, batch, cur, buffered, closedN, storeVars, timed>>
  BY DEF Cancel
<1>2. TypeOK'
  <2>1. budget' \in [Fault -> Nat]
    BY SpendType DEF Cancel, TypeOK, Fault
  <2> QED
    BY <1>1, <2>1 DEF TypeOK, GroupTypeOK, groupVars, storeVars
<1>3. CommittedStored' /\ TablesInOrder' /\ StoreSound' /\ ChunksSound'
  BY <1>1, CommittedFrame, StoreFrame, ChunksFrame DEF groupVars, storeVars
<1>4. GroupSound'
  BY <1>1 DEF GroupSound, groupVars, Owned, Fetching, End
<1>5. OwnersSound'
  BY <1>1 DEF OwnersSound, groupVars, storeVars, Owned, Fetching, Floor, applyRevocations
<1> QED
  BY <1>2, <1>3, <1>4, <1>5
-----------------------------------------------------------------------------
(* The steps of one member's loop, the store left alone. *)

(***************************************************************************)
(* The partitions f of member m are sound when it has read up to k[p] of   *)
(* partition p and the group resumes from cm[p].                           *)
(***************************************************************************)
Holds(m, f, k, cm) ==
    \A p \in Partition :
        /\ PartSound(log[p], rows, p, f[p])
        /\ p \notin Fetching(m) => f[p] = NewPart
        /\ p \in Fetching(m) =>
             OwnerSound(log[p], rows, p, f[p], k[p], IF owner[p] = m THEN cm[p] ELSE 0)

(* What the invariant says of a member outside of poll. *)
LEMMA HoldsNow ==
  ASSUME IInv, NEW m \in Member, pc[m] # "poll"
  PROVE  /\ gone[m] = {}
         /\ parts[m] \in [Partition -> Part]
         /\ Holds(m, parts[m], pos[m], committed)
<1>1. gone[m] = {}
  BY DEF IInv, PipelineSound, GroupSound
<1>2. parts[m] \in [Partition -> Part]
  BY DEF IInv, TypeOK
<1>3. ASSUME NEW p \in Partition
      PROVE  /\ PartSound(log[p], rows, p, parts[m][p])
             /\ p \notin Fetching(m) => parts[m][p] = NewPart
             /\ p \in Fetching(m) => OwnerSound(log[p], rows, p, parts[m][p], pos[m][p], Floor(m, p))
  <2>1. applyRevocations(m, p) = parts[m][p]
    BY <1>1 DEF applyRevocations
  <2> QED
    BY <1>1, <2>1 DEF IInv, PipelineSound, ChunksSound, GroupSound, OwnersSound
<1> QED
  BY <1>1, <1>2, <1>3 DEF Holds, Floor

(* closeAll and closeIdle: cutting open chunks keeps a member's partitions sound. *)
LEMMA HoldsClose ==
  ASSUME TypeOK, NEW m \in Member, NEW f \in [Partition -> Part], NEW P \in SUBSET OpenParts(f),
         NEW k \in [Partition -> Nat], NEW cm \in [Partition -> Nat], Holds(m, f, k, cm)
  PROVE  Holds(m, closeParts(f, P), k, cm)
<1> SUFFICES ASSUME NEW p \in Partition
             PROVE  /\ PartSound(log[p], rows, p, closeParts(f, P)[p])
                    /\ p \notin Fetching(m) => closeParts(f, P)[p] = NewPart
                    /\ p \in Fetching(m) =>
                         OwnerSound(log[p], rows, p, closeParts(f, P)[p], k[p],
                                    IF owner[p] = m THEN cm[p] ELSE 0)
  BY DEF Holds
<1>1. /\ PartSound(log[p], rows, p, f[p])
      /\ p \notin Fetching(m) => f[p] = NewPart
      /\ p \in Fetching(m) =>
           OwnerSound(log[p], rows, p, f[p], k[p], IF owner[p] = m THEN cm[p] ELSE 0)
  BY DEF Holds
<1>2. CASE p \notin P
  <2>1. closeParts(f, P)[p] = f[p]
    BY <1>2 DEF closeParts
  <2> QED
    BY <1>1, <2>1
<1>3. CASE p \in P
  <2>1. closeParts(f, P)[p] = close(f[p]) /\ f[p].open # NoChunk /\ f[p] \in Part
    BY <1>3 DEF closeParts, OpenParts
  <2>2. p \in Fetching(m)
    BY <1>1, <2>1 DEF NewPart
  <2>3. log[p] \in Seq(Record) /\ k[p] \in Nat /\ (IF owner[p] = m THEN cm[p] ELSE 0) \in Nat
    BY DEF TypeOK, GroupTypeOK
  <2> QED
    BY <1>1, <2>1, <2>2, <2>3, ClosePart, CloseOwner
<1> QED
  BY <1>2, <1>3

(* A step of m that leaves the store, the log and the assignment alone. *)
LEMMA LocalStep ==
  ASSUME IInv, TypeOK', NEW m \in Member,
         UNCHANGED <<log, owner, lost, rows, tokens, inflight>>,
         \A n \in Member : n # m => /\ parts'[n] = parts[n] /\ pos'[n] = pos[n]
                                    /\ batch'[n] = batch[n] /\ gone'[n] = gone[n] /\ pc'[n] = pc[n],
         \A p \in Partition : owner[p] # m => committed'[p] = committed[p],
         gone'[m] = {}, pc[m] # "down", pc'[m] # "down", CommittedStored',
         \A p \in Partition : /\ pos'[m][p] + batch'[m][p] <= End(p)
                              /\ p \notin Fetching(m) \/ pc'[m] \in {"poll", "flush"} => batch'[m][p] = 0,
         Holds(m, parts'[m], pos'[m], committed')
  PROVE  IInv'
<1> USE DEF IInv, PipelineSound
<1>1. TablesInOrder' /\ StoreSound'
  BY StoreFrame
<1>2. \A n \in Member : Owned(n)' = Owned(n) /\ Fetching(n)' = Fetching(n)
  BY DEF Owned, Fetching
<1>3. ChunksSound'
  <2> SUFFICES ASSUME NEW n \in Member, NEW q \in Partition
               PROVE  PartSound(log[q], rows, q, parts'[n][q])
    BY DEF ChunksSound
  <2> QED
    BY DEF ChunksSound, Holds
<1>4. GroupSound'
  <2> SUFFICES ASSUME NEW n \in Member PROVE
        /\ lost[n] # {} => Owned(n) = {}
        /\ gone'[n] # {} => pc'[n] = "poll"
        /\ pc'[n] = "down" => Fetching(n) = {}
        /\ \A q \in Partition :
             /\ pos'[n][q] + batch'[n][q] <= End(q)
             /\ q \notin Fetching(n) \/ pc'[n] \in {"poll", "flush"} => batch'[n][q] = 0
             /\ q \notin Fetching(n) \cup gone'[n] => parts'[n][q] = NewPart
    BY <1>2 DEF GroupSound, End
  <2>1. CASE n # m
    BY <2>1 DEF GroupSound
  <2>2. CASE n = m
    BY <2>2 DEF GroupSound, Holds
  <2> QED
    BY <2>1, <2>2
<1>5. OwnersSound'
  <2> SUFFICES ASSUME NEW n \in Member, NEW q \in Fetching(n)
               PROVE  OwnerSound(log[q], rows, q, applyRevocations(n, q)', pos'[n][q], Floor(n, q)')
    BY <1>2 DEF OwnersSound
  <2>0. q \in Partition
    BY DEF Fetching, Owned, TypeOK, GroupTypeOK
  <2>1. CASE n # m
    <3>1. applyRevocations(n, q)' = applyRevocations(n, q) /\ Floor(n, q)' = Floor(n, q)
      BY <2>0, <2>1 DEF applyRevocations, Floor
    <3> QED
      BY <2>1, <3>1 DEF OwnersSound
  <2>2. CASE n = m
    <3>1. applyRevocations(n, q)' = parts'[m][q]
      BY <2>2 DEF applyRevocations
    <3> QED
      BY <2>0, <2>2, <3>1 DEF Holds, Floor
  <2> QED
    BY <2>1, <2>2
<1> QED
  BY <1>1, <1>3, <1>4, <1>5

(* The high watermark says nothing about the chunks. *)
LEMMA HwmSound ==
  ASSUME NEW ps \in Part, NEW h \in Nat, NEW L, NEW R, NEW p, NEW k, NEW cm
  PROVE  /\ SeenHwm(ps, h) \in Part
         /\ SeenHwm(ps, 0) = ps
         /\ PartSound(L, R, p, ps) => PartSound(L, R, p, SeenHwm(ps, h))
         /\ OwnerSound(L, R, p, ps, k, cm) => OwnerSound(L, R, p, SeenHwm(ps, h), k, cm)
<1>1. ps.hwm \in Nat
  BY DEF Part
<1>2. SeenHwm(ps, 0) = ps
  BY <1>1 DEF SeenHwm
<1>3. /\ SeenHwm(ps, h) \in Part
      /\ SeenHwm(ps, h).open = ps.open /\ SeenHwm(ps, h).closed = ps.closed
      /\ SeenHwm(ps, h).lastOffset = ps.lastOffset
  BY DEF SeenHwm, Part
<1> QED
  BY <1>2, <1>3 DEF PartSound, OwnerSound

LEMMA PollStep ==
  ASSUME IInv, NEW m \in Member, PollRecords(m)
  PROVE  IInv'
<1> USE DEF IInv, PipelineSound
<1>1. PICK f \in [Partition -> 0..MaxLog] :
        /\ \A p \in Partition : f[p] > 0 => p \in Fetching(m) /\ pos[m][p] + f[p] <= End(p)
        /\ batch' = [batch EXCEPT ![m] = f]
        /\ parts' = [parts EXCEPT ![m] = [p \in Partition |->
               SeenHwm(applyRevocations(m, p), IF f[p] > 0 THEN End(p) ELSE 0)]]
  BY DEF PollRecords
<1>2. /\ pc[m] = "poll" /\ pc' = [pc EXCEPT ![m] = "add"] /\ gone' = [gone EXCEPT ![m] = {}]
      /\ UNCHANGED <<log, committed, owner, pos, lost, cancelled, cur, storeVars, timed, budget>>
  BY DEF PollRecords
<1> DEFINE h(p) == IF f[p] > 0 THEN End(p) ELSE 0
<1>3. \A p \in Partition : f[p] \in Nat /\ End(p) \in Nat /\ h(p) \in Nat
  BY GroupAssumption DEF TypeOK, GroupTypeOK, End
<1>4. \A p \in Partition : /\ parts'[m][p] = SeenHwm(applyRevocations(m, p), h(p))
                           /\ parts'[m][p] \in Part
  BY <1>1, <1>3, KeptSound, HwmSound DEF TypeOK
<1>5. parts' \in [Member -> [Partition -> Part]]
  <2>1. [p \in Partition |-> SeenHwm(applyRevocations(m, p), h(p))] \in [Partition -> Part]
    BY <1>3, KeptSound, HwmSound
  <2> QED
    BY <1>1, <2>1 DEF TypeOK
<1>6. TypeOK'
  <2>1. f \in [Partition -> Nat]
    BY <1>3
  <2> QED
    BY <1>1, <1>2, <1>5, <2>1 DEF TypeOK, GroupTypeOK, storeVars
<1>7. Holds(m, parts'[m], pos'[m], committed')
  <2> SUFFICES ASSUME NEW p \in Partition
               PROVE  /\ PartSound(log[p], rows, p, parts'[m][p])
                      /\ p \notin Fetching(m) => parts'[m][p] = NewPart
                      /\ p \in Fetching(m) =>
                           OwnerSound(log[p], rows, p, parts'[m][p], pos[m][p], Floor(m, p))
    BY <1>2 DEF Holds, Floor
  <2>1. /\ applyRevocations(m, p) \in Part /\ PartSound(log[p], rows, p, applyRevocations(m, p))
    BY KeptSound
  <2>2. p \in Fetching(m) =>
          OwnerSound(log[p], rows, p, applyRevocations(m, p), pos[m][p], Floor(m, p))
    BY DEF OwnersSound
  <2>3. ASSUME p \notin Fetching(m) PROVE parts'[m][p] = NewPart
    <3>1. h(p) = 0
      BY <1>1, <2>3
    <3>2. applyRevocations(m, p) = NewPart
      BY <2>3 DEF applyRevocations, GroupSound
    <3> QED
      BY <1>4, <2>1, <3>1, <3>2, HwmSound
  <2> QED
    BY <1>3, <1>4, <2>1, <2>2, <2>3, HwmSound
<1>8. \A p \in Partition : /\ pos'[m][p] + batch'[m][p] <= End(p)
                           /\ p \notin Fetching(m) \/ pc'[m] \in {"poll", "flush"} => batch'[m][p] = 0
  <2> TAKE p \in Partition
  <2>1. batch'[m][p] = f[p] /\ pc'[m] = "add" /\ pos'[m][p] = pos[m][p]
    BY <1>1, <1>2 DEF TypeOK
  <2>2. pos[m][p] \in Nat /\ batch[m][p] \in Nat /\ pos[m][p] + batch[m][p] <= End(p)
    BY DEF GroupSound, TypeOK, GroupTypeOK
  <2>3. CASE f[p] = 0
    BY <1>3, <2>1, <2>2, <2>3
  <2>4. CASE f[p] # 0
    <3>1. f[p] > 0
      BY <1>3, <2>4
    <3> QED
      BY <1>1, <2>1, <3>1
  <2> QED
    BY <2>3, <2>4
<1>9. CommittedStored'
  BY <1>2, CommittedFrame DEF storeVars
<1> QED
  <2>1. \A n \in Member : n # m => /\ parts'[n] = parts[n] /\ pos'[n] = pos[n]
                                   /\ batch'[n] = batch[n] /\ gone'[n] = gone[n] /\ pc'[n] = pc[n]
    BY <1>1, <1>2 DEF TypeOK, GroupTypeOK
  <2>2. gone'[m] = {} /\ pc[m] # "down" /\ pc'[m] # "down"
    BY <1>2 DEF TypeOK, GroupTypeOK
  <2> QED
    BY <1>2, <1>6, <1>7, <1>8, <1>9, <2>1, <2>2, LocalStep DEF storeVars

(***************************************************************************)
(* KeepOpen and CloseAll: with sound partitions f, m's new partitions are  *)
(* sound and well typed.                                                   *)
(***************************************************************************)
LEMMA CloseAllSound ==
  ASSUME TypeOK, NEW m \in Member, NEW f \in [Partition -> Part], NEW n,
         NEW k \in [Partition -> Nat], NEW cm \in [Partition -> Nat], Holds(m, f, k, cm),
         CloseAll(m, f, n) \/ KeepOpen(m, f, n)
  PROVE  /\ parts' \in [Member -> [Partition -> Part]]
         /\ timed' \in [Partition -> SUBSET Int]
         /\ \A i \in Member : i # m => parts'[i] = parts[i]
         /\ Holds(m, parts'[m], k, cm)
<1>1. CASE KeepOpen(m, f, n)
  BY <1>1 DEF KeepOpen, TypeOK
<1>2. CASE CloseAll(m, f, n)
  <2> DEFINE P == OpenParts(f)
             g == closeParts(f, P)
  <2>1. parts' = [parts EXCEPT ![m] = g] /\ MarkTimed(f, P)
    BY <1>2 DEF CloseAll
  <2>2. g \in [Partition -> Part] /\ Holds(m, g, k, cm)
    BY ClosePartsType, HoldsClose
  <2>3. timed' \in [Partition -> SUBSET Int]
    <3>1. \A p \in Partition : f[p].open.first \in Int
      BY DEF Part, Chunk
    <3> QED
      BY <2>1, <3>1 DEF MarkTimed, TypeOK
  <2> HIDE DEF g, P
  <2> QED
    BY <2>1, <2>2, <2>3 DEF TypeOK
<1> QED
  BY <1>1, <1>2

LEMMA AddRecordStep ==
  ASSUME IInv, NEW m \in Member, NEW p \in Partition, AddRecord(m, p)
  PROVE  IInv'
<1> USE DEF IInv, PipelineSound
<1> DEFINE o   == pos[m][p]
           r   == Rec(p, o)
           old == parts[m][p]
           new == IF o <= old.lastOffset THEN old ELSE add(old, o, r)
           f   == [parts[m] EXCEPT ![p] = new]
           n   == closedN[m] + Len(new.closed) - Len(old.closed)
<1>1. /\ pc[m] = "add" /\ batch[m][p] > 0
      /\ pos' = [pos EXCEPT ![m][p] = o + 1]
      /\ batch' = [batch EXCEPT ![m][p] = @ - 1]
      /\ cur' = [cur EXCEPT ![m] = IF batch[m][p] > 1 THEN p ELSE NoPartition]
      /\ CloseAll(m, f, n) \/ KeepOpen(m, f, n)
      /\ pc' \in {[pc EXCEPT ![m] = x] : x \in {"add", "memory", "relieve"}}
      /\ UNCHANGED <<log, committed, owner, lost, gone, cancelled, storeVars, budget>>
  BY DEF AddRecord, Pending
<1>2. /\ o \in Nat /\ batch[m][p] \in Nat /\ o + batch[m][p] <= End(p) /\ End(p) \in Nat
      /\ log[p] \in Seq(Record) /\ o < Len(log[p])
  <2>1. o \in Nat /\ batch[m][p] \in Nat /\ log[p] \in Seq(Record) /\ Len(log[p]) \in Nat
    BY DEF TypeOK, GroupTypeOK
  <2>2. o + batch[m][p] <= End(p)
    BY DEF GroupSound
  <2> QED
    BY <1>1, <2>1, <2>2 DEF End
<1>3. gone[m] = {} /\ parts[m] \in [Partition -> Part] /\ Holds(m, parts[m], pos[m], committed)
  BY <1>1, HoldsNow
<1>4. p \in Fetching(m)
  <2>1. batch[m][p] # 0
    BY <1>1, <1>2
  <2> QED
    BY <2>1 DEF GroupSound
<1>5. /\ new \in Part /\ PartSound(log[p], rows, p, new)
      /\ OwnerSound(log[p], rows, p, new, o + 1, Floor(m, p))
  <2>1. PartSound(log[p], rows, p, old) /\ OwnerSound(log[p], rows, p, old, o, Floor(m, p))
    BY <1>3, <1>4 DEF Holds, Floor
  <2>2. old \in Part /\ Floor(m, p) \in Nat
    BY <1>3 DEF Floor, TypeOK, GroupTypeOK
  <2>3. old.lastOffset \in Int /\ ~(o <= old.lastOffset)
    BY <1>2, <2>1, <2>2 DEF OwnerSound, Part
  <2>4. new = add(old, o, log[p][o + 1])
    BY <2>3 DEF Rec
  <2> HIDE DEF new, old, o
  <2> QED
    BY <1>2, <2>1, <2>2, <2>4, AddSound
<1>6. f \in [Partition -> Part] /\ pos'[m] \in [Partition -> Nat]
  <2>1. pos'[m] = [pos[m] EXCEPT ![p] = o + 1] /\ o + 1 \in Nat
    BY <1>1, <1>2 DEF TypeOK, GroupTypeOK
  <2> HIDE DEF new
  <2> QED
    BY <1>3, <1>5, <2>1 DEF TypeOK, GroupTypeOK
<1>7. Holds(m, f, pos'[m], committed)
  <2> HIDE DEF new
  <2> SUFFICES ASSUME NEW q \in Partition
               PROVE  /\ PartSound(log[q], rows, q, f[q])
                      /\ q \notin Fetching(m) => f[q] = NewPart
                      /\ q \in Fetching(m) => OwnerSound(log[q], rows, q, f[q], pos'[m][q], Floor(m, q))
    BY DEF Holds, Floor
  <2>1. CASE q = p
    <3>1. f[q] = new /\ pos'[m][q] = o + 1
      BY <1>1, <1>3, <2>1 DEF TypeOK, GroupTypeOK
    <3> QED
      BY <1>4, <1>5, <2>1, <3>1
  <2>2. CASE q # p
    <3>1. f[q] = parts[m][q] /\ pos'[m][q] = pos[m][q]
      BY <1>1, <1>3, <2>2 DEF TypeOK, GroupTypeOK
    <3> QED
      BY <1>3, <3>1 DEF Holds, Floor
  <2> QED
    BY <2>1, <2>2
<1>8. committed \in [Partition -> Nat]
  BY DEF TypeOK, GroupTypeOK
<1>9. /\ parts' \in [Member -> [Partition -> Part]] /\ timed' \in [Partition -> SUBSET Int]
      /\ \A i \in Member : i # m => parts'[i] = parts[i]
      /\ Holds(m, parts'[m], pos'[m], committed)
  <2> HIDE DEF f, n
  <2> QED
    BY <1>1, <1>6, <1>7, <1>8, CloseAllSound
<1>10. TypeOK'
  <2>1. pos' \in [Member -> [Partition -> Nat]] /\ batch' \in [Member -> [Partition -> Nat]]
    <3>1. o + 1 \in Nat /\ batch[m][p] - 1 \in Nat
      BY <1>1, <1>2
    <3> QED
      BY <1>1, <3>1 DEF TypeOK, GroupTypeOK
  <2>2. cur' \in [Member -> Partition \cup {NoPartition}]
    BY <1>1 DEF TypeOK
  <2>3. pc' \in [Member -> {"poll", "add", "relieve", "memory", "flush", "final", "exit", "down"}]
    BY <1>1 DEF TypeOK
  <2>4. UNCHANGED <<log, committed, owner, lost, gone, cancelled, storeVars, budget>>
    BY <1>1
  <2> HIDE DEF f, n, new
  <2> QED
    BY <1>9, <2>1, <2>2, <2>3, <2>4 DEF TypeOK, GroupTypeOK, storeVars
<1>11. \A q \in Partition : /\ pos'[m][q] + batch'[m][q] <= End(q)
                            /\ q \notin Fetching(m) \/ pc'[m] \in {"poll", "flush"} => batch'[m][q] = 0
  <2> TAKE q \in Partition
  <2>1. pc'[m] \notin {"poll", "flush"}
    BY <1>1 DEF TypeOK
  <2>2. CASE q = p
    <3>1. pos'[m][q] = o + 1 /\ batch'[m][q] = batch[m][p] - 1
      BY <1>1, <2>2 DEF TypeOK, GroupTypeOK
    <3> QED
      BY <1>2, <1>4, <2>1, <2>2, <3>1
  <2>3. CASE q # p
    <3>1. pos'[m][q] = pos[m][q] /\ batch'[m][q] = batch[m][q]
      BY <1>1, <2>3 DEF TypeOK, GroupTypeOK
    <3> QED
      BY <2>1, <3>1 DEF GroupSound
  <2> QED
    BY <2>2, <2>3
<1>12. CommittedStored'
  BY <1>1, CommittedFrame DEF storeVars
<1> QED
  <2>1. \A i \in Member : i # m => /\ parts'[i] = parts[i] /\ pos'[i] = pos[i]
                                   /\ batch'[i] = batch[i] /\ gone'[i] = gone[i] /\ pc'[i] = pc[i]
    BY <1>1, <1>9 DEF TypeOK, GroupTypeOK
  <2>2. gone'[m] = {} /\ pc[m] # "down" /\ pc'[m] # "down"
    BY <1>1, <1>3 DEF TypeOK
  <2>3. Holds(m, parts'[m], pos'[m], committed')
    BY <1>1, <1>9
  <2> QED
    BY <1>1, <1>10, <1>11, <1>12, <2>1, <2>2, <2>3, LocalStep DEF storeVars

(***************************************************************************)
(* The end of a batch or of a flush: partitions f, sound for the offsets   *)
(* committed', are kept or cut, and the loop goes on at x.                 *)
(***************************************************************************)
LEMMA CutStep ==
  ASSUME IInv, NEW m \in Member, pc[m] \notin {"poll", "down"},
         NEW x \in {"poll", "add", "memory", "flush", "final", "exit"}, pc' = [pc EXCEPT ![m] = x],
         NEW f \in [Partition -> Part], NEW n, CloseAll(m, f, n) \/ KeepOpen(m, f, n),
         committed' \in [Partition -> Nat], budget' \in [Fault -> Nat],
         \A p \in Partition : owner[p] # m => committed'[p] = committed[p],
         CommittedStored', Holds(m, f, pos[m], committed'),
         x \in {"poll", "flush"} => \A p \in Partition : batch[m][p] = 0,
         UNCHANGED <<log, owner, pos, lost, gone, cancelled, batch, cur, storeVars>>
  PROVE  IInv'
<1> USE DEF IInv, PipelineSound
<1>1. pos[m] \in [Partition -> Nat] /\ TypeOK /\ gone[m] = {}
  BY HoldsNow DEF TypeOK, GroupTypeOK
<1>2. /\ parts' \in [Member -> [Partition -> Part]] /\ timed' \in [Partition -> SUBSET Int]
      /\ \A i \in Member : i # m => parts'[i] = parts[i]
      /\ Holds(m, parts'[m], pos[m], committed')
  BY <1>1, CloseAllSound
<1>3. TypeOK'
  BY <1>2 DEF TypeOK, GroupTypeOK, storeVars
<1>4. \A q \in Partition : /\ pos'[m][q] + batch'[m][q] <= End(q)
                           /\ q \notin Fetching(m) \/ pc'[m] \in {"poll", "flush"} => batch'[m][q] = 0
  <2>1. pc'[m] = x
    BY DEF TypeOK
  <2> QED
    BY <2>1 DEF GroupSound
<1>5. \A i \in Member : i # m => /\ parts'[i] = parts[i] /\ pos'[i] = pos[i]
                                 /\ batch'[i] = batch[i] /\ gone'[i] = gone[i] /\ pc'[i] = pc[i]
  BY <1>2 DEF TypeOK
<1>6. gone'[m] = {} /\ pc'[m] # "down"
  BY <1>1 DEF TypeOK
<1>7. Holds(m, parts'[m], pos'[m], committed')
  BY <1>2
<1> QED
  BY <1>3, <1>4, <1>5, <1>6, <1>7, LocalStep DEF storeVars

LEMMA EndBatchStep ==
  ASSUME IInv, NEW m \in Member, EndBatch(m)
  PROVE  IInv'
<1> USE DEF IInv, PipelineSound
<1>1. /\ pc[m] = "add" /\ \A p \in Partition : ~(batch[m][p] > 0)
      /\ UNCHANGED <<groupVars, cancelled, batch, cur, buffered, storeVars, budget>>
  BY DEF EndBatch, Drained, Pending
<1>2. PICK P \in SUBSET Idle(m) :
        /\ parts' = [parts EXCEPT ![m] = closeParts(parts[m], P)]
        /\ MarkTimed(parts[m], P)
        /\ pc' \in {[pc EXCEPT ![m] = x] : x \in {"poll", "flush"}}
  BY DEF EndBatch
<1>3. \A p \in Partition : batch[m][p] = 0
  BY <1>1 DEF TypeOK
<1>4. gone[m] = {} /\ parts[m] \in [Partition -> Part] /\ Holds(m, parts[m], pos[m], committed)
  BY <1>1, HoldsNow
<1> DEFINE g == closeParts(parts[m], P)
<1>5. g \in [Partition -> Part] /\ Holds(m, g, pos[m], committed)
  <2>1. P \in SUBSET OpenParts(parts[m])
    BY DEF Idle
  <2>2. pos[m] \in [Partition -> Nat] /\ committed \in [Partition -> Nat]
    BY DEF TypeOK, GroupTypeOK
  <2> QED
    BY <1>4, <2>1, <2>2, ClosePartsType, HoldsClose
<1>6. timed' \in [Partition -> SUBSET Int]
  <2>1. \A p \in Partition : parts[m][p].open.first \in Int
    BY <1>4 DEF Part, Chunk
  <2> QED
    BY <1>2, <2>1 DEF MarkTimed, TypeOK
<1> HIDE DEF g
<1>7. parts' = [parts EXCEPT ![m] = g]
  BY <1>2 DEF g
<1>8. pc' \in [Member -> {"poll", "flush", "add", "relieve", "memory", "final", "exit", "down"}]
  BY <1>2 DEF TypeOK
<1>9. TypeOK'
  BY <1>1, <1>5, <1>6, <1>7, <1>8 DEF TypeOK, GroupTypeOK, groupVars, storeVars
<1>10. CommittedStored'
  BY <1>1, CommittedFrame DEF groupVars, storeVars
<1>11. \A i \in Member : i # m => /\ parts'[i] = parts[i] /\ pos'[i] = pos[i]
                                  /\ batch'[i] = batch[i] /\ gone'[i] = gone[i] /\ pc'[i] = pc[i]
  BY <1>1, <1>2, <1>7 DEF TypeOK, groupVars
<1>12. gone'[m] = {} /\ pc'[m] # "down" /\ parts'[m] = g
  BY <1>1, <1>2, <1>4, <1>7 DEF TypeOK, groupVars
<1>13. \A p \in Partition : /\ pos'[m][p] + batch'[m][p] <= End(p)
                            /\ p \notin Fetching(m) \/ pc'[m] \in {"poll", "flush"} => batch'[m][p] = 0
  BY <1>1, <1>3 DEF GroupSound, groupVars
<1>14. Holds(m, parts'[m], pos'[m], committed')
  BY <1>1, <1>5, <1>12 DEF groupVars
<1>15. UNCHANGED <<log, owner, lost, committed, rows, tokens, inflight>> /\ pc[m] # "down"
  BY <1>1 DEF groupVars, storeVars
<1> QED
  BY <1>9, <1>10, <1>11, <1>12, <1>13, <1>14, <1>15, LocalStep

LEMMA EndBatchCancelledStep ==
  ASSUME IInv, NEW m \in Member, EndBatchCancelled(m)
  PROVE  IInv'
<1> USE DEF IInv, PipelineSound
<1>1. /\ pc[m] = "add" /\ CloseAll(m, parts[m], closedN[m])
      /\ UNCHANGED <<log, committed, owner, pos, lost, gone, cancelled, batch, cur, storeVars, budget>>
  BY DEF EndBatchCancelled, Shutdown, groupVars
<1>2. PICK x \in {"exit", "final"} : pc' = [pc EXCEPT ![m] = x]
  BY DEF EndBatchCancelled, Shutdown
<1>3. parts[m] \in [Partition -> Part] /\ Holds(m, parts[m], pos[m], committed)
  BY <1>1, HoldsNow
<1>4. CommittedStored' /\ committed' \in [Partition -> Nat] /\ budget' \in [Fault -> Nat]
  BY <1>1, CommittedFrame DEF storeVars, TypeOK, GroupTypeOK
<1>5. Holds(m, parts[m], pos[m], committed') /\ \A p \in Partition : committed'[p] = committed[p]
  BY <1>1, <1>3
<1> QED
  BY <1>1, <1>2, <1>3, <1>4, <1>5, CutStep

-----------------------------------------------------------------------------
(* flushClosed. *)

(* There is nothing to trim from a partition that holds nothing. *)
LEMMA TrimNew == trim(NewPart, 0) = NewPart
<1>1. NewPart.closed = <<>> /\ Len(NewPart.closed) = 0
  BY DEF NewPart
<1>2. [i \in 1..(Len(NewPart.closed) - 0) |-> [NewPart.closed[i + 0] EXCEPT !.tab = 0]] = <<>>
  BY <1>1
<1>3. trim(NewPart, 0) = [NewPart EXCEPT !.closed = <<>>]
  BY <1>2 DEF trim
<1> QED
  BY <1>3 DEF NewPart

(***************************************************************************)
(* The end of a flush: the offsets it commits are stored and never move    *)
(* back, and the partitions that are left are sound for them.              *)
(***************************************************************************)
LEMMA FlushHolds ==
  ASSUME IInv, NEW m \in Member, pc[m] \notin {"poll", "down"},
         NEW n \in [Partition -> 0..MaxLog], FlushStep(m, n)
  PROVE  /\ Trimmed(m, n) \in [Partition -> Part]
         /\ committed' \in [Partition -> Nat]
         /\ budget' \in [Fault -> Nat]
         /\ \A p \in Partition : /\ committed[p] <= committed'[p]
                                 /\ owner[p] # m => committed'[p] = committed[p]
         /\ CommittedStored'
         /\ Holds(m, Trimmed(m, n), pos[m], committed')
<1> USE DEF IInv, PipelineSound
<1>1. /\ \A p \in Partition : /\ n[p] \in 0..Len(parts[m][p].closed)
                              /\ StoredPrefix(parts[m][p].closed, n[p])
      /\ UNCHANGED <<log, owner, pos, lost, gone, cancelled, batch, cur, storeVars>>
  BY DEF FlushStep
<1>2. PICK S \in SUBSET {p \in Owned(m) : n[p] > 0} :
        committed' = [p \in Partition |->
             IF p \in S THEN parts[m][p].closed[n[p]].last + 1 ELSE committed[p]]
  BY DEF FlushStep, Commit
<1>3. budget' \in [Fault -> Nat]
  <2>1. UNCHANGED budget \/ Spend("commit")
    BY DEF FlushStep, Commit
  <2> QED
    BY <2>1, SpendType DEF TypeOK, Fault
<1>4. parts[m] \in [Partition -> Part] /\ Holds(m, parts[m], pos[m], committed)
  BY HoldsNow
<1>5. Trimmed(m, n) \in [Partition -> Part]
  BY <1>1, <1>4, TrimType DEF Trimmed
<1>6. ASSUME NEW p \in Partition
      PROVE  /\ log[p] \in Seq(Record) /\ committed[p] \in Nat /\ pos[m][p] \in Nat /\ parts[m][p] \in Part
             /\ PartSound(log[p], rows, p, parts[m][p])
             /\ p \notin Fetching(m) => parts[m][p] = NewPart
             /\ p \in Fetching(m) => OwnerSound(log[p], rows, p, parts[m][p], pos[m][p], Floor(m, p))
  BY <1>4 DEF Holds, Floor, TypeOK, GroupTypeOK
<1>7. ASSUME NEW p \in S
      PROVE  /\ p \in Partition /\ owner[p] = m /\ committed'[p] \in Nat
             /\ committed[p] <= committed'[p] /\ committed'[p] <= pos[m][p]
             /\ OwnerSound(log[p], rows, p, trim(parts[m][p], n[p]), pos[m][p], committed'[p])
             /\ \A o \in 0..(committed'[p] - 1) : StoredIn(log[p], rows, p, o)
  <2>1. p \in Partition /\ owner[p] = m /\ n[p] > 0 /\ p \in Fetching(m)
    BY DEF Owned, Fetching
  <2>2. Floor(m, p) = committed[p] /\ committed'[p] = parts[m][p].closed[n[p]].last + 1
    BY <1>2, <2>1 DEF Floor
  <2> DEFINE ps == parts[m][p]
             up == ps.closed[n[p]].last + 1
  <2>3. /\ log[p] \in Seq(Record) /\ committed[p] \in Nat /\ pos[m][p] \in Nat /\ ps \in Part
        /\ PartSound(log[p], rows, p, ps)
        /\ OwnerSound(log[p], rows, p, ps, pos[m][p], committed[p])
    BY <1>6, <2>1, <2>2
  <2>4. n[p] \in 0..Len(ps.closed) /\ StoredPrefix(ps.closed, n[p])
    BY <1>1, <2>1
  <2> HIDE DEF ps
  <2>5. /\ up \in Nat /\ committed[p] <= up /\ up <= pos[m][p]
        /\ OwnerSound(log[p], rows, p, trim(ps, n[p]), pos[m][p], up)
        /\ \A o \in 0..(up - 1) : StoredIn(log[p], rows, p, o)
    BY <2>1, <2>3, <2>4, TrimOwner
  <2> HIDE DEF up
  <2>6. committed'[p] = up
    BY <2>2 DEF ps, up
  <2> QED
    BY <2>1, <2>5, <2>6 DEF ps
<1>8. ASSUME NEW p \in Partition, p \notin S
      PROVE  committed'[p] = committed[p]
  BY <1>2, <1>8
<1>9. committed' \in [Partition -> Nat]
  BY <1>2, <1>6, <1>7
<1>10. \A p \in Partition : /\ committed[p] <= committed'[p]
                            /\ owner[p] # m => committed'[p] = committed[p]
  BY <1>6, <1>7, <1>8
<1>11. CommittedStored'
  <2> SUFFICES ASSUME NEW p \in Partition, NEW o \in 0..(committed'[p] - 1)
               PROVE  o < Len(log[p]) /\ StoredIn(log[p], rows, p, o)
    BY <1>1 DEF CommittedStored, Stored, End, storeVars
  <2>1. CASE p \in S
    <3>1. pos[m][p] <= Len(log[p])
      <4>1. pos[m][p] + batch[m][p] <= Len(log[p]) /\ batch[m][p] \in Nat /\ Len(log[p]) \in Nat
        BY DEF GroupSound, End, TypeOK, GroupTypeOK
      <4> QED
        BY <1>6, <4>1
    <3>2. Len(log[p]) \in Nat
      BY <1>6
    <3>3. committed'[p] <= pos[m][p] /\ committed'[p] \in Nat /\ pos[m][p] \in Nat
      BY <1>6, <1>7, <2>1
    <3>4. o < Len(log[p])
      BY <3>1, <3>2, <3>3
    <3> QED
      BY <1>7, <2>1, <3>4
  <2>2. CASE p \notin S
    BY <1>8, <2>2 DEF CommittedStored, Stored, End
  <2> QED
    BY <2>1, <2>2
<1>12. Holds(m, Trimmed(m, n), pos[m], committed')
  <2> SUFFICES ASSUME NEW p \in Partition
               PROVE  /\ PartSound(log[p], rows, p, trim(parts[m][p], n[p]))
                      /\ p \notin Fetching(m) => trim(parts[m][p], n[p]) = NewPart
                      /\ p \in Fetching(m) =>
                           OwnerSound(log[p], rows, p, trim(parts[m][p], n[p]), pos[m][p],
                                      IF owner[p] = m THEN committed'[p] ELSE 0)
    BY DEF Holds, Trimmed
  <2>1. PartSound(log[p], rows, p, trim(parts[m][p], n[p]))
    BY <1>1, <1>6, TrimPart
  <2>2. ASSUME p \notin Fetching(m) PROVE trim(parts[m][p], n[p]) = NewPart
    <3>1. parts[m][p] = NewPart
      BY <1>6, <2>2
    <3>2. n[p] = 0
      BY <1>1, <3>1 DEF NewPart
    <3> QED
      BY <3>1, <3>2, TrimNew
  <2>3. ASSUME p \in Fetching(m)
        PROVE  OwnerSound(log[p], rows, p, trim(parts[m][p], n[p]), pos[m][p],
                          IF owner[p] = m THEN committed'[p] ELSE 0)
    <3>1. CASE p \in S
      BY <1>7, <3>1
    <3>2. CASE p \notin S
      <4>1. Floor(m, p) = IF owner[p] = m THEN committed'[p] ELSE 0
        BY <1>8, <3>2 DEF Floor
      <4>2. Floor(m, p) \in Nat /\ OwnerSound(log[p], rows, p, parts[m][p], pos[m][p], Floor(m, p))
        BY <1>6, <2>3 DEF Floor
      <4>3. OwnerSound(log[p], rows, p, trim(parts[m][p], n[p]), pos[m][p], Floor(m, p))
        BY <1>1, <1>6, <4>2, TrimOwner
      <4> QED
        BY <4>1, <4>3
    <3> QED
      BY <3>1, <3>2
  <2> QED
    BY <2>1, <2>2, <2>3
<1> QED
  BY <1>3, <1>5, <1>9, <1>10, <1>11, <1>12

(* The four ways a flush ends. *)
FlushEnd(m) == FlushDone(m) \/ RelieveDone(m) \/ FlushCancelled(m) \/ FinalTimeout(m)

LEMMA FlushEndStep ==
  ASSUME IInv, NEW m \in Member, FlushEnd(m)
  PROVE  IInv' /\ \A p \in Partition : committed'[p] >= committed[p]
<1>1. pc[m] \in {"relieve", "memory", "flush", "final"}
  BY DEF FlushEnd, FlushDone, RelieveDone, FlushCancelled, FinalTimeout
<1>2. PICK n \in [Partition -> 0..MaxLog] :
        /\ FlushStep(m, n)
        /\ CloseAll(m, Trimmed(m, n), Left(m, n)) \/ KeepOpen(m, Trimmed(m, n), Left(m, n))
  BY DEF FlushEnd, FlushDone, RelieveDone, FlushCancelled, FinalTimeout, Shutdown
<1>3. PICK x \in {"poll", "add", "memory", "flush", "final", "exit"} :
        pc' = [pc EXCEPT ![m] = x] /\ (x \in {"poll", "flush"} => pc[m] = "flush")
  <2>0. pc \in [Member -> {"poll", "add", "relieve", "memory", "flush", "final", "exit", "down"}]
    BY DEF IInv, TypeOK
  <2>1. CASE FlushDone(m)
    <3>1. pc' = [pc EXCEPT ![m] = CASE pc[m] = "memory" -> "add" [] pc[m] = "flush" -> "poll"
                                     [] pc[m] = "final" -> "exit"]
          /\ pc[m] \in {"memory", "flush", "final"}
      BY <2>0, <2>1 DEF FlushDone
    <3> QED
      BY <3>1
  <2>2. CASE RelieveDone(m)
    BY <2>2 DEF RelieveDone
  <2>3. CASE FlushCancelled(m)
    BY <2>3 DEF FlushCancelled, Shutdown
  <2>4. CASE FinalTimeout(m)
    BY <2>4 DEF FinalTimeout
  <2> QED
    BY <2>1, <2>2, <2>3, <2>4 DEF FlushEnd
<1>4. pc[m] \notin {"poll", "down"}
  BY <1>1
<1>5. /\ Trimmed(m, n) \in [Partition -> Part] /\ committed' \in [Partition -> Nat]
      /\ budget' \in [Fault -> Nat] /\ CommittedStored'
      /\ \A p \in Partition : /\ committed[p] <= committed'[p]
                              /\ owner[p] # m => committed'[p] = committed[p]
      /\ Holds(m, Trimmed(m, n), pos[m], committed')
  BY <1>2, <1>4, FlushHolds
<1>6. x \in {"poll", "flush"} => \A p \in Partition : batch[m][p] = 0
  BY <1>3 DEF IInv, PipelineSound, GroupSound
<1>7. UNCHANGED <<log, owner, pos, lost, gone, cancelled, batch, cur, storeVars>>
  BY <1>2 DEF FlushStep
<1>8. IInv'
  BY <1>2, <1>3, <1>4, <1>5, <1>6, <1>7, CutStep
<1>9. \A p \in Partition : committed[p] \in Nat /\ committed'[p] \in Nat
  BY <1>5 DEF IInv, TypeOK, GroupTypeOK
<1> QED
  BY <1>5, <1>8, <1>9

-----------------------------------------------------------------------------
(* Inserts. *)

(* The block a worker writes next is of records in the log, its earlier tables stored. *)
LEMMA NextBlockSound ==
  ASSUME IInv, NEW m \in Member, NEW p \in Partition, NEW i, Writing(m, p, i)
  PROVE  LET c == parts[m][p].closed[i]
             b == NextBlock(m, p, i)
         IN  /\ i \in 1..Len(parts[m][p].closed)
             /\ c \in Chunk /\ c.tab \in 0..(Len(Tables) - 1)
             /\ ClosedSound(log[p], rows, p, c)
             /\ b \in Block /\ b.p = p /\ b.first = c.first /\ b.last = c.last
             /\ b.table = Tables[c.tab + 1]
             /\ InLog(log[b.p], b) /\ EarlierStored(log[b.p], rows, b)
<1> DEFINE c == parts[m][p].closed[i]
           b == NextBlock(m, p, i)
<1>1. i \in 1..Len(parts[m][p].closed) /\ c.tab < Len(Tables)
  BY DEF Writing
<1>2. parts[m][p] \in Part /\ PartSound(log[p], rows, p, parts[m][p])
  BY DEF IInv, TypeOK, PipelineSound, ChunksSound
<1>3. c \in Chunk /\ ClosedSound(log[p], rows, p, c)
  BY <1>1, <1>2 DEF Part, PartSound
<1>4. b = [p |-> p, first |-> c.first, last |-> c.last, table |-> Tables[c.tab + 1]]
  BY DEF NextBlock, token
<1> HIDE DEF c, b
<1>5. /\ Len(Tables) \in Nat /\ c.tab \in 0..(Len(Tables) - 1) /\ c.tab + 1 \in 1..Len(Tables)
      /\ c.first \in Int /\ c.last \in Int
  <2>1. Len(Tables) \in Nat
    BY ProcessorAssumption
  <2>2. c.tab \in 0..Len(Tables) /\ c.first \in Int /\ c.last \in Int
    BY <1>3 DEF Chunk
  <2>3. c.tab < Len(Tables)
    BY <1>1 DEF c
  <2> QED
    BY <2>1, <2>2, <2>3
<1>6. Tables[c.tab + 1] \in STRING
  BY <1>5, ProcessorAssumption
<1>7. b \in Block /\ b.p = p /\ b.first = c.first /\ b.last = c.last /\ b.table = Tables[c.tab + 1]
  BY <1>4, <1>5, <1>6 DEF Block
<1>8. InLog(log[b.p], b)
  BY <1>3, <1>7 DEF ClosedSound, InLog
<1>9. EarlierStored(log[b.p], rows, b)
  <2> SUFFICES ASSUME NEW j \in 1..Len(Tables), b.table = Tables[j], NEW k \in 1..(j - 1)
               PROVE  TableStored(log[p], rows, p, b, k)
    BY <1>7 DEF EarlierStored
  <2>1. j = c.tab + 1
    BY <1>5, <1>7, ProcessorAssumption
  <2>2. k \in 1..c.tab
    BY <1>5, <2>1
  <2> QED
    BY <1>3, <1>7, <2>2 DEF ClosedSound, TableStored
<1> QED
  BY <1>1, <1>3, <1>5, <1>7, <1>8, <1>9 DEF c, b

(***************************************************************************)
(* Applying a block of logged records whose earlier tables are stored      *)
(* keeps everything else sound, whoever the chunks belong to.              *)
(***************************************************************************)
LEMMA ApplySound ==
  ASSUME IInv, NEW b \in Block, InLog(log[b.p], b), EarlierStored(log[b.p], rows, b),
         ApplyBlock(b), UNCHANGED groupVars, inflight' \subseteq inflight
  PROVE  /\ rows \subseteq rows' /\ BlockRows(b) \subseteq rows'
         /\ rows' \subseteq Partition \X Int \X STRING /\ dups' \subseteq rows' /\ tokens' \subseteq Block
         /\ CommittedStored' /\ TablesInOrder' /\ StoreSound'
         /\ \A n \in Member, q \in Partition : PartSound(log[q], rows', q, parts[n][q])
         /\ \A n \in Member : \A q \in Fetching(n) :
              OwnerSound(log[q], rows', q, applyRevocations(n, q), pos[n][q], Floor(n, q))
<1> USE DEF IInv, PipelineSound
<1>1. b.p \in Partition /\ b.first \in Int /\ b.last \in Int /\ b.table \in STRING
  BY DEF Block
<1>2. UNCHANGED <<log, committed, owner, pos, lost, gone>>
  BY DEF groupVars
<1>3. /\ rows' = rows \cup BlockRows(b)
      /\ tokens' \subseteq tokens \cup {b}
      /\ dups' \subseteq dups \cup rows
  <2>1. CASE b \in tokens \/ BlockRows(b) = {}
    <3>1. UNCHANGED <<rows, dups, tokens>> /\ BlockRows(b) \subseteq rows
      BY <2>1 DEF ApplyBlock, StoreSound
    <3> QED
      BY <3>1
  <2>2. CASE ~(b \in tokens \/ BlockRows(b) = {})
    BY <2>2 DEF ApplyBlock
  <2> QED
    BY <2>1, <2>2
<1>4. ASSUME NEW x \in BlockRows(b)
      PROVE  /\ x \in Partition \X Int \X STRING
             /\ x[1] = b.p /\ x[2] \in b.first..b.last /\ x[3] = b.table
             /\ x[2] \in 0..(End(b.p) - 1)
  <2>1. PICK o \in b.first..b.last : x = <<b.p, o, b.table>>
    BY DEF BlockRows
  <2>2. o \in Int /\ o \in 0..(End(b.p) - 1)
    BY <1>1, <2>1 DEF InLog, End, TypeOK, GroupTypeOK
  <2> QED
    BY <1>1, <2>1, <2>2
<1>5. /\ rows \subseteq rows' /\ BlockRows(b) \subseteq rows'
      /\ rows' \subseteq Partition \X Int \X STRING /\ dups' \subseteq rows' /\ tokens' \subseteq Block
  BY <1>3, <1>4 DEF TypeOK
<1>6. CommittedStored'
  BY <1>2, <1>5 DEF CommittedStored, Stored, StoredIn, End
<1>7. TablesInOrder'
  <2> SUFFICES ASSUME NEW x \in rows', NEW i \in 1..Len(Tables), NEW j \in 1..Len(Tables),
                      i < j, x[3] = Tables[j], Tables[i] \in Rec(x[1], x[2]).tables
               PROVE  <<x[1], x[2], Tables[i]>> \in rows'
    BY <1>2 DEF TablesInOrder, Rec
  <2>1. CASE x \in rows
    BY <1>5, <2>1 DEF TablesInOrder
  <2>2. CASE x \in BlockRows(b)
    <3>1. x[1] = b.p /\ x[2] \in b.first..b.last /\ b.table = Tables[j]
      BY <1>4, <2>2
    <3>2. i \in 1..(j - 1)
      BY ProcessorAssumption
    <3>3. TableStored(log[b.p], rows, b.p, b, i)
      BY <3>1, <3>2 DEF EarlierStored
    <3> QED
      BY <1>5, <3>1, <3>3 DEF TableStored, Rec
  <2> QED
    BY <1>3, <2>1, <2>2
<1>8. \A q \in Partition : log[q] \in Seq(Record) /\ Continues(log[q], log[q])
  BY DEF TypeOK, GroupTypeOK, Continues
<1>9. StoreSound'
  <2>1. \A d \in tokens' : InLog(log[d.p], d) /\ BlockRows(d) \subseteq rows'
    BY <1>3, <1>5 DEF StoreSound
  <2>2. ASSUME NEW d \in inflight PROVE InLog(log[d.p], d) /\ EarlierStored(log[d.p], rows', d)
    <3>1. /\ InLog(log[d.p], d) /\ EarlierStored(log[d.p], rows, d)
          /\ d.p \in Partition /\ d.first \in Int /\ d.last \in Int
      BY DEF StoreSound, TypeOK, Block
    <3>2. \A i : TableStored(log[d.p], rows, d.p, d, i) => TableStored(log[d.p], rows', d.p, d, i)
      BY <1>5 DEF TableStored
    <3> QED
      BY <3>1, <3>2 DEF EarlierStored
  <2>3. \A x \in rows' : x[2] \in 0..(End(x[1]) - 1)
    BY <1>3, <1>4 DEF StoreSound
  <2>4. \A d \in tokens' : BlockRows(d)' = BlockRows(d)
    BY <1>2 DEF BlockRows, Rec
  <2> QED
    BY <1>2, <2>1, <2>2, <2>3, <2>4 DEF StoreSound, End
<1>10. \A n \in Member, q \in Partition : PartSound(log[q], rows', q, parts[n][q])
  <2> TAKE n \in Member, q \in Partition
  <2>1. parts[n][q] \in Part /\ PartSound(log[q], rows, q, parts[n][q])
    BY DEF TypeOK, ChunksSound
  <2> QED
    BY <1>5, <1>8, <2>1, GrowPart
<1>11. ASSUME NEW n \in Member, NEW q \in Fetching(n)
       PROVE  OwnerSound(log[q], rows', q, applyRevocations(n, q), pos[n][q], Floor(n, q))
  <2>1. /\ q \in Partition /\ pos[n][q] \in Nat /\ Floor(n, q) \in Nat
        /\ applyRevocations(n, q) \in Part
    BY KeptSound DEF TypeOK, GroupTypeOK, Fetching, Owned, Floor
  <2>2. pos[n][q] <= Len(log[q])
    <3>1. pos[n][q] + batch[n][q] <= Len(log[q]) /\ batch[n][q] \in Nat /\ Len(log[q]) \in Nat
      BY <2>1 DEF GroupSound, End, TypeOK, GroupTypeOK
    <3> QED
      BY <2>1, <3>1
  <2>3. OwnerSound(log[q], rows, q, applyRevocations(n, q), pos[n][q], Floor(n, q))
    BY DEF OwnersSound
  <2> QED
    BY <1>5, <1>8, <2>1, <2>2, <2>3, GrowOwner
<1> QED
  BY <1>5, <1>6, <1>7, <1>9, <1>10, <1>11

LEMMA ApplyLateStep ==
  ASSUME IInv, NEW b \in inflight, ApplyLate(b)
  PROVE  IInv'
<1> USE DEF IInv, PipelineSound
<1>1. /\ ApplyBlock(b) /\ inflight' = inflight \ {b}
      /\ UNCHANGED <<groupVars, localVars, timed, budget>>
  BY DEF ApplyLate
<1>2. b \in Block /\ InLog(log[b.p], b) /\ EarlierStored(log[b.p], rows, b)
  BY DEF TypeOK, StoreSound
<1>3. /\ rows' \subseteq Partition \X Int \X STRING /\ dups' \subseteq rows' /\ tokens' \subseteq Block
      /\ CommittedStored' /\ TablesInOrder' /\ StoreSound'
      /\ \A n \in Member, q \in Partition : PartSound(log[q], rows', q, parts[n][q])
      /\ \A n \in Member : \A q \in Fetching(n) :
           OwnerSound(log[q], rows', q, applyRevocations(n, q), pos[n][q], Floor(n, q))
  BY <1>1, <1>2, ApplySound
<1>4. TypeOK'
  BY <1>1, <1>3 DEF TypeOK, GroupTypeOK, groupVars, localVars
<1>5. ChunksSound'
  BY <1>1, <1>3 DEF ChunksSound, groupVars, localVars
<1>6. GroupSound'
  BY <1>1 DEF GroupSound, groupVars, localVars, Owned, Fetching, End
<1>7. OwnersSound'
  BY <1>1, <1>3 DEF OwnersSound, groupVars, localVars, Owned, Fetching, Floor, applyRevocations
<1> QED
  BY <1>3, <1>4, <1>5, <1>6, <1>7

LEMMA WriteFailsStep ==
  ASSUME IInv, NEW m \in Member, NEW p \in Partition, NEW i, WriteFails(m, p, i)
  PROVE  IInv'
<1> USE DEF IInv, PipelineSound
<1> DEFINE b == NextBlock(m, p, i)
<1>1. /\ Writing(m, p, i) /\ inflight' = inflight \cup {b}
      /\ UNCHANGED <<groupVars, localVars, rows, dups, tokens, timed>>
  BY DEF WriteFails
<1>2. b \in Block /\ InLog(log[b.p], b) /\ EarlierStored(log[b.p], rows, b)
  BY <1>1, NextBlockSound
<1> HIDE DEF b
<1>3. TypeOK'
  <2>1. budget' \in [Fault -> Nat]
    BY SpendType DEF WriteFails, TypeOK, Fault
  <2> QED
    BY <1>1, <1>2, <2>1 DEF TypeOK, GroupTypeOK, groupVars, localVars
<1>4. UNCHANGED <<log, committed, owner, pos, lost, gone>>
  BY <1>1 DEF groupVars
<1>5. CommittedStored' /\ ChunksSound'
  BY <1>1, <1>4, CommittedFrame, ChunksFrame DEF localVars
<1>6. TablesInOrder'
  BY <1>1, <1>4 DEF TablesInOrder, Rec
<1>7. StoreSound'
  BY <1>1, <1>2, <1>4 DEF StoreSound, BlockRows, Rec, End
<1>8. GroupSound'
  BY <1>1, <1>4 DEF GroupSound, localVars, Owned, Fetching, End
<1>9. OwnersSound'
  BY <1>1, <1>4 DEF OwnersSound, localVars, Owned, Fetching, Floor, applyRevocations
<1> QED
  BY <1>3, <1>5, <1>6, <1>7, <1>8, <1>9

(* A worker's progress through the tables keeps a partition's chunks where they are. *)
LEMMA AdvanceSound ==
  ASSUME NEW L \in Seq(Record), NEW R, NEW p, NEW ps \in Part, NEW i \in 1..Len(ps.closed),
         ps.closed[i].tab < Len(Tables), PartSound(L, R, p, ps),
         TableStored(L, R, p, ps.closed[i], ps.closed[i].tab + 1),
         NEW k, NEW cm
  PROVE  LET new == [ps EXCEPT !.closed[i] = Advance(@)] IN
         /\ new \in Part
         /\ PartSound(L, R, p, new)
         /\ OwnerSound(L, R, p, ps, k, cm) => OwnerSound(L, R, p, new, k, cm)
<1> DEFINE c   == ps.closed[i]
           a   == Advance(c)
           cl  == [ps.closed EXCEPT ![i] = a]
           new == [ps EXCEPT !.closed[i] = Advance(@)]
<1>1. ps.closed \in Seq(Chunk) /\ c \in Chunk /\ Len(Tables) \in Nat
  BY ProcessorAssumption DEF Part
<1>2. ClosedSound(L, R, p, c)
  BY DEF PartSound
<1>3. /\ a \in Chunk /\ a.first = c.first /\ a.last = c.last /\ a.tab = c.tab + 1
      /\ a.status = IF c.tab + 1 = Len(Tables) THEN "stored" ELSE c.status
  <2> HIDE DEF c
  <2>1. c.tab + 1 \in 0..Len(Tables)
    <3>1. c.tab \in 0..Len(Tables) /\ c.tab < Len(Tables)
      BY <1>1 DEF Chunk, c
    <3> QED
      BY <1>1, <3>1
  <2> QED
    BY <1>1, <2>1 DEF Advance, Chunk
<1> HIDE DEF c
<1>4. ClosedSound(L, R, p, a)
  <2>1. c.tab \in 0..Len(Tables)
    BY <1>1 DEF Chunk
  <2>2. TableStored(L, R, p, c, c.tab + 1)
    BY DEF c
  <2>3. \A j \in 1..(c.tab + 1) : TableStored(L, R, p, c, j)
    <3> TAKE j \in 1..(c.tab + 1)
    <3>1. j \in 1..c.tab \/ j = c.tab + 1
      BY <1>1, <2>1
    <3> QED
      BY <1>2, <2>2, <3>1 DEF ClosedSound
  <2>4. \A j : TableStored(L, R, p, c, j) => TableStored(L, R, p, a, j)
    BY <1>3 DEF TableStored
  <2>5. InLog(L, a)
    BY <1>2, <1>3 DEF ClosedSound, InLog
  <2> HIDE DEF a
  <2>6. a.status = "stored" => \A j \in 1..Len(Tables) : TableStored(L, R, p, c, j)
    <3>1. CASE c.tab + 1 = Len(Tables)
      BY <2>3, <3>1
    <3>2. CASE c.tab + 1 # Len(Tables)
      BY <1>2, <1>3, <3>2 DEF ClosedSound
    <3> QED
      BY <3>1, <3>2
  <2> QED
    BY <1>3, <2>3, <2>4, <2>5, <2>6 DEF ClosedSound
<1> HIDE DEF a
<1>5. /\ cl \in Seq(Chunk) /\ Len(cl) = Len(ps.closed)
      /\ \A j \in 1..Len(ps.closed) : cl[j] = IF j = i THEN a ELSE ps.closed[j]
  BY <1>1, <1>3
<1>6. new = [ps EXCEPT !.closed = cl]
  BY DEF Part, a, c
<1> HIDE DEF cl, new
<1>7. /\ new \in Part /\ new.closed = cl /\ new.open = ps.open /\ new.lastOffset = ps.lastOffset
  BY <1>5, <1>6 DEF Part
<1>8. PartSound(L, R, p, new)
  BY <1>4, <1>5, <1>7 DEF PartSound
<1>9. \A j \in 1..Len(ps.closed) : cl[j].first = ps.closed[j].first /\ cl[j].last = ps.closed[j].last
  BY <1>3, <1>5 DEF c
<1>10. OwnerSound(L, R, p, ps, k, cm) => OwnerSound(L, R, p, new, k, cm)
  BY <1>5, <1>7, <1>9 DEF OwnerSound, Covers
<1> QED
  BY <1>7, <1>8, <1>10 DEF new

LEMMA WriteTableStep ==
  ASSUME IInv, NEW m \in Member, NEW p \in Partition, NEW i, WriteTable(m, p, i)
  PROVE  IInv'
<1> USE DEF IInv, PipelineSound
<1> DEFINE b   == NextBlock(m, p, i)
           c   == parts[m][p].closed[i]
           new == [parts[m][p] EXCEPT !.closed[i] = Advance(@)]
<1>1. /\ Writing(m, p, i) /\ ApplyBlock(b)
      /\ parts' = [parts EXCEPT ![m][p].closed[i] = Advance(@)]
      /\ UNCHANGED <<groupVars, pc, cancelled, batch, cur, inflight, timed, budget>>
  BY DEF WriteTable
<1>2. /\ i \in 1..Len(parts[m][p].closed) /\ c \in Chunk /\ c.tab \in 0..(Len(Tables) - 1)
      /\ b \in Block /\ b.p = p /\ b.first = c.first /\ b.last = c.last
      /\ b.table = Tables[c.tab + 1]
      /\ InLog(log[b.p], b) /\ EarlierStored(log[b.p], rows, b)
  BY <1>1, NextBlockSound
<1> HIDE DEF b
<1>3. /\ rows \subseteq rows' /\ BlockRows(b) \subseteq rows'
      /\ rows' \subseteq Partition \X Int \X STRING /\ dups' \subseteq rows' /\ tokens' \subseteq Block
      /\ CommittedStored' /\ TablesInOrder' /\ StoreSound'
      /\ \A n \in Member, q \in Partition : PartSound(log[q], rows', q, parts[n][q])
      /\ \A n \in Member : \A q \in Fetching(n) :
           OwnerSound(log[q], rows', q, applyRevocations(n, q), pos[n][q], Floor(n, q))
  BY <1>1, <1>2, ApplySound
<1>4. UNCHANGED <<log, committed, owner, pos, lost, gone>>
  BY <1>1 DEF groupVars
<1>5. TableStored(log[p], rows', p, c, c.tab + 1)
  BY <1>2, <1>3 DEF TableStored, BlockRows, Rec
<1>6. parts[m][p] \in Part /\ log[p] \in Seq(Record) /\ c.tab < Len(Tables)
  <2>1. Len(Tables) \in Nat
    BY ProcessorAssumption
  <2>2. parts[m][p] \in Part /\ log[p] \in Seq(Record)
    BY DEF TypeOK, GroupTypeOK
  <2> QED
    BY <1>2, <2>1, <2>2
<1>7. /\ new \in Part /\ PartSound(log[p], rows', p, new)
      /\ \A k, cm : OwnerSound(log[p], rows', p, parts[m][p], k, cm)
                       => OwnerSound(log[p], rows', p, new, k, cm)
  BY <1>2, <1>3, <1>5, <1>6, AdvanceSound
<1>8. parts' = [parts EXCEPT ![m][p] = new]
  BY <1>1 DEF TypeOK
<1>9. gone[m] = {} /\ p \in Fetching(m)
  <2>1. pc[m] # "poll"
    BY <1>1 DEF Writing, Flushing
  <2>2. gone[m] = {}
    BY <2>1 DEF GroupSound
  <2>3. parts[m][p] # NewPart
    BY <1>2 DEF NewPart
  <2> QED
    BY <2>2, <2>3 DEF GroupSound
<1> HIDE DEF new, c
<1>10. TypeOK'
  <2>1. parts' \in [Member -> [Partition -> Part]]
    BY <1>7, <1>8 DEF TypeOK
  <2>2. UNCHANGED <<pc, cancelled, batch, cur, inflight, timed, budget>>
    BY <1>1
  <2> QED
    BY <1>3, <1>4, <2>1, <2>2 DEF TypeOK, GroupTypeOK
<1>11. \A n \in Member, q \in Partition :
          parts'[n][q] = IF n = m /\ q = p THEN new ELSE parts[n][q]
  BY <1>8 DEF TypeOK
<1>12. ChunksSound'
  BY <1>3, <1>4, <1>7, <1>11 DEF ChunksSound
<1>13. \A n \in Member : Owned(n)' = Owned(n) /\ Fetching(n)' = Fetching(n)
  BY <1>4 DEF Owned, Fetching
<1>14. GroupSound'
  <2> SUFFICES ASSUME NEW n \in Member PROVE
        /\ lost[n] # {} => Owned(n) = {}
        /\ gone[n] # {} => pc[n] = "poll"
        /\ pc[n] = "down" => Fetching(n) = {}
        /\ \A q \in Partition :
             /\ pos[n][q] + batch[n][q] <= End(q)
             /\ q \notin Fetching(n) \/ pc[n] \in {"poll", "flush"} => batch[n][q] = 0
             /\ q \notin Fetching(n) \cup gone[n] => parts'[n][q] = NewPart
    BY <1>1, <1>4, <1>13 DEF GroupSound, End
  <2> QED
    BY <1>9, <1>11 DEF GroupSound
<1>15. OwnersSound'
  <2> SUFFICES ASSUME NEW n \in Member, NEW q \in Fetching(n)
               PROVE  OwnerSound(log[q], rows', q, applyRevocations(n, q)', pos[n][q], Floor(n, q))
    BY <1>4, <1>13 DEF OwnersSound, Floor
  <2>1. q \in Partition
    BY DEF Fetching, Owned, TypeOK, GroupTypeOK
  <2>2. CASE n = m /\ q = p
    <3>1. applyRevocations(n, q) = parts[m][p] /\ applyRevocations(n, q)' = new
      BY <1>4, <1>9, <1>11, <2>2 DEF applyRevocations
    <3> QED
      BY <1>3, <1>7, <2>2, <3>1
  <2>3. CASE ~(n = m /\ q = p)
    <3>1. applyRevocations(n, q)' = applyRevocations(n, q)
      BY <1>4, <1>11, <2>1, <2>3 DEF applyRevocations
    <3> QED
      BY <1>3, <3>1
  <2> QED
    BY <2>2, <2>3
<1> QED
  BY <1>3, <1>10, <1>12, <1>14, <1>15

-----------------------------------------------------------------------------
(* The theorems. *)

LEMMA InitInv == Init => IInv
<1> SUFFICES ASSUME Init PROVE IInv
  OBVIOUS
<1> USE DEF Init, GroupInit
<1>1. \A m \in Member : Owned(m) = {} /\ Fetching(m) = {}
  BY GroupAssumption DEF Owned, Fetching
<1>2. TypeOK
  BY ProcessorAssumption, NoneType DEF TypeOK, GroupTypeOK
<1>3. CommittedStored
  BY DEF CommittedStored
<1>4. TablesInOrder /\ StoreSound
  BY DEF TablesInOrder, StoreSound
<1>5. ChunksSound
  <2> SUFFICES ASSUME NEW p \in Partition PROVE PartSound(log[p], rows, p, NewPart)
    BY DEF ChunksSound
  <2>1. log[p] \in Seq(Record) /\ 0 \in Nat /\ \A o \in 0..(0 - 1) : StoredIn(log[p], rows, p, o)
    BY <1>2 DEF TypeOK, GroupTypeOK
  <2> QED
    BY <2>1, NewPartSound
<1>6. GroupSound
  BY <1>1 DEF GroupSound, End
<1>7. OwnersSound
  BY <1>1 DEF OwnersSound
<1> QED
  BY <1>2, <1>3, <1>4, <1>5, <1>6, <1>7 DEF IInv, PipelineSound

LEMMA Unchanged ==
  ASSUME IInv, UNCHANGED vars
  PROVE  IInv'
<1> USE DEF IInv, PipelineSound, vars, groupVars, localVars, storeVars
<1>1. TypeOK'
  BY DEF TypeOK, GroupTypeOK
<1>2. CommittedStored' /\ TablesInOrder' /\ StoreSound' /\ ChunksSound'
  BY CommittedFrame, StoreFrame, ChunksFrame
<1>3. GroupSound'
  BY DEF GroupSound, Owned, Fetching, End
<1>4. OwnersSound'
  BY DEF OwnersSound, Owned, Fetching, Floor, applyRevocations
<1> QED
  BY <1>1, <1>2, <1>3, <1>4

(* Every action keeps the invariant, and none moves a committed offset back. *)
LEMMA NextStep ==
  ASSUME IInv, Next
  PROVE  IInv' /\ \A p \in Partition : committed'[p] >= committed[p]
<1>0. UNCHANGED committed => \A p \in Partition : committed'[p] >= committed[p]
  BY DEF IInv, TypeOK, GroupTypeOK
<1>1. CASE \E p \in Partition : ProduceRecord(p)
  BY <1>0, <1>1, ProduceStep DEF ProduceRecord, Produce
<1>2. CASE \E b \in inflight : ApplyLate(b)
  BY <1>0, <1>2, ApplyLateStep DEF ApplyLate, groupVars
<1>3. ASSUME NEW m \in Member, \E p \in Partition : AssignPartition(m, p) \/ RevokePartition(m, p)
      PROVE  IInv' /\ UNCHANGED committed
  BY <1>3, AssignStep, RevokeStep DEF AssignPartition, RevokePartition, Assign, Revoke
<1>4. ASSUME NEW m \in Member, ExpelMember(m) \/ NoticeLoss(m)
      PROVE  IInv' /\ UNCHANGED committed
  BY <1>4, ExpelStep, NoticeStep DEF ExpelMember, NoticeLoss, Expel, Notice
<1>5. ASSUME NEW m \in Member, Start(m) \/ Cancel(m) \/ Crash(m) \/ Exit(m)
      PROVE  IInv' /\ UNCHANGED committed
  BY <1>5, StartStep, CancelStep, CrashStep, ExitStep DEF Start, Cancel, Crash, Exit, Leave, groupVars
<1>6. ASSUME NEW m \in Member, \E p \in Partition : \E i \in 1..MaxLog : WriteFails(m, p, i) \/ WriteTable(m, p, i)
      PROVE  IInv' /\ UNCHANGED committed
  <2>1. PICK p \in Partition : \E i \in 1..MaxLog : WriteFails(m, p, i) \/ WriteTable(m, p, i)
    BY <1>6
  <2>2. PICK i \in 1..MaxLog : WriteFails(m, p, i) \/ WriteTable(m, p, i)
    BY <2>1
  <2> QED
    BY <2>2, WriteFailsStep, WriteTableStep DEF WriteFails, WriteTable, groupVars
<1>7. ASSUME NEW m \in Member,
             \/ PollRecords(m) \/ EndBatch(m) \/ EndBatchCancelled(m)
             \/ \E p \in Partition : AddRecord(m, p)
      PROVE  IInv' /\ UNCHANGED committed
  BY <1>7, PollStep, AddRecordStep, EndBatchStep, EndBatchCancelledStep
     DEF PollRecords, AddRecord, EndBatch, EndBatchCancelled, groupVars
<1>8. ASSUME NEW m \in Member, FlushEnd(m)
      PROVE  IInv' /\ \A p \in Partition : committed'[p] >= committed[p]
  BY <1>8, FlushEndStep
<1> QED
  BY <1>0, <1>1, <1>2, <1>3, <1>4, <1>5, <1>6, <1>7, <1>8 DEF Next, Step, FlushEnd

(***************************************************************************)
(* The whole inductive invariant holds in every reachable state: the       *)
(* consumer loop, the workers of flushClosed, the group and ClickHouse     *)
(* stay in step.                                                           *)
(***************************************************************************)
THEOREM Invariance == Spec => [](TypeOK /\ PipelineSound)
<1>1. Init => IInv
  BY InitInv
<1>2. IInv /\ [Next]_vars => IInv'
  BY NextStep, Unchanged
<1>3. IInv => TypeOK /\ PipelineSound
  BY DEF IInv
<1> QED
  BY <1>1, <1>2, <1>3, PTL DEF Spec

(* Every variable of the processors keeps its type. *)
THEOREM TypeCorrect == Spec => []TypeOK
BY Invariance, PTL

(***************************************************************************)
(* At-least-once: flushClosed commits an offset only when every row of     *)
(* every record below it is in ClickHouse, for any number of processors,   *)
(* partitions, records, tables, crashes, expulsions and failed inserts.    *)
(***************************************************************************)
THEOREM AtLeastOnce == Spec => []CommittedStored
<1>1. PipelineSound => CommittedStored
  BY DEF PipelineSound
<1> QED
  BY <1>1, Invariance, PTL

(***************************************************************************)
(* writeTables' order is visible in the store whatever is retried, applied *)
(* late or delivered again: a row of a table comes after the rows of the   *)
(* same record in the tables before it.                                    *)
(***************************************************************************)
THEOREM HostsLast == Spec => []TablesInOrder
<1>1. PipelineSound => TablesInOrder
  BY DEF PipelineSound
<1> QED
  BY <1>1, Invariance, PTL

(***************************************************************************)
(* A commit never moves a partition's offset back, also when the member    *)
(* was fenced, revoked or given the partition again in the meantime.       *)
(***************************************************************************)
THEOREM NoCommitBack == Spec => CommitsForward
<1>1. IInv /\ [Next]_vars => [\A p \in Partition : committed'[p] >= committed[p]]_vars
  BY NextStep
<1>2. TypeOK /\ PipelineSound => IInv
  BY DEF IInv
<1> QED
  BY <1>1, <1>2, Invariance, PTL DEF Spec, CommitsForward

(* What is written stays: logs only grow at their end, and rows are never deleted. *)
LEMMA NothingUnwritten ==
  ASSUME IInv, Next
  PROVE  /\ rows \subseteq rows'
         /\ \A p \in Partition : Continues(log[p], log'[p])
<1>0. UNCHANGED log => \A p \in Partition : Continues(log[p], log'[p])
  BY DEF IInv, TypeOK, GroupTypeOK, Continues
<1>1. ASSUME NEW b, ApplyBlock(b)
      PROVE  rows \subseteq rows'
  BY <1>1 DEF ApplyBlock
<1>2. ASSUME NEW p \in Partition, ProduceRecord(p)
      PROVE  rows \subseteq rows' /\ \A q \in Partition : Continues(log[q], log'[q])
  <2>1. UNCHANGED rows
    BY <1>2 DEF ProduceRecord, storeVars
  <2>2. PICK r \in Record : log' = [log EXCEPT ![p] = Append(@, r)]
    BY <1>2 DEF ProduceRecord, Produce
  <2>3. ASSUME NEW q \in Partition PROVE Continues(log[q], log'[q])
    <3>1. log[q] \in Seq(Record) /\ log'[q] = IF q = p THEN Append(log[q], r) ELSE log[q]
      BY <2>2 DEF IInv, TypeOK, GroupTypeOK
    <3> QED
      BY <3>1 DEF Continues
  <2> QED
    BY <2>1, <2>3
<1>3. ASSUME NEW b \in inflight, ApplyLate(b)
      PROVE  rows \subseteq rows' /\ UNCHANGED log
  BY <1>1, <1>3 DEF ApplyLate, groupVars
<1>4. ASSUME NEW m \in Member, NEW p \in Partition, AssignPartition(m, p) \/ RevokePartition(m, p)
      PROVE  UNCHANGED <<rows, log>>
  BY <1>4 DEF AssignPartition, RevokePartition, Assign, Revoke, storeVars
<1>5. ASSUME NEW m \in Member, ExpelMember(m) \/ NoticeLoss(m) \/ Start(m) \/ Cancel(m) \/ Crash(m) \/ Exit(m)
      PROVE  UNCHANGED <<rows, log>>
  BY <1>5 DEF ExpelMember, NoticeLoss, Expel, Notice, Start, Cancel, Crash, Exit, Leave, storeVars, groupVars
<1>6. ASSUME NEW m \in Member, NEW p \in Partition, NEW i \in 1..MaxLog, WriteFails(m, p, i) \/ WriteTable(m, p, i)
      PROVE  rows \subseteq rows' /\ UNCHANGED log
  BY <1>1, <1>6 DEF WriteFails, WriteTable, groupVars
<1>7. ASSUME NEW m \in Member,
             \/ PollRecords(m) \/ EndBatch(m) \/ EndBatchCancelled(m)
             \/ \E p \in Partition : AddRecord(m, p)
      PROVE  UNCHANGED <<rows, log>>
  BY <1>7 DEF PollRecords, AddRecord, EndBatch, EndBatchCancelled, groupVars, storeVars
<1>8. ASSUME NEW m \in Member, FlushEnd(m)
      PROVE  UNCHANGED <<rows, log>>
  BY <1>8 DEF FlushEnd, FlushDone, RelieveDone, FlushCancelled, FinalTimeout, FlushStep, storeVars
<1> QED
  BY <1>0, <1>2, <1>3, <1>4, <1>5, <1>6, <1>7, <1>8 DEF Next, Step, FlushEnd

(* A record stays stored. *)
LEMMA StaysStored ==
  ASSUME NEW p, NEW L \in Seq(Record), NEW M \in Seq(Record), NEW R, NEW S,
         Continues(L, M), R \subseteq S,
         NEW o \in 0..(Len(L) - 1), StoredIn(L, R, p, o)
  PROVE  o \in 0..(Len(M) - 1) /\ StoredIn(M, S, p, o)
BY DEF Continues, StoredIn

(***************************************************************************)
(* The processors implement RecordPipe: for any group, log and faults the  *)
(* commits of flushClosed acknowledge only what writeTables has stored and *)
(* what was produced, stored or acknowledged stays so.                     *)
(***************************************************************************)
THEOREM PipeImplemented == Spec => DeliversAtLeastOnce
<1>1. Init => Pipe!Init
  <2> SUFFICES ASSUME Init PROVE Pipe!Init
    OBVIOUS
  <2>1. \A p \in Partition : End(p) = 0
    BY DEF Init, GroupInit, End
  <2>2. \A p \in Partition : {o \in 0..(End(p) - 1) : Stored(p, o)} = {}
    BY <2>1
  <2> QED
    BY <2>1, <2>2 DEF Pipe!Init, Init, GroupInit
<1>2. ASSUME IInv, IInv', Next
      PROVE  Pipe!Deliver
  <2> DEFINE H(p) == {o \in 0..(End(p) - 1) : Stored(p, o)}
  <2>1. \A p \in Partition :
          /\ End(p)' \in Nat /\ committed'[p] \in Nat /\ H(p)' \subseteq Nat
          /\ H(p)' \subseteq 0..(End(p)' - 1)
          /\ 0..(committed'[p] - 1) \subseteq H(p)'
    <3> TAKE p \in Partition
    <3>1. End(p)' \in Nat /\ committed'[p] \in Nat
      BY <1>2 DEF IInv, TypeOK, GroupTypeOK, End
    <3>2. \A o \in 0..(committed'[p] - 1) : o < End(p)' /\ Stored(p, o)'
      BY <1>2 DEF IInv, PipelineSound, CommittedStored
    <3> QED
      BY <3>1, <3>2
  <2>2. ASSUME NEW p \in Partition
        PROVE  End(p) <= End(p)' /\ H(p) \subseteq H(p)' /\ committed[p] <= committed'[p]
    <3>1. log[p] \in Seq(Record) /\ log'[p] \in Seq(Record)
      BY <1>2 DEF IInv, TypeOK, GroupTypeOK
    <3>2. Continues(log[p], log'[p]) /\ rows \subseteq rows'
      BY <1>2, NothingUnwritten
    <3>3. Len(log[p]) <= Len(log'[p])
      BY <3>1, <3>2 DEF Continues
    <3>4. \A o \in 0..(Len(log[p]) - 1) :
            StoredIn(log[p], rows, p, o) => o \in 0..(Len(log'[p]) - 1) /\ StoredIn(log'[p], rows', p, o)
      BY <3>1, <3>2, StaysStored
    <3>5. committed[p] <= committed'[p]
      BY <1>2, <2>1, NextStep DEF IInv, TypeOK, GroupTypeOK
    <3> QED
      BY <3>3, <3>4, <3>5 DEF End, Stored
  <2>3. committed' = [p \in Partition |-> committed'[p]]
    BY <1>2 DEF IInv, TypeOK, GroupTypeOK
  <2> HIDE DEF H
  <2> QED
    BY <2>1, <2>2, <2>3 DEF Pipe!Deliver, H
<1>3. ASSUME UNCHANGED vars
      PROVE  UNCHANGED Pipe!vars
  BY <1>3 DEF Pipe!vars, vars, groupVars, storeVars, End, Stored
<1>4. IInv /\ IInv' /\ [Next]_vars => [Pipe!Deliver]_(Pipe!vars)
  BY <1>2, <1>3
<1>5. TypeOK /\ PipelineSound => IInv
  BY DEF IInv
<1> QED
  BY <1>1, <1>4, <1>5, Invariance, PTL DEF Spec, DeliversAtLeastOnce, Pipe!Spec

-----------------------------------------------------------------------------
(***************************************************************************)
(* Deduplication.  Window and byte cuts alone divide a log in one way; the *)
(* second layer of the invariant says that every chunk that does not come  *)
(* after a cut of timing is a chunk of that division.                      *)
(***************************************************************************)

(* A chunk of the division up to one of its records: what add has in its open chunk before it closes it. *)
Segment == [first : Nat, win : Nat, bytes : Nat]

Alone(r, o) == [first |-> o, win |-> r.win, bytes |-> r.size]

(* The segment s is complete without the record r that follows it. *)
Full(s, r) == s.bytes >= BatchBytes \/ r.win > s.win

Longer(s, r) == [first |-> s.first, win |-> s.win, bytes |-> s.bytes + r.size]

(* g[o] is the segment that ends with the record at offset o of the log L. *)
Divides(g, L) ==
    /\ Len(L) > 0 => g[0] = Alone(L[1], 0)
    /\ \A o \in 1..(Len(L) - 1) :
         g[o] = IF Full(g[o - 1], L[o + 1]) THEN Alone(L[o + 1], o) ELSE Longer(g[o - 1], L[o + 1])
    /\ \A o \in 0..(Len(L) - 1) : g[o].first <= o
    /\ \A o, q \in 0..(Len(L) - 1) : o <= q /\ g[q].first <= o => g[o].first = g[q].first

(* The division has a cut after the record at o. *)
Ends(g, L, o) ==
    /\ o \in 0..(Len(L) - 1)
    /\ g[o].bytes >= BatchBytes \/ (o + 1 < Len(L) /\ g[o + 1].first = o + 1)

(* A chunk cut by timing starts at or before o; T are the first offsets of such chunks. *)
Excused(T, o) == \E f \in T : f <= o

(* The records c.first..c.last are a chunk of the division. *)
Natural(g, L, T, c) == Excused(T, c.first) \/ (Ends(g, L, c.last) /\ g[c.last].first = c.first)

(* A chunk of the division starts at k. *)
Boundary(g, L, T, k) == k = 0 \/ Excused(T, k - 1) \/ Ends(g, L, k - 1)

(* The chunks of a partition that was read up to k. *)
PartNatural(g, L, T, ps, k) ==
    /\ \A i \in 1..Len(ps.closed) : Natural(g, L, T, ps.closed[i])
    /\ ps.open = NoChunk => Boundary(g, L, T, k)
    /\ ps.open # NoChunk =>
         /\ ps.open.last = k - 1
         /\ ps.open.bytes < BatchBytes
         /\ \/ Excused(T, ps.open.first)
            \/ g[k - 1] = [first |-> ps.open.first, win |-> ps.open.win, bytes |-> ps.open.bytes]

ReadNatural(g) ==
    \A m \in Member : \A p \in Fetching(m) :
        PartNatural(g[p], log[p], timed[p], applyRevocations(m, p), pos[m][p])

CommitsNatural(g) == \A p \in Partition : Boundary(g[p], log[p], timed[p], committed[p])

BlocksNatural(g) ==
    \A b \in tokens \cup inflight : Natural(g[b.p], log[b.p], timed[b.p], b)

(* A row was stored with a block that is remembered. *)
RowsRemembered == \A x \in rows : \E b \in tokens : x \in BlockRows(b)

CutsSound(g) ==
    /\ \A p \in Partition : Divides(g[p], log[p])
    /\ CommitsNatural(g)
    /\ ReadNatural(g)
    /\ BlocksNatural(g)
    /\ RowsRemembered
    /\ DuplicatesNeedTimedCut

Division == [Partition -> [Nat -> Segment]]

(* The second layer of the invariant. *)
CutInv == \E g \in Division : CutsSound(g)

-----------------------------------------------------------------------------
(* The division of a log. *)

(* A log that grows is divided like before, and its new record belongs to one segment. *)
LEMMA DivideMore ==
  ASSUME NEW g \in [Nat -> Segment], NEW L \in Seq(Record), NEW r \in Record, Divides(g, L)
  PROVE  \E h \in [Nat -> Segment] :
           Divides(h, Append(L, r)) /\ \A o \in 0..(Len(L) - 1) : h[o] = g[o]
<1> DEFINE n == Len(L)
           M == Append(L, r)
           s == IF n = 0 \/ Full(g[n - 1], r) THEN Alone(r, n) ELSE Longer(g[n - 1], r)
           h == [g EXCEPT ![n] = s]
<1>1. /\ n \in Nat /\ Len(M) = n + 1 /\ M[n + 1] = r
      /\ \A i \in 1..n : M[i] = L[i]
  OBVIOUS
<1>2. r.win \in Nat /\ r.size \in Nat
  BY ProcessorAssumption
<1>3. Alone(r, n) \in Segment
  BY <1>1, <1>2 DEF Alone, Segment
<1>4. n > 0 => g[n - 1] \in Segment /\ Longer(g[n - 1], r) \in Segment
  <2>1. n > 0 => g[n - 1] \in Segment
    BY <1>1
  <2>2. ASSUME NEW t \in Segment PROVE Longer(t, r) \in Segment
    <3>1. t.first \in Nat /\ t.win \in Nat /\ t.bytes \in Nat
      BY DEF Segment
    <3>2. t.bytes + r.size \in Nat
      BY <1>2, <3>1
    <3> QED
      BY <3>1, <3>2 DEF Longer, Segment
  <2> QED
    BY <2>1, <2>2
<1>5. s \in Segment
  BY <1>1, <1>3, <1>4
<1>6. s = Alone(r, n) \/ (n > 0 /\ s = Longer(g[n - 1], r))
  BY <1>1
<1>7. \/ s.first = n
      \/ n > 0 /\ s.first = g[n - 1].first /\ s.first <= n - 1
  <2>1. n > 0 => g[n - 1].first <= n - 1
    BY <1>1 DEF Divides
  <2> QED
    BY <1>6, <2>1 DEF Alone, Longer
<1>8. n = 0 => s = Alone(r, n)
  OBVIOUS
<1>9. n > 0 => s = IF Full(g[n - 1], r) THEN Alone(r, n) ELSE Longer(g[n - 1], r)
  BY <1>1
<1> HIDE DEF s, M
<1>10. h \in [Nat -> Segment] /\ h[n] = s /\ \A o \in Nat : o # n => h[o] = g[o]
  BY <1>1, <1>5
<1> HIDE DEF h
<1>11. Len(M) > 0 => h[0] = Alone(M[1], 0)
  <2>1. CASE n = 0
    BY <1>1, <1>8, <1>10, <2>1
  <2>2. CASE n # 0
    BY <1>1, <1>10, <2>2 DEF Divides
  <2> QED
    BY <2>1, <2>2
<1>12. ASSUME NEW o \in 1..(Len(M) - 1)
       PROVE  h[o] = IF Full(h[o - 1], M[o + 1]) THEN Alone(M[o + 1], o) ELSE Longer(h[o - 1], M[o + 1])
  <2>1. CASE o = n
    <3>1. n > 0 /\ h[o - 1] = g[n - 1]
      BY <1>1, <1>10, <2>1
    <3> QED
      BY <1>1, <1>9, <1>10, <2>1, <3>1
  <2>2. CASE o # n
    <3>1. o \in 1..(n - 1) /\ o - 1 \in Nat /\ o - 1 # n /\ o + 1 \in 1..n
      BY <1>1, <2>2
    <3>2. h[o] = g[o] /\ h[o - 1] = g[o - 1] /\ M[o + 1] = L[o + 1]
      BY <1>1, <1>10, <3>1
    <3> QED
      BY <3>1, <3>2 DEF Divides
  <2> QED
    BY <2>1, <2>2
<1>13. \A o \in 0..(Len(M) - 1) : h[o].first \in Nat /\ h[o].first <= o
  <2> TAKE o \in 0..(Len(M) - 1)
  <2>1. CASE o = n
    <3>1. s.first \in Nat
      BY <1>5 DEF Segment
    <3> QED
      BY <1>1, <1>7, <1>10, <2>1, <3>1
  <2>2. CASE o # n
    <3>1. o \in 0..(n - 1) /\ h[o] = g[o] /\ g[o] \in Segment
      BY <1>1, <1>10, <2>2
    <3> QED
      BY <3>1 DEF Divides, Segment
  <2> QED
    BY <2>1, <2>2
<1>14. ASSUME NEW o \in 0..(Len(M) - 1), NEW q \in 0..(Len(M) - 1), o <= q, h[q].first <= o
       PROVE  h[o].first = h[q].first
  <2>1. CASE q # n
    <3>1. o \in 0..(n - 1) /\ q \in 0..(n - 1) /\ h[o] = g[o] /\ h[q] = g[q]
      BY <1>1, <1>10, <1>14, <2>1
    <3> QED
      BY <1>14, <3>1 DEF Divides
  <2>2. CASE q = n /\ o = n
    BY <2>2
  <2>3. CASE q = n /\ o # n
    <3>1. o \in 0..(n - 1) /\ h[o] = g[o] /\ h[q] = s /\ n - 1 \in 0..(n - 1)
      BY <1>1, <1>10, <1>14, <2>3
    <3>2. s.first = g[n - 1].first /\ g[n - 1].first <= o /\ o <= n - 1
      BY <1>1, <1>7, <1>14, <3>1
    <3>3. g[o].first = g[n - 1].first
      BY <3>1, <3>2 DEF Divides
    <3> QED
      BY <3>1, <3>2, <3>3
  <2> QED
    BY <2>1, <2>2, <2>3
<1>15. Divides(h, M)
  BY <1>11, <1>12, <1>13, <1>14 DEF Divides
<1> QED
  BY <1>1, <1>10, <1>15 DEF M

(* What is natural stays natural in a longer log with the same division. *)
LEMMA EndsMore ==
  ASSUME NEW g, NEW h, NEW L \in Seq(Record), NEW M \in Seq(Record), Len(L) <= Len(M),
         \A o \in 0..(Len(L) - 1) : h[o] = g[o], NEW k \in Int, Ends(g, L, k)
  PROVE  Ends(h, M, k) /\ h[k] = g[k]
<1>1. k \in 0..(Len(L) - 1) /\ h[k] = g[k] /\ Len(L) \in Nat /\ Len(M) \in Nat
  BY DEF Ends
<1>2. CASE g[k].bytes >= BatchBytes
  BY <1>1, <1>2 DEF Ends
<1>3. CASE k + 1 < Len(L) /\ g[k + 1].first = k + 1
  BY <1>1, <1>3 DEF Ends
<1> QED
  BY <1>2, <1>3 DEF Ends

LEMMA NaturalMore ==
  ASSUME NEW g, NEW h, NEW L \in Seq(Record), NEW M \in Seq(Record), Len(L) <= Len(M),
         \A o \in 0..(Len(L) - 1) : h[o] = g[o], NEW T
  PROVE  /\ \A c : c.last \in Int /\ Natural(g, L, T, c) => Natural(h, M, T, c)
         /\ \A k \in Nat : Boundary(g, L, T, k) => Boundary(h, M, T, k)
         /\ \A ps \in Part, k \in Nat : k <= Len(L) /\ (ps.open # NoChunk => k > 0)
               /\ PartNatural(g, L, T, ps, k) => PartNatural(h, M, T, ps, k)
<1>1. ASSUME NEW k \in Int, Ends(g, L, k) PROVE Ends(h, M, k) /\ h[k] = g[k]
  BY <1>1, EndsMore
<1>2. ASSUME NEW c, c.last \in Int, Natural(g, L, T, c) PROVE Natural(h, M, T, c)
  BY <1>1, <1>2 DEF Natural
<1>3. ASSUME NEW k \in Nat, Boundary(g, L, T, k) PROVE Boundary(h, M, T, k)
  BY <1>1, <1>3 DEF Boundary
<1>4. ASSUME NEW ps \in Part, NEW k \in Nat, k <= Len(L), ps.open # NoChunk => k > 0,
             PartNatural(g, L, T, ps, k)
      PROVE  PartNatural(h, M, T, ps, k)
  <2>1. \A i \in 1..Len(ps.closed) : ps.closed[i].last \in Int
    <3>1. ps.closed \in Seq(Chunk)
      BY DEF Part
    <3>2. \A i \in 1..Len(ps.closed) : ps.closed[i] \in Chunk
      BY <3>1
    <3> QED
      BY <3>2 DEF Chunk
  <2>2. \A i \in 1..Len(ps.closed) : Natural(h, M, T, ps.closed[i])
    BY <1>2, <1>4, <2>1 DEF PartNatural
  <2>3. ps.open = NoChunk => Boundary(h, M, T, k)
    BY <1>3, <1>4 DEF PartNatural
  <2>4. ps.open # NoChunk => h[k - 1] = g[k - 1]
    BY <1>4
  <2> QED
    BY <1>4, <2>2, <2>3, <2>4 DEF PartNatural
<1> QED
  BY <1>2, <1>3, <1>4

(* More cuts of timing excuse more. *)
LEMMA ExcusedMore ==
  ASSUME NEW g, NEW L, NEW T, NEW U, T \subseteq U
  PROVE  /\ \A c : Natural(g, L, T, c) => Natural(g, L, U, c)
         /\ \A k : Boundary(g, L, T, k) => Boundary(g, L, U, k)
         /\ \A ps, k : PartNatural(g, L, T, ps, k) => PartNatural(g, L, U, ps, k)
<1>1. \A o : Excused(T, o) => Excused(U, o)
  BY DEF Excused
<1>2. \A c : Natural(g, L, T, c) => Natural(g, L, U, c)
  BY <1>1 DEF Natural
<1>3. \A k : Boundary(g, L, T, k) => Boundary(g, L, U, k)
  BY <1>1 DEF Boundary
<1> QED
  BY <1>1, <1>2, <1>3 DEF PartNatural

(* Two chunks of the division with a record in common are the same. *)
LEMMA OneChunk ==
  ASSUME NEW g \in [Nat -> Segment], NEW L \in Seq(Record), Divides(g, L), NEW T \in SUBSET Int,
         NEW b, NEW c, b.first \in Int, b.last \in Int, c.first \in Int, c.last \in Int,
         Natural(g, L, T, b), Natural(g, L, T, c),
         NEW o \in Int, Covers(b, o), Covers(c, o), ~Excused(T, o)
  PROVE  b.first = c.first /\ b.last = c.last
<1>1. ASSUME NEW d, d.first \in Int, d.last \in Int, Natural(g, L, T, d), Covers(d, o)
      PROVE  /\ Ends(g, L, d.last) /\ g[d.last].first = d.first
             /\ d.first <= o /\ o <= d.last /\ d.last \in 0..(Len(L) - 1)
  <2>1. d.first <= o /\ o <= d.last
    BY <1>1 DEF Covers
  <2>2. ~Excused(T, d.first)
    BY <1>1, <2>1 DEF Excused
  <2> QED
    BY <1>1, <2>1, <2>2 DEF Natural, Ends
<1>2. /\ Ends(g, L, b.last) /\ g[b.last].first = b.first
      /\ b.first <= o /\ o <= b.last /\ b.last \in 0..(Len(L) - 1)
  BY <1>1
<1>3. /\ Ends(g, L, c.last) /\ g[c.last].first = c.first
      /\ c.first <= o /\ o <= c.last /\ c.last \in 0..(Len(L) - 1)
  BY <1>1
<1>4. o \in 0..(Len(L) - 1)
  <2>1. b.last \in Nat /\ g[b.last] \in Segment
    BY <1>2
  <2>2. b.first \in Nat
    BY <1>2, <2>1 DEF Segment
  <2> QED
    BY <1>2, <2>2
<1>5. b.first = c.first
  <2>1. \A q \in 0..(Len(L) - 1) : o <= q /\ g[q].first <= o => g[o].first = g[q].first
    BY <1>4 DEF Divides
  <2>2. g[o].first = g[b.last].first /\ g[o].first = g[c.last].first
    BY <1>2, <1>3, <2>1
  <2> QED
    BY <1>2, <1>3, <2>2
<1>6. ASSUME NEW x \in 0..(Len(L) - 1), NEW y \in 0..(Len(L) - 1), x < y, Ends(g, L, x),
             g[y].first = g[x].first, g[x].first <= o, o <= x
      PROVE  FALSE
  <2>1. x + 1 \in 1..(Len(L) - 1) /\ x + 1 \in Nat /\ g[x + 1] \in Segment /\ g[x] \in Segment
    BY <1>6
  <2>2. g[x + 1].first = x + 1
    <3>1. CASE g[x].bytes >= BatchBytes
      <4>1. g[x + 1] = IF Full(g[x], L[x + 2]) THEN Alone(L[x + 2], x + 1) ELSE Longer(g[x], L[x + 2])
        <5>1. (x + 1) - 1 = x /\ (x + 1) + 1 = x + 2
          BY <1>6
        <5> QED
          BY <2>1, <5>1 DEF Divides
      <4> QED
        BY <3>1, <4>1 DEF Full, Alone
    <3>2. CASE ~(g[x].bytes >= BatchBytes)
      BY <1>6, <3>2 DEF Ends
    <3> QED
      BY <3>1, <3>2
  <2>3. g[y].first <= x + 1 /\ x + 1 <= y /\ x + 1 \in 0..(Len(L) - 1)
    BY <1>6, <2>1 DEF Segment
  <2>4. g[x + 1].first = g[y].first
    BY <2>3 DEF Divides
  <2> QED
    BY <1>6, <2>1, <2>2, <2>4 DEF Segment
<1>7. ~(b.last < c.last)
  BY <1>2, <1>3, <1>5, <1>6
<1>8. ~(c.last < b.last)
  BY <1>2, <1>3, <1>5, <1>6
<1> QED
  BY <1>2, <1>3, <1>5, <1>7, <1>8

-----------------------------------------------------------------------------
(* What the loop does to the chunks of a partition. *)

(* A partition without chunks starts where the group resumes. *)
LEMMA NewNatural ==
  ASSUME NEW g, NEW L, NEW T, NEW k, Boundary(g, L, T, k)
  PROVE  PartNatural(g, L, T, NewPart, k)
<1>1. NewPart.open = NoChunk /\ Len(NewPart.closed) = 0
  BY DEF NewPart
<1> QED
  BY <1>1 DEF PartNatural

(* The partition's chunks are all there is to it. *)
LEMMA SameChunks ==
  ASSUME NEW g, NEW L, NEW T, NEW ps, NEW new, NEW k, PartNatural(g, L, T, ps, k),
         new.open = ps.open, Len(new.closed) = Len(ps.closed),
         \A i \in 1..Len(ps.closed) :
            new.closed[i].first = ps.closed[i].first /\ new.closed[i].last = ps.closed[i].last
  PROVE  PartNatural(g, L, T, new, k)
BY DEF PartNatural, Natural

(* A cut of timing: the chunk is one of those that excuse what comes after. *)
LEMMA CloseNatural ==
  ASSUME NEW g, NEW L, NEW T, NEW ps \in Part, NEW k \in Nat, ps.open # NoChunk,
         ps.open.first <= ps.open.last, PartNatural(g, L, T, ps, k)
  PROVE  PartNatural(g, L, T \cup {ps.open.first}, close(ps), k)
<1> DEFINE U == T \cup {ps.open.first}
           cl == Append(ps.closed, ps.open)
<1>1. ps.closed \in Seq(Chunk) /\ ps.open \in Chunk /\ ps.open.first \in Int /\ ps.open.last \in Int
  BY DEF Part, Chunk
<1>2. /\ Len(cl) = Len(ps.closed) + 1 /\ Len(ps.closed) \in Nat
      /\ \A i \in 1..Len(ps.closed) : cl[i] = ps.closed[i]
      /\ cl[Len(ps.closed) + 1] = ps.open
  BY <1>1
<1>3. close(ps).closed = cl /\ close(ps).open = NoChunk
  BY CloseType
<1>4. Excused(U, ps.open.first) /\ Excused(U, k - 1)
  <2>1. ps.open.last = k - 1
    BY DEF PartNatural
  <2> QED
    BY <1>1, <2>1 DEF Excused
<1>5. PartNatural(g, L, U, ps, k)
  BY ExcusedMore
<1> HIDE DEF U, cl
<1>6. \A i \in 1..Len(cl) : Natural(g, L, U, cl[i])
  <2> TAKE i \in 1..Len(cl)
  <2>1. CASE i = Len(ps.closed) + 1
    BY <1>2, <1>4, <2>1 DEF Natural
  <2>2. CASE i # Len(ps.closed) + 1
    BY <1>2, <1>5, <2>2 DEF PartNatural
  <2> QED
    BY <2>1, <2>2
<1>7. PartNatural(g, L, U, close(ps), k)
  BY <1>3, <1>4, <1>6 DEF PartNatural, Boundary
<1> QED
  BY <1>7 DEF U

(* A cut by window or bytes: the chunk is one of the division. *)
LEMMA CloseAtEnd ==
  ASSUME NEW g, NEW L, NEW T \in SUBSET Int, NEW ps \in Part, NEW k \in Nat,
         \A i \in 1..Len(ps.closed) : Natural(g, L, T, ps.closed[i]),
         ps.open.first <= ps.open.last, ps.open.last = k - 1, Natural(g, L, T, ps.open)
  PROVE  PartNatural(g, L, T, close(ps), k)
<1> DEFINE cl == Append(ps.closed, ps.open)
<1>1. /\ ps.closed \in Seq(Chunk) /\ ps.open \in Chunk
      /\ ps.open.first \in Int /\ ps.open.last \in Int
  BY DEF Part, Chunk
<1>2. /\ Len(cl) = Len(ps.closed) + 1 /\ Len(ps.closed) \in Nat
      /\ \A i \in 1..Len(ps.closed) : cl[i] = ps.closed[i]
      /\ cl[Len(ps.closed) + 1] = ps.open
  BY <1>1
<1>3. close(ps).closed = cl /\ close(ps).open = NoChunk
  BY CloseType
<1> HIDE DEF cl
<1>4. \A i \in 1..Len(cl) : Natural(g, L, T, cl[i])
  <2> TAKE i \in 1..Len(cl)
  <2>1. CASE i = Len(ps.closed) + 1
    BY <1>2, <2>1
  <2>2. CASE i # Len(ps.closed) + 1
    BY <1>2, <2>2
  <2> QED
    BY <2>1, <2>2
<1>5. Boundary(g, L, T, k)
  <2>1. CASE Excused(T, ps.open.first)
    <3>1. PICK f \in T : f <= ps.open.first
      BY <2>1 DEF Excused
    <3>2. f \in Int /\ f <= k - 1
      BY <1>1, <3>1
    <3> QED
      BY <3>1, <3>2 DEF Boundary, Excused
  <2>2. CASE ~Excused(T, ps.open.first)
    BY <2>2 DEF Natural, Boundary
  <2> QED
    BY <2>1, <2>2
<1> QED
  BY <1>3, <1>4, <1>5 DEF PartNatural

(* add cuts where the division does. *)
LEMMA AddNatural ==
  ASSUME NEW g \in [Nat -> Segment], NEW L \in Seq(Record), Divides(g, L), NEW T \in SUBSET Int,
         NEW ps \in Part, NEW k \in Nat, k < Len(L), PartNatural(g, L, T, ps, k),
         ps.open # NoChunk => InLog(L, ps.open)
  PROVE  PartNatural(g, L, T, add(ps, k, L[k + 1]), k + 1)
<1> DEFINE r     == L[k + 1]
           cuts  == ps.open # NoChunk /\ r.win > ps.open.win
           cut   == IF cuts THEN close(ps) ELSE ps
           e     == extend(cut.open, k, r)
           grown == [cut EXCEPT !.open = e, !.lastOffset = k]
<1>1. r \in Record /\ r.win \in Nat /\ r.size \in Nat /\ k \in 0..(Len(L) - 1) /\ g[k] \in Segment
  BY ProcessorAssumption
<1>2. ps.open \in Chunk /\ ps.closed \in Seq(Chunk)
  BY DEF Part
<1>3. /\ ps.open.first \in Int /\ ps.open.last \in Int /\ ps.open.win \in Nat /\ ps.open.bytes \in Nat
      /\ BatchBytes \in Nat
  BY <1>2, ProcessorAssumption DEF Chunk
<1>4. ASSUME ps.open # NoChunk
      PROVE  /\ k - 1 \in 0..(Len(L) - 1) /\ k \in 1..(Len(L) - 1)
             /\ ps.open.last = k - 1 /\ 0 <= ps.open.first /\ ps.open.first <= k - 1
             /\ ps.open.bytes < BatchBytes
  BY <1>1, <1>3, <1>4 DEF PartNatural, InLog
<1>5. k > 0 => g[k] = IF Full(g[k - 1], r) THEN Alone(r, k) ELSE Longer(g[k - 1], r)
  BY <1>1 DEF Divides
<1>6. ASSUME ps.open # NoChunk, ~Excused(T, ps.open.first)
      PROVE  /\ g[k - 1].first = ps.open.first /\ g[k - 1].win = ps.open.win
             /\ g[k - 1].bytes = ps.open.bytes
             /\ g[k] = IF cuts THEN Alone(r, k) ELSE Longer(g[k - 1], r)
  <2>1. g[k - 1] = [first |-> ps.open.first, win |-> ps.open.win, bytes |-> ps.open.bytes]
    BY <1>6 DEF PartNatural
  <2>2. Full(g[k - 1], r) <=> cuts
    BY <1>1, <1>3, <1>4, <1>6, <2>1 DEF Full
  <2>3. k > 0
    BY <1>4, <1>6
  <2> QED
    BY <1>5, <2>1, <2>2, <2>3
(* The cut before the record. *)
<1>7. ASSUME cuts PROVE PartNatural(g, L, T, cut, k)
  <2>1. Natural(g, L, T, ps.open)
    <3>1. CASE Excused(T, ps.open.first)
      BY <3>1 DEF Natural
    <3>2. CASE ~Excused(T, ps.open.first)
      <4>1. g[k].first = k /\ g[k - 1].first = ps.open.first
        BY <1>6, <1>7, <3>2 DEF Alone
      <4>2. (k - 1) + 1 = k
        OBVIOUS
      <4>3. Ends(g, L, k - 1)
        BY <1>4, <1>7, <4>1, <4>2 DEF Ends
      <4> QED
        BY <1>4, <1>7, <4>1, <4>3 DEF Natural
    <3> QED
      BY <3>1, <3>2
  <2>2. \A i \in 1..Len(ps.closed) : Natural(g, L, T, ps.closed[i])
    BY DEF PartNatural
  <2> QED
    BY <1>4, <1>7, <2>1, <2>2, CloseAtEnd
<1>8. PartNatural(g, L, T, cut, k) /\ cut \in Part /\ cut.open \in {ps.open, NoChunk}
  <2>1. cut \in Part /\ cut.open \in {ps.open, NoChunk}
    BY CloseType
  <2> QED
    BY <1>7, <2>1
<1>9. cut.open \in Chunk /\ (cuts => cut.open = NoChunk) /\ (~cuts => cut.open = ps.open)
  BY <1>2, CloseType, NoneType
(* The open chunk with the record. *)
<1>10. /\ e \in Chunk /\ e.last = k
       /\ e.first = IF cut.open = NoChunk THEN k ELSE ps.open.first
       /\ e.win = IF cut.open = NoChunk THEN r.win ELSE ps.open.win
       /\ e.bytes = IF cut.open = NoChunk THEN r.size ELSE ps.open.bytes + r.size
  <2>1. /\ e \in Chunk /\ e.last = k
        /\ e.first = IF cut.open = NoChunk THEN k ELSE cut.open.first
    BY <1>1, <1>9, ExtendType, SMTT(30)
  <2>2. CASE cut.open = NoChunk
    BY <2>1, <2>2 DEF extend, newChunk
  <2>3. CASE cut.open # NoChunk
    <3>1. cut.open = ps.open
      BY <1>8, <2>3
    <3>2. e = [ps.open EXCEPT !.last = k, !.bytes = @ + r.size]
      BY <2>3, <3>1 DEF extend
    <3>3. e.win = ps.open.win /\ e.bytes = ps.open.bytes + r.size
      BY <1>2, <3>2 DEF Chunk
    <3> QED
      BY <2>1, <2>3, <3>1, <3>3
  <2> QED
    BY <2>2, <2>3
<1> HIDE DEF cut, e, cuts, r
<1>11. /\ e # NoChunk /\ e.first <= e.last /\ e.first \in Int /\ e.bytes \in Nat
       /\ e.first >= 0
  <2>1. e # NoChunk
    BY <1>10 DEF NoChunk
  <2> QED
    BY <1>1, <1>3, <1>4, <1>8, <1>10, <2>1 DEF Chunk
<1>12. Excused(T, e.first) \/ g[k] = [first |-> e.first, win |-> e.win, bytes |-> e.bytes]
  <2>1. CASE cut.open # NoChunk
    <3>1. cut.open = ps.open /\ ps.open # NoChunk /\ ~cuts
      BY <1>8, <1>9, <2>1
    <3>2. CASE Excused(T, ps.open.first)
      BY <1>10, <2>1, <3>2
    <3>3. CASE ~Excused(T, ps.open.first)
      <4>1. g[k] = Longer(g[k - 1], r)
        BY <1>6, <3>1, <3>3
      <4> QED
        BY <1>6, <1>10, <2>1, <3>1, <3>3, <4>1 DEF Longer
    <3> QED
      BY <3>2, <3>3
  <2>2. CASE cut.open = NoChunk
    <3>1. Boundary(g, L, T, k)
      BY <1>8, <2>2 DEF PartNatural
    <3>2. e.first = k /\ e.win = r.win /\ e.bytes = r.size
      BY <1>10, <2>2
    <3>3. CASE k = 0
      <4>1. g[k] = Alone(r, 0)
        BY <1>1, <3>3 DEF Divides, r
      <4> QED
        BY <3>2, <3>3, <4>1 DEF Alone
    <3>4. CASE Excused(T, k - 1)
      BY <3>2, <3>4 DEF Excused
    <3>5. CASE k > 0 /\ Ends(g, L, k - 1)
      <4>1. (k - 1) + 1 = k /\ k - 1 \in Nat /\ g[k - 1] \in Segment
        BY <3>5
      <4>2. g[k - 1].first <= k - 1 /\ g[k - 1].first \in Nat
        BY <1>1, <3>5, <4>1 DEF Divides, Segment, Ends
      <4>3. g[k] = Alone(r, k)
        <5>1. CASE g[k - 1].bytes >= BatchBytes
          BY <1>5, <3>5, <5>1 DEF Full
        <5>2. CASE g[k].first = k
          <6>1. Longer(g[k - 1], r).first = g[k - 1].first
            BY DEF Longer
          <6> QED
            BY <1>5, <3>5, <4>2, <5>2, <6>1
        <5> QED
          BY <3>5, <4>1, <5>1, <5>2 DEF Ends
      <4> QED
        BY <3>2, <4>3 DEF Alone
    <3> QED
      BY <3>1, <3>3, <3>4, <3>5 DEF Boundary
  <2> QED
    BY <2>1, <2>2
<1>13. grown \in Part /\ grown.open = e /\ grown.closed = cut.closed
  <2>1. cut \in Part /\ e \in Chunk /\ k \in Int
    BY <1>8, <1>10
  <2> QED
    BY <2>1 DEF Part
<1>14. \A i \in 1..Len(grown.closed) : Natural(g, L, T, grown.closed[i])
  BY <1>8, <1>13 DEF PartNatural
<1>15. add(ps, k, r) = IF grown.open.bytes >= BatchBytes THEN close(grown) ELSE grown
  BY DEF add, cut, cuts, e
<1> HIDE DEF grown
<1>16. CASE e.bytes >= BatchBytes
  <2>1. Natural(g, L, T, e)
    <3>1. CASE Excused(T, e.first)
      BY <3>1 DEF Natural
    <3>2. CASE ~Excused(T, e.first)
      <4>1. g[k].bytes = e.bytes /\ g[k].first = e.first
        BY <1>12, <3>2
      <4> QED
        BY <1>1, <1>10, <1>16, <4>1 DEF Natural, Ends
    <3> QED
      BY <3>1, <3>2
  <2>2. (k + 1) - 1 = k /\ k + 1 \in Nat
    OBVIOUS
  <2>3. PartNatural(g, L, T, close(grown), k + 1)
    BY <1>10, <1>11, <1>13, <1>14, <2>1, <2>2, CloseAtEnd
  <2> QED
    BY <1>13, <1>15, <1>16, <2>3 DEF r
<1>17. CASE ~(e.bytes >= BatchBytes)
  <2>1. e.bytes < BatchBytes /\ (k + 1) - 1 = k
    BY <1>3, <1>11, <1>17
  <2>2. PartNatural(g, L, T, grown, k + 1)
    BY <1>10, <1>11, <1>12, <1>13, <1>14, <2>1 DEF PartNatural
  <2> QED
    BY <1>13, <1>15, <1>17, <2>2 DEF r
<1> QED
  BY <1>16, <1>17

-----------------------------------------------------------------------------
(* The steps. *)

(* What the proofs below need of types. *)
LEMMA CutTypes ==
  ASSUME IInv, NEW p \in Partition
  PROVE  /\ log[p] \in Seq(Record) /\ timed[p] \in SUBSET Int /\ committed[p] \in Nat
         /\ \A m \in Member : pos[m][p] \in Nat /\ pos[m][p] <= Len(log[p]) /\ parts[m][p] \in Part
<1>1. /\ log[p] \in Seq(Record) /\ Len(log[p]) \in Nat /\ timed[p] \in SUBSET Int /\ committed[p] \in Nat
      /\ \A m \in Member : pos[m][p] \in Nat /\ batch[m][p] \in Nat /\ parts[m][p] \in Part
  BY DEF IInv, TypeOK, GroupTypeOK
<1>2. \A m \in Member : pos[m][p] + batch[m][p] <= Len(log[p])
  BY DEF IInv, PipelineSound, GroupSound, End
<1> QED
  BY <1>1, <1>2

LEMMA FetchedPartition ==
  ASSUME IInv, NEW m \in Member, NEW p \in Fetching(m)
  PROVE  p \in Partition
BY DEF IInv, TypeOK, GroupTypeOK, Fetching, Owned

(***************************************************************************)
(* A step of m that leaves the store, the log and the assignment alone.    *)
(***************************************************************************)
LEMMA LocalCuts ==
  ASSUME IInv, NEW g \in Division, CutsSound(g), NEW m \in Member,
         UNCHANGED <<log, owner, lost, rows, dups, tokens, inflight>>,
         \A p \in Partition : timed[p] \subseteq timed'[p],
         \A n \in Member : n # m => /\ parts'[n] = parts[n] /\ pos'[n] = pos[n] /\ gone'[n] = gone[n],
         gone'[m] = {},
         \A p \in Fetching(m) : PartNatural(g[p], log[p], timed'[p], parts'[m][p], pos'[m][p]),
         \A p \in Partition : \/ committed'[p] = committed[p]
                              \/ Boundary(g[p], log[p], timed'[p], committed'[p])
  PROVE  CutsSound(g)'
<1>1. \A n \in Member : Fetching(n)' = Fetching(n)
  BY DEF Fetching, Owned
<1>2. CommitsNatural(g)'
  BY ExcusedMore DEF CutsSound, CommitsNatural
<1>3. ReadNatural(g)'
  <2> SUFFICES ASSUME NEW n \in Member, NEW q \in Fetching(n)
               PROVE  PartNatural(g[q], log[q], timed'[q], applyRevocations(n, q)', pos'[n][q])
    BY <1>1 DEF ReadNatural
  <2>1. q \in Partition
    BY FetchedPartition
  <2>2. CASE n = m
    BY <2>2 DEF applyRevocations
  <2>3. CASE n # m
    <3>1. applyRevocations(n, q)' = applyRevocations(n, q) /\ pos'[n] = pos[n]
      BY <2>3 DEF applyRevocations
    <3>2. PartNatural(g[q], log[q], timed[q], applyRevocations(n, q), pos[n][q])
      BY DEF CutsSound, ReadNatural
    <3> QED
      BY <2>1, <3>1, <3>2, ExcusedMore
  <2> QED
    BY <2>2, <2>3
<1>4. BlocksNatural(g)'
  <2> SUFFICES ASSUME NEW b \in tokens \cup inflight
               PROVE  Natural(g[b.p], log[b.p], timed'[b.p], b)
    BY DEF BlocksNatural
  <2>1. b.p \in Partition
    BY DEF IInv, TypeOK, Block
  <2>2. Natural(g[b.p], log[b.p], timed[b.p], b)
    BY DEF CutsSound, BlocksNatural
  <2> QED
    BY <2>1, <2>2, ExcusedMore
<1>5. RowsRemembered'
  BY DEF CutsSound, RowsRemembered, BlockRows, Rec
<1>6. DuplicatesNeedTimedCut'
  <2> SUFFICES ASSUME NEW d \in dups PROVE \E first \in timed'[d[1]] : first <= d[2]
    BY DEF DuplicatesNeedTimedCut
  <2>1. d[1] \in Partition
    BY DEF IInv, TypeOK
  <2> QED
    BY <2>1 DEF CutsSound, DuplicatesNeedTimedCut
<1> QED
  BY <1>2, <1>3, <1>4, <1>5, <1>6 DEF CutsSound

(* A step of the group: what members go on fetching is as it was, or starts where the group resumes. *)
LEMMA GroupCuts ==
  ASSUME IInv, NEW g \in Division, CutsSound(g),
         UNCHANGED <<log, committed, rows, dups, tokens, inflight, timed>>,
         \A m \in Member : \A p \in Fetching(m)' :
            \/ p \in Fetching(m) /\ applyRevocations(m, p)' = applyRevocations(m, p) /\ pos'[m][p] = pos[m][p]
            \/ p \in Partition /\ applyRevocations(m, p)' = NewPart /\ pos'[m][p] = committed[p]
  PROVE  CutsSound(g)'
<1>1. CommitsNatural(g)' /\ BlocksNatural(g)' /\ DuplicatesNeedTimedCut'
  BY DEF CutsSound, CommitsNatural, BlocksNatural, DuplicatesNeedTimedCut
<1>2. RowsRemembered'
  BY DEF CutsSound, RowsRemembered, BlockRows, Rec
<1>3. ReadNatural(g)'
  <2> SUFFICES ASSUME NEW m \in Member, NEW p \in Fetching(m)'
               PROVE  PartNatural(g[p], log[p], timed[p], applyRevocations(m, p)', pos'[m][p])
    BY DEF ReadNatural
  <2>1. CASE /\ p \in Fetching(m)
             /\ applyRevocations(m, p)' = applyRevocations(m, p) /\ pos'[m][p] = pos[m][p]
    BY <2>1 DEF CutsSound, ReadNatural
  <2>2. CASE p \in Partition /\ applyRevocations(m, p)' = NewPart /\ pos'[m][p] = committed[p]
    BY <2>2, NewNatural DEF CutsSound, CommitsNatural
  <2> QED
    BY <2>1, <2>2
<1> QED
  BY <1>1, <1>2, <1>3 DEF CutsSound

(* The steps of the group and of the life of a process. *)
LEMMA MembersCuts ==
  ASSUME IInv, NEW g \in Division, CutsSound(g), NEW m \in Member,
         \/ \E p \in Partition : AssignPartition(m, p) \/ RevokePartition(m, p)
         \/ ExpelMember(m) \/ NoticeLoss(m)
         \/ Start(m) \/ Cancel(m) \/ Crash(m) \/ Exit(m)
  PROVE  CutsSound(g)'
<1> USE DEF IInv, TypeOK, GroupTypeOK
<1>0. /\ UNCHANGED <<log, committed, rows, dups, tokens, inflight, timed>>
      /\ \A n \in Member : n # m => parts'[n] = parts[n]
  BY DEF AssignPartition, RevokePartition, ExpelMember, NoticeLoss, Start, Cancel, Crash, Exit,
         Assign, Revoke, Expel, Notice, Leave, Fresh, groupVars, localVars, storeVars
<1> DEFINE Stays(n, q) == /\ q \in Fetching(n)
                          /\ applyRevocations(n, q)' = applyRevocations(n, q) /\ pos'[n][q] = pos[n][q]
           Begins(n, q) == q \in Partition /\ applyRevocations(n, q)' = NewPart /\ pos'[n][q] = committed[q]
<1>1. ASSUME NEW p \in Partition, AssignPartition(m, p), NEW n \in Member, NEW q \in Fetching(n)'
      PROVE  Stays(n, q) \/ Begins(n, q)
  <2>1. /\ owner[p] = NoMember /\ lost[m] = {} /\ owner' = [owner EXCEPT ![p] = m]
        /\ pos' = [pos EXCEPT ![m][p] = committed[p]]
        /\ UNCHANGED <<parts, lost, gone>>
    BY <1>1 DEF AssignPartition, Assign, localVars
  <2>2. q \in Partition /\ applyRevocations(n, q)' = applyRevocations(n, q)
    BY <2>1 DEF applyRevocations, Fetching, Owned
  <2>3. CASE n = m /\ q = p
    <3>1. p \notin Fetching(m)
      BY <2>1, GroupAssumption DEF Fetching, Owned
    <3>2. applyRevocations(m, p) = NewPart
      BY <3>1 DEF applyRevocations, PipelineSound, GroupSound
    <3> QED
      BY <2>1, <2>2, <2>3, <3>2
  <2>4. CASE ~(n = m /\ q = p)
    <3>1. q \in Fetching(n) /\ pos'[n][q] = pos[n][q]
      BY <2>1, <2>2, <2>4 DEF Fetching, Owned
    <3> QED
      BY <2>2, <3>1
  <2> QED
    BY <2>3, <2>4
<1>2. ASSUME NEW p \in Partition, RevokePartition(m, p), NEW n \in Member, NEW q \in Fetching(n)'
      PROVE  Stays(n, q)
  <2>1. /\ owner[p] = m /\ owner' = [owner EXCEPT ![p] = NoMember]
        /\ pos' = [pos EXCEPT ![m][p] = 0] /\ gone' = [gone EXCEPT ![m] = @ \cup {p}]
        /\ UNCHANGED <<parts, lost>>
    BY <1>2 DEF RevokePartition, Revoke, localVars
  <2>2. lost[m] = {}
    BY <2>1 DEF PipelineSound, GroupSound, Owned
  <2>3. q \in Partition /\ q \in Fetching(n) /\ ~(n = m /\ q = p)
    BY <2>1, <2>2, GroupAssumption DEF Fetching, Owned
  <2>4. pos'[n][q] = pos[n][q] /\ (q \in gone'[n] <=> q \in gone[n])
    BY <2>1, <2>3
  <2> QED
    BY <2>1, <2>3, <2>4 DEF applyRevocations
<1>3. ASSUME ExpelMember(m), NEW n \in Member, NEW q \in Fetching(n)'
      PROVE  Stays(n, q)
  <2>1. /\ owner' = [p \in Partition |-> IF owner[p] = m THEN NoMember ELSE owner[p]]
        /\ lost' = [lost EXCEPT ![m] = Owned(m)]
        /\ UNCHANGED <<parts, pos, gone>>
    BY <1>3 DEF ExpelMember, Expel, localVars
  <2>2. q \in Fetching(n)
    BY <2>1, GroupAssumption DEF Fetching, Owned
  <2> QED
    BY <2>1, <2>2 DEF applyRevocations
<1>4. ASSUME NoticeLoss(m), NEW n \in Member, NEW q \in Fetching(n)'
      PROVE  Stays(n, q)
  <2>1. /\ lost[m] # {} /\ gone' = [gone EXCEPT ![m] = @ \cup lost[m]]
        /\ lost' = [lost EXCEPT ![m] = {}]
        /\ pos' = [pos EXCEPT ![m] = [p \in Partition |-> 0]]
        /\ UNCHANGED <<parts, owner>>
    BY <1>4 DEF NoticeLoss, Notice, localVars
  <2>2. Owned(m) = {}
    BY <2>1 DEF PipelineSound, GroupSound
  <2>3. n # m /\ q \in Fetching(n)
    BY <2>1, <2>2 DEF Fetching, Owned
  <2> QED
    BY <2>1, <2>3 DEF applyRevocations
<1>5. ASSUME Start(m) \/ Cancel(m), NEW n \in Member, NEW q \in Fetching(n)'
      PROVE  Stays(n, q)
  <2>1. UNCHANGED <<owner, lost, gone, pos, parts>>
    BY <1>5 DEF Start, Cancel, groupVars
  <2> QED
    BY <2>1 DEF applyRevocations, Fetching, Owned
<1>6. ASSUME Crash(m) \/ Exit(m), NEW n \in Member, NEW q \in Fetching(n)'
      PROVE  Stays(n, q)
  <2>1. /\ owner' = [p \in Partition |-> IF owner[p] = m THEN NoMember ELSE owner[p]]
        /\ lost' = [lost EXCEPT ![m] = {}] /\ gone' = [gone EXCEPT ![m] = {}]
        /\ pos' = [pos EXCEPT ![m] = [p \in Partition |-> 0]]
    BY <1>6 DEF Crash, Exit, Leave
  <2>2. n # m /\ q \in Fetching(n)
    BY <2>1, GroupAssumption DEF Fetching, Owned
  <2> QED
    BY <1>0, <2>1, <2>2 DEF applyRevocations
<1> HIDE DEF Stays, Begins
<1>7. \A n \in Member : \A q \in Fetching(n)' : Stays(n, q) \/ Begins(n, q)
  BY <1>1, <1>2, <1>3, <1>4, <1>5, <1>6
<1> QED
  BY <1>0, <1>7, GroupCuts DEF Stays, Begins

LEMMA ProduceCuts ==
  ASSUME IInv, NEW g \in Division, CutsSound(g), NEW p \in Partition, ProduceRecord(p)
  PROVE  \E h \in Division : CutsSound(h)'
<1>1. PICK r \in Record : log' = [log EXCEPT ![p] = Append(@, r)]
  BY DEF ProduceRecord, Produce
<1>2. UNCHANGED <<committed, owner, pos, lost, gone, parts, rows, dups, tokens, inflight, timed>>
  BY DEF ProduceRecord, Produce, localVars, storeVars
<1>3. g[p] \in [Nat -> Segment] /\ log[p] \in Seq(Record) /\ Divides(g[p], log[p])
  BY CutTypes DEF Division, CutsSound
<1>4. PICK s \in [Nat -> Segment] :
        Divides(s, Append(log[p], r)) /\ \A o \in 0..(Len(log[p]) - 1) : s[o] = g[p][o]
  BY <1>3, DivideMore
<1> DEFINE h == [g EXCEPT ![p] = s]
<1>5. h \in Division /\ h[p] = s /\ \A q \in Partition : q # p => h[q] = g[q]
  BY <1>4 DEF Division
<1> HIDE DEF h
<1>6. log'[p] = Append(log[p], r) /\ \A q \in Partition : q # p => log'[q] = log[q]
  BY <1>1 DEF IInv, TypeOK, GroupTypeOK
<1>7. \A q \in Partition :
        /\ log[q] \in Seq(Record) /\ log'[q] \in Seq(Record) /\ Len(log[q]) <= Len(log'[q])
        /\ \A i \in 1..Len(log[q]) : log'[q][i] = log[q][i]
        /\ Divides(h[q], log'[q])
        /\ \A o \in 0..(Len(log[q]) - 1) : h[q][o] = g[q][o]
  <2> TAKE q \in Partition
  <2>1. log[q] \in Seq(Record)
    BY CutTypes
  <2>2. CASE q = p
    <3>1. /\ Append(log[p], r) \in Seq(Record) /\ Len(log[p]) <= Len(Append(log[p], r))
          /\ \A i \in 1..Len(log[p]) : Append(log[p], r)[i] = log[p][i]
      BY <1>3
    <3> QED
      BY <1>4, <1>5, <1>6, <2>1, <2>2, <3>1
  <2>3. CASE q # p
    BY <1>5, <1>6, <2>1, <2>3 DEF CutsSound
  <2> QED
    BY <2>2, <2>3
<1>8. ASSUME NEW q \in Partition
      PROVE  /\ \A c : c.last \in Int /\ Natural(g[q], log[q], timed[q], c)
                         => Natural(h[q], log'[q], timed[q], c)
             /\ \A k \in Nat : Boundary(g[q], log[q], timed[q], k) => Boundary(h[q], log'[q], timed[q], k)
             /\ \A ps \in Part, k \in Nat : k <= Len(log[q]) /\ (ps.open # NoChunk => k > 0)
                    /\ PartNatural(g[q], log[q], timed[q], ps, k) => PartNatural(h[q], log'[q], timed[q], ps, k)
  BY <1>7, NaturalMore
<1>9. CommitsNatural(h)'
  <2>1. \A q \in Partition : committed[q] \in Nat
    BY CutTypes
  <2> QED
    BY <1>2, <1>8, <2>1 DEF CutsSound, CommitsNatural
<1>10. ReadNatural(h)'
  <2> SUFFICES ASSUME NEW m \in Member, NEW q \in Fetching(m)
               PROVE  PartNatural(h[q], log'[q], timed[q], applyRevocations(m, q), pos[m][q])
    BY <1>2 DEF ReadNatural, applyRevocations, Fetching, Owned
  <2> DEFINE ps == applyRevocations(m, q)
  <2>1. q \in Partition
    BY FetchedPartition
  <2>2. pos[m][q] \in Nat /\ pos[m][q] <= Len(log[q]) /\ ps \in Part
    BY <2>1, CutTypes, NoneType DEF applyRevocations
  <2>3. PartNatural(g[q], log[q], timed[q], ps, pos[m][q])
    BY DEF CutsSound, ReadNatural
  <2>4. ps.open # NoChunk => pos[m][q] > 0
    <3>1. PartSound(log[q], rows, q, ps)
      <4>1. CASE q \in gone[m]
        BY <4>1 DEF applyRevocations, PartSound, NewPart
      <4>2. CASE q \notin gone[m]
        BY <2>1, <4>2 DEF applyRevocations, IInv, PipelineSound, ChunksSound
      <4> QED
        BY <4>1, <4>2
    <3>2. ps.open.first \in Int /\ ps.open.last \in Int
      BY <2>2 DEF Part, Chunk
    <3> QED
      BY <2>2, <2>3, <3>1, <3>2 DEF PartSound, InLog, PartNatural
  <2> QED
    BY <1>8, <2>1, <2>2, <2>3, <2>4
<1>11. BlocksNatural(h)'
  <2> SUFFICES ASSUME NEW b \in tokens \cup inflight
               PROVE  Natural(h[b.p], log'[b.p], timed[b.p], b)
    BY <1>2 DEF BlocksNatural
  <2>1. b.p \in Partition /\ b.last \in Int
    BY DEF IInv, TypeOK, Block
  <2> QED
    BY <1>8, <2>1 DEF CutsSound, BlocksNatural
<1>12. RowsRemembered'
  <2> SUFFICES ASSUME NEW b \in tokens PROVE BlockRows(b)' = BlockRows(b)
    BY <1>2 DEF CutsSound, RowsRemembered
  <2>1. b.p \in Partition /\ b.first \in Int /\ b.last \in Int /\ InLog(log[b.p], b)
    BY DEF IInv, TypeOK, Block, PipelineSound, StoreSound
  <2>2. \A o \in b.first..b.last : log'[b.p][o + 1] = log[b.p][o + 1]
    <3> TAKE o \in b.first..b.last
    <3>1. o + 1 \in 1..Len(log[b.p])
      BY <2>1, CutTypes DEF InLog
    <3> QED
      BY <1>7, <2>1, <3>1
  <2> QED
    BY <2>2 DEF BlockRows, Rec
<1>13. DuplicatesNeedTimedCut'
  BY <1>2 DEF CutsSound, DuplicatesNeedTimedCut
<1>14. CutsSound(h)'
  BY <1>7, <1>9, <1>10, <1>11, <1>12, <1>13 DEF CutsSound
<1> QED
  BY <1>5, <1>14

LEMMA PollCuts ==
  ASSUME IInv, NEW g \in Division, CutsSound(g), NEW m \in Member, PollRecords(m)
  PROVE  CutsSound(g)'
<1>1. PICK f \in [Partition -> 0..MaxLog] :
        parts' = [parts EXCEPT ![m] = [p \in Partition |->
                    SeenHwm(applyRevocations(m, p), IF f[p] > 0 THEN End(p) ELSE 0)]]
  BY DEF PollRecords
<1>2. /\ gone' = [gone EXCEPT ![m] = {}]
      /\ UNCHANGED <<log, committed, owner, pos, lost, rows, dups, tokens, inflight, timed>>
  BY DEF PollRecords, storeVars
<1>3. /\ gone'[m] = {} /\ \A n \in Member : n # m => parts'[n] = parts[n] /\ gone'[n] = gone[n]
      /\ \A p \in Partition :
           parts'[m][p] = SeenHwm(applyRevocations(m, p), IF f[p] > 0 THEN End(p) ELSE 0)
  BY <1>1, <1>2 DEF IInv, TypeOK, GroupTypeOK
<1>4. ASSUME NEW p \in Fetching(m)
      PROVE  PartNatural(g[p], log[p], timed[p], parts'[m][p], pos[m][p])
  <2>1. p \in Partition
    BY FetchedPartition
  <2>2. applyRevocations(m, p) \in Part
    BY <2>1, CutTypes, NoneType DEF applyRevocations
  <2>3. parts'[m][p].open = applyRevocations(m, p).open /\ parts'[m][p].closed = applyRevocations(m, p).closed
    BY <1>3, <2>1, <2>2 DEF SeenHwm, Part
  <2>4. PartNatural(g[p], log[p], timed[p], applyRevocations(m, p), pos[m][p])
    BY DEF CutsSound, ReadNatural
  <2> QED
    BY <2>3, <2>4, SameChunks
<1> QED
  BY <1>2, <1>3, <1>4, LocalCuts

(* closeAll and closeIdle with MarkTimed. *)
LEMMA ClosePartsNatural ==
  ASSUME IInv, NEW g, NEW m \in Member, NEW f \in [Partition -> Part], NEW P \in SUBSET OpenParts(f),
         NEW k \in [Partition -> Nat], NEW cm, Holds(m, f, k, cm), MarkTimed(f, P),
         \A p \in Fetching(m) : PartNatural(g[p], log[p], timed[p], f[p], k[p])
  PROVE  /\ \A p \in Partition : timed[p] \subseteq timed'[p]
         /\ \A p \in Fetching(m) : PartNatural(g[p], log[p], timed'[p], closeParts(f, P)[p], k[p])
<1>1. \A p \in Partition :
         timed'[p] = IF p \in P THEN timed[p] \cup {f[p].open.first} ELSE timed[p]
  BY DEF MarkTimed
<1>2. ASSUME NEW p \in Fetching(m)
      PROVE  PartNatural(g[p], log[p], timed'[p], closeParts(f, P)[p], k[p])
  <2>1. p \in Partition /\ f[p] \in Part /\ k[p] \in Nat
    BY FetchedPartition
  <2>2. CASE p \in P
    <3>1. closeParts(f, P)[p] = close(f[p]) /\ f[p].open # NoChunk
      BY <2>1, <2>2 DEF closeParts, OpenParts
    <3>2. f[p].open.first <= f[p].open.last
      BY <2>1, <3>1 DEF Holds, PartSound, InLog
    <3>3. timed'[p] = timed[p] \cup {f[p].open.first}
      BY <1>1, <2>1, <2>2
    <3> QED
      BY <2>1, <3>1, <3>2, <3>3, CloseNatural
  <2>3. CASE p \notin P
    BY <1>1, <2>1, <2>3 DEF closeParts
  <2> QED
    BY <2>2, <2>3
<1> QED
  BY <1>1, <1>2

LEMMA CloseAllNatural ==
  ASSUME IInv, NEW g, NEW m \in Member, NEW f \in [Partition -> Part], NEW n,
         NEW k \in [Partition -> Nat], NEW cm, Holds(m, f, k, cm),
         CloseAll(m, f, n) \/ KeepOpen(m, f, n),
         \A p \in Fetching(m) : PartNatural(g[p], log[p], timed[p], f[p], k[p])
  PROVE  /\ \A p \in Partition : timed[p] \subseteq timed'[p]
         /\ \A i \in Member : i # m => parts'[i] = parts[i]
         /\ \A p \in Fetching(m) : PartNatural(g[p], log[p], timed'[p], parts'[m][p], k[p])
<1>0. parts \in [Member -> [Partition -> Part]]
  BY DEF IInv, TypeOK
<1>1. CASE KeepOpen(m, f, n)
  BY <1>0, <1>1 DEF KeepOpen
<1>2. CASE CloseAll(m, f, n)
  <2>1. parts' = [parts EXCEPT ![m] = closeParts(f, OpenParts(f))] /\ MarkTimed(f, OpenParts(f))
    BY <1>2 DEF CloseAll
  <2>2. parts'[m] = closeParts(f, OpenParts(f)) /\ \A i \in Member : i # m => parts'[i] = parts[i]
    BY <1>0, <2>1
  <2> QED
    BY <2>1, <2>2, ClosePartsNatural
<1> QED
  BY <1>1, <1>2

(* What the invariant says of a member outside of poll. *)
LEMMA NaturalNow ==
  ASSUME IInv, NEW g, CutsSound(g), NEW m \in Member, pc[m] # "poll"
  PROVE  \A p \in Fetching(m) : PartNatural(g[p], log[p], timed[p], parts[m][p], pos[m][p])
<1>1. gone[m] = {}
  BY HoldsNow
<1> QED
  BY <1>1 DEF CutsSound, ReadNatural, applyRevocations

LEMMA AddRecordCuts ==
  ASSUME IInv, NEW g \in Division, CutsSound(g), NEW m \in Member, NEW p \in Partition, AddRecord(m, p)
  PROVE  CutsSound(g)'
<1> DEFINE o   == pos[m][p]
           r   == Rec(p, o)
           old == parts[m][p]
           new == IF o <= old.lastOffset THEN old ELSE add(old, o, r)
           f   == [parts[m] EXCEPT ![p] = new]
           n   == closedN[m] + Len(new.closed) - Len(old.closed)
<1>1. /\ pc[m] = "add" /\ batch[m][p] > 0
      /\ pos' = [pos EXCEPT ![m][p] = o + 1]
      /\ CloseAll(m, f, n) \/ KeepOpen(m, f, n)
      /\ UNCHANGED <<log, committed, owner, lost, gone, storeVars>>
  BY DEF AddRecord, Pending
<1>2. gone[m] = {} /\ parts[m] \in [Partition -> Part] /\ Holds(m, parts[m], pos[m], committed)
  BY <1>1, HoldsNow
<1>3. /\ o \in Nat /\ log[p] \in Seq(Record) /\ Len(log[p]) \in Nat /\ batch[m][p] \in Nat
      /\ o + batch[m][p] <= Len(log[p]) /\ committed[p] \in Nat
  BY DEF IInv, TypeOK, GroupTypeOK, PipelineSound, GroupSound, End
<1>4. p \in Fetching(m) /\ o < Len(log[p])
  BY <1>1, <1>3 DEF IInv, PipelineSound, GroupSound
<1>5. /\ PartSound(log[p], rows, p, old) /\ OwnerSound(log[p], rows, p, old, o, Floor(m, p))
      /\ old \in Part /\ Floor(m, p) \in Nat
  BY <1>2, <1>3, <1>4 DEF Holds, Floor
<1>6. new = add(old, o, log[p][o + 1])
  <2>1. old.lastOffset \in Int /\ ~(o <= old.lastOffset)
    BY <1>3, <1>5 DEF OwnerSound, Part
  <2> QED
    BY <2>1 DEF Rec
<1>7. /\ new \in Part /\ PartSound(log[p], rows, p, new)
      /\ OwnerSound(log[p], rows, p, new, o + 1, Floor(m, p))
  <2> HIDE DEF new, old, o
  <2> QED
    BY <1>3, <1>4, <1>5, <1>6, AddSound
<1>8. PartNatural(g[p], log[p], timed[p], new, o + 1)
  <2>1. PartNatural(g[p], log[p], timed[p], old, o)
    BY <1>1, <1>4, NaturalNow
  <2>2. g[p] \in [Nat -> Segment] /\ Divides(g[p], log[p]) /\ timed[p] \in SUBSET Int
    BY CutTypes DEF Division, CutsSound
  <2>3. old.open # NoChunk => InLog(log[p], old.open)
    BY <1>5 DEF PartSound
  <2> HIDE DEF new, old, o
  <2> QED
    BY <1>3, <1>4, <1>5, <1>6, <2>1, <2>2, <2>3, AddNatural
<1> HIDE DEF new
<1>9. /\ f \in [Partition -> Part] /\ f[p] = new /\ \A q \in Partition : q # p => f[q] = parts[m][q]
      /\ pos'[m] \in [Partition -> Nat] /\ pos'[m][p] = o + 1
      /\ \A q \in Partition : q # p => pos'[m][q] = pos[m][q]
      /\ \A i \in Member : i # m => pos'[i] = pos[i]
  <2>1. pos \in [Member -> [Partition -> Nat]] /\ o + 1 \in Nat
    BY <1>3 DEF IInv, TypeOK, GroupTypeOK
  <2> QED
    BY <1>1, <1>2, <1>7, <2>1
<1> HIDE DEF f, o, n
<1>10. Holds(m, f, pos'[m], committed)
  <2> SUFFICES ASSUME NEW q \in Partition
               PROVE  /\ PartSound(log[q], rows, q, f[q])
                      /\ q \notin Fetching(m) => f[q] = NewPart
                      /\ q \in Fetching(m) => OwnerSound(log[q], rows, q, f[q], pos'[m][q], Floor(m, q))
    BY DEF Holds, Floor
  <2>1. CASE q = p
    BY <1>4, <1>7, <1>9, <2>1
  <2>2. CASE q # p
    BY <1>2, <1>9, <2>2 DEF Holds, Floor
  <2> QED
    BY <2>1, <2>2
<1>11. \A q \in Fetching(m) : PartNatural(g[q], log[q], timed[q], f[q], pos'[m][q])
  <2> TAKE q \in Fetching(m)
  <2>1. q \in Partition
    BY FetchedPartition
  <2>2. PartNatural(g[q], log[q], timed[q], parts[m][q], pos[m][q])
    BY <1>1, NaturalNow
  <2> QED
    BY <1>8, <1>9, <2>1, <2>2
<1>12. /\ \A q \in Partition : timed[q] \subseteq timed'[q]
       /\ \A i \in Member : i # m => parts'[i] = parts[i]
       /\ \A q \in Fetching(m) : PartNatural(g[q], log[q], timed'[q], parts'[m][q], pos'[m][q])
  BY <1>1, <1>9, <1>10, <1>11, CloseAllNatural
<1> QED
  BY <1>1, <1>2, <1>9, <1>12, LocalCuts DEF storeVars

LEMMA EndBatchCuts ==
  ASSUME IInv, NEW g \in Division, CutsSound(g), NEW m \in Member,
         EndBatch(m) \/ EndBatchCancelled(m)
  PROVE  CutsSound(g)'
<1>1. /\ pc[m] = "add"
      /\ UNCHANGED <<log, committed, owner, pos, lost, gone, rows, dups, tokens, inflight>>
  BY DEF EndBatch, EndBatchCancelled, groupVars, storeVars
<1>2. /\ gone[m] = {} /\ parts[m] \in [Partition -> Part] /\ Holds(m, parts[m], pos[m], committed)
      /\ \A p \in Fetching(m) : PartNatural(g[p], log[p], timed[p], parts[m][p], pos[m][p])
  BY <1>1, HoldsNow, NaturalNow
<1>3. pos[m] \in [Partition -> Nat] /\ parts \in [Member -> [Partition -> Part]]
  BY DEF IInv, TypeOK, GroupTypeOK
<1>4. /\ \A p \in Partition : timed[p] \subseteq timed'[p]
      /\ \A i \in Member : i # m => parts'[i] = parts[i]
      /\ \A p \in Fetching(m) : PartNatural(g[p], log[p], timed'[p], parts'[m][p], pos[m][p])
  <2>1. CASE EndBatch(m)
    <3>1. PICK P \in SUBSET Idle(m) :
            parts' = [parts EXCEPT ![m] = closeParts(parts[m], P)] /\ MarkTimed(parts[m], P)
      BY <2>1 DEF EndBatch
    <3>2. P \in SUBSET OpenParts(parts[m])
      BY DEF Idle
    <3>3. parts'[m] = closeParts(parts[m], P) /\ \A i \in Member : i # m => parts'[i] = parts[i]
      BY <1>3, <3>1
    <3> QED
      BY <1>2, <1>3, <3>1, <3>2, <3>3, ClosePartsNatural
  <2>2. CASE EndBatchCancelled(m)
    <3>1. CloseAll(m, parts[m], closedN[m])
      BY <2>2 DEF EndBatchCancelled, Shutdown
    <3> QED
      BY <1>2, <1>3, <3>1, CloseAllNatural
  <2> QED
    BY <2>1, <2>2
<1> QED
  BY <1>1, <1>2, <1>4, LocalCuts

(* A commit goes to the end of a chunk; the chunks that are left are what they were. *)
LEMMA TrimNatural ==
  ASSUME NEW g, NEW L \in Seq(Record), NEW T \in SUBSET Int, NEW R, NEW p, NEW ps \in Part,
         NEW n \in 0..Len(ps.closed), NEW k, PartNatural(g, L, T, ps, k), PartSound(L, R, p, ps)
  PROVE  /\ PartNatural(g, L, T, trim(ps, n), k)
         /\ n > 0 => Boundary(g, L, T, ps.closed[n].last + 1)
<1>1. ps.closed \in Seq(Chunk) /\ Len(ps.closed) \in Nat /\ n \in Nat
  BY DEF Part
<1>2. /\ trim(ps, n).open = ps.open /\ Len(trim(ps, n).closed) = Len(ps.closed) - n
      /\ \A i \in 1..(Len(ps.closed) - n) :
           trim(ps, n).closed[i] = [ps.closed[i + n] EXCEPT !.tab = 0]
  BY TrimType
<1>3. ASSUME NEW i \in 1..Len(trim(ps, n).closed)
      PROVE  Natural(g, L, T, trim(ps, n).closed[i])
  <2>1. i + n \in 1..Len(ps.closed) /\ ps.closed[i + n] \in Chunk
    BY <1>1, <1>2
  <2>2. /\ trim(ps, n).closed[i].first = ps.closed[i + n].first
        /\ trim(ps, n).closed[i].last = ps.closed[i + n].last
    BY <1>2, <2>1 DEF Chunk
  <2>3. Natural(g, L, T, ps.closed[i + n])
    BY <2>1 DEF PartNatural
  <2> QED
    BY <2>2, <2>3 DEF Natural
<1>4. ASSUME n > 0 PROVE Boundary(g, L, T, ps.closed[n].last + 1)
  <2> DEFINE c == ps.closed[n]
  <2>1. n \in 1..Len(ps.closed) /\ c \in Chunk
    BY <1>1, <1>4
  <2>2. c.first \in Int /\ c.last \in Int
    BY <2>1 DEF Chunk
  <2>3. c.first <= c.last /\ Natural(g, L, T, c)
    BY <2>1 DEF PartSound, ClosedSound, InLog, PartNatural
  <2> HIDE DEF c
  <2>4. (c.last + 1) - 1 = c.last
    BY <2>2
  <2>5. Excused(T, c.first) => Excused(T, c.last)
    <3> SUFFICES ASSUME NEW x \in T, x <= c.first PROVE x <= c.last
      BY DEF Excused
    <3> QED
      BY <2>2, <2>3
  <2>6. Boundary(g, L, T, c.last + 1)
    BY <2>3, <2>4, <2>5 DEF Natural, Boundary
  <2> QED
    BY <2>6 DEF c
<1> QED
  BY <1>2, <1>3, <1>4 DEF PartNatural

LEMMA FlushEndCuts ==
  ASSUME IInv, NEW g \in Division, CutsSound(g), NEW m \in Member, FlushEnd(m)
  PROVE  CutsSound(g)'
<1>1. pc[m] \in {"relieve", "memory", "flush", "final"}
  BY DEF FlushEnd, FlushDone, RelieveDone, FlushCancelled, FinalTimeout
<1>2. PICK n \in [Partition -> 0..MaxLog] :
        /\ FlushStep(m, n)
        /\ CloseAll(m, Trimmed(m, n), Left(m, n)) \/ KeepOpen(m, Trimmed(m, n), Left(m, n))
  BY DEF FlushEnd, FlushDone, RelieveDone, FlushCancelled, FinalTimeout, Shutdown
<1>3. /\ \A p \in Partition : n[p] \in 0..Len(parts[m][p].closed)
      /\ UNCHANGED <<log, owner, pos, lost, gone, rows, dups, tokens, inflight>>
  BY <1>2 DEF FlushStep, storeVars
<1>4. Trimmed(m, n) \in [Partition -> Part] /\ Holds(m, Trimmed(m, n), pos[m], committed')
  BY <1>1, <1>2, FlushHolds
<1>5. /\ gone[m] = {} /\ Holds(m, parts[m], pos[m], committed)
      /\ \A p \in Fetching(m) : PartNatural(g[p], log[p], timed[p], parts[m][p], pos[m][p])
  BY <1>1, HoldsNow, NaturalNow
<1>6. ASSUME NEW p \in Fetching(m)
      PROVE  /\ p \in Partition
             /\ PartNatural(g[p], log[p], timed[p], Trimmed(m, n)[p], pos[m][p])
             /\ n[p] > 0 => Boundary(g[p], log[p], timed[p], parts[m][p].closed[n[p]].last + 1)
  <2>1. p \in Partition
    BY FetchedPartition
  <2>2. /\ log[p] \in Seq(Record) /\ timed[p] \in SUBSET Int /\ parts[m][p] \in Part
        /\ n[p] \in 0..Len(parts[m][p].closed)
        /\ PartSound(log[p], rows, p, parts[m][p])
    BY <1>3, <1>5, <2>1, CutTypes DEF Holds
  <2>3. Trimmed(m, n)[p] = trim(parts[m][p], n[p])
    BY <2>1 DEF Trimmed
  <2> QED
    BY <1>5, <2>1, <2>2, <2>3, TrimNatural
<1>7. pos[m] \in [Partition -> Nat]
  BY DEF IInv, TypeOK, GroupTypeOK
<1>8. /\ \A p \in Partition : timed[p] \subseteq timed'[p]
      /\ \A i \in Member : i # m => parts'[i] = parts[i]
      /\ \A p \in Fetching(m) : PartNatural(g[p], log[p], timed'[p], parts'[m][p], pos[m][p])
  <2> DEFINE f == Trimmed(m, n)
             z == Left(m, n)
  <2>1. f \in [Partition -> Part] /\ Holds(m, f, pos[m], committed')
        /\ (CloseAll(m, f, z) \/ KeepOpen(m, f, z))
        /\ \A p \in Fetching(m) : PartNatural(g[p], log[p], timed[p], f[p], pos[m][p])
    BY <1>2, <1>4, <1>6
  <2> HIDE DEF f, z
  <2> QED
    BY <1>7, <2>1, CloseAllNatural
<1>9. \A p \in Partition : \/ committed'[p] = committed[p]
                           \/ Boundary(g[p], log[p], timed'[p], committed'[p])
  <2>1. PICK S \in SUBSET {p \in Owned(m) : n[p] > 0} :
          committed' = [p \in Partition |->
               IF p \in S THEN parts[m][p].closed[n[p]].last + 1 ELSE committed[p]]
    BY <1>2 DEF FlushStep, Commit
  <2> TAKE p \in Partition
  <2>2. CASE p \in S
    <3>1. p \in Fetching(m) /\ n[p] > 0 /\ committed'[p] = parts[m][p].closed[n[p]].last + 1
      BY <2>1, <2>2 DEF Fetching
    <3>2. Boundary(g[p], log[p], timed[p], committed'[p])
      BY <1>6, <3>1
    <3> QED
      BY <1>8, <3>2, ExcusedMore
  <2>3. CASE p \notin S
    BY <2>1, <2>3
  <2> QED
    BY <2>2, <2>3
<1> QED
  BY <1>3, <1>5, <1>8, <1>9, LocalCuts

-----------------------------------------------------------------------------
(* Inserts. *)

(***************************************************************************)
(* A natural block is remembered, or none of its rows is stored unless a   *)
(* cut of timing excuses it.                                               *)
(***************************************************************************)
LEMMA ApplyCuts ==
  ASSUME IInv, NEW g \in Division, CutsSound(g), NEW b \in Block,
         Natural(g[b.p], log[b.p], timed[b.p], b), ApplyBlock(b), UNCHANGED <<log, timed>>
  PROVE  /\ tokens' \subseteq tokens \cup {b}
         /\ RowsRemembered'
         /\ DuplicatesNeedTimedCut'
<1>1. \A c : BlockRows(c)' = BlockRows(c)
  BY DEF BlockRows, Rec
<1>2. CASE b \in tokens \/ BlockRows(b) = {}
  <2>1. UNCHANGED <<rows, dups, tokens>>
    BY <1>2 DEF ApplyBlock
  <2> QED
    BY <1>1, <2>1 DEF CutsSound, RowsRemembered, DuplicatesNeedTimedCut
<1>3. CASE ~(b \in tokens \/ BlockRows(b) = {})
  <2>1. /\ dups' = dups \cup (rows \cap BlockRows(b)) /\ rows' = rows \cup BlockRows(b)
        /\ tokens' = tokens \cup {b}
    BY <1>3 DEF ApplyBlock
  <2>2. RowsRemembered'
    BY <1>1, <2>1 DEF CutsSound, RowsRemembered
  <2>3. ASSUME NEW d \in rows, d \in BlockRows(b)
        PROVE  Excused(timed[d[1]], d[2])
    <3>1. PICK c \in tokens : d \in BlockRows(c)
      BY DEF CutsSound, RowsRemembered
    <3>2. c \in Block /\ Natural(g[c.p], log[c.p], timed[c.p], c)
      BY DEF IInv, TypeOK, CutsSound, BlocksNatural
    <3>3. /\ b.p \in Partition /\ b.first \in Int /\ b.last \in Int
          /\ c.p \in Partition /\ c.first \in Int /\ c.last \in Int
      BY <3>2 DEF Block
    <3>4. PICK o \in b.first..b.last : d = <<b.p, o, b.table>>
      BY <2>3 DEF BlockRows
    <3>5. PICK u \in c.first..c.last : d = <<c.p, u, c.table>>
      BY <3>1 DEF BlockRows
    <3>6. c.p = b.p /\ u = o /\ c.table = b.table /\ d[1] = b.p /\ d[2] = o
      BY <3>4, <3>5
    <3>7. Covers(b, o) /\ Covers(c, o) /\ o \in Int
      BY <3>3, <3>4, <3>5, <3>6 DEF Covers
    <3>8. /\ g[b.p] \in [Nat -> Segment] /\ log[b.p] \in Seq(Record) /\ timed[b.p] \in SUBSET Int
          /\ Divides(g[b.p], log[b.p])
      BY <3>3, CutTypes DEF Division, CutsSound
    <3>9. Natural(g[b.p], log[b.p], timed[b.p], c)
      BY <3>2, <3>6
    <3>10. ASSUME ~Excused(timed[b.p], o) PROVE b = c
      <4>1. b.first = c.first /\ b.last = c.last
        BY <3>3, <3>7, <3>8, <3>9, <3>10, OneChunk
      <4> QED
        BY <3>2, <3>6, <4>1 DEF Block
    <3> QED
      BY <1>3, <3>6, <3>10
  <2>4. DuplicatesNeedTimedCut'
    BY <2>1, <2>3 DEF CutsSound, DuplicatesNeedTimedCut, Excused
  <2> QED
    BY <2>1, <2>2, <2>4
<1> QED
  BY <1>2, <1>3

(* A worker writes a chunk of a partition that its member fetches. *)
LEMMA NextBlockNatural ==
  ASSUME IInv, NEW g, CutsSound(g), NEW m \in Member, NEW p \in Partition, NEW i, Writing(m, p, i)
  PROVE  /\ NextBlock(m, p, i) \in Block
         /\ LET b == NextBlock(m, p, i) IN Natural(g[b.p], log[b.p], timed[b.p], b)
<1> DEFINE b == NextBlock(m, p, i)
           c == parts[m][p].closed[i]
<1>1. /\ i \in 1..Len(parts[m][p].closed)
      /\ b \in Block /\ b.p = p /\ b.first = c.first /\ b.last = c.last
  BY NextBlockSound
<1>2. pc[m] # "poll"
  BY DEF Writing, Flushing
<1>3. p \in Fetching(m)
  <2>1. parts[m][p] # NewPart
    BY <1>1 DEF NewPart
  <2> QED
    BY <1>2, <2>1, HoldsNow DEF Holds
<1>4. Natural(g[p], log[p], timed[p], c)
  BY <1>1, <1>2, <1>3, NaturalNow DEF PartNatural
<1> HIDE DEF b, c
<1>5. Natural(g[p], log[p], timed[p], b)
  BY <1>1, <1>4 DEF Natural
<1> QED
  BY <1>1, <1>5 DEF b

LEMMA WriteCuts ==
  ASSUME IInv, NEW g \in Division, CutsSound(g), NEW m \in Member, NEW p \in Partition, NEW i,
         WriteTable(m, p, i) \/ WriteFails(m, p, i)
  PROVE  CutsSound(g)'
<1> DEFINE b == NextBlock(m, p, i)
<1>1. /\ Writing(m, p, i) /\ UNCHANGED <<log, committed, owner, pos, lost, gone, timed>>
      /\ inflight' \subseteq inflight \cup {b}
  BY DEF WriteTable, WriteFails, groupVars
<1>2. b \in Block /\ Natural(g[b.p], log[b.p], timed[b.p], b)
  BY <1>1, NextBlockNatural
<1>3. tokens' \subseteq tokens \cup {b} /\ RowsRemembered' /\ DuplicatesNeedTimedCut'
  <2>1. CASE WriteTable(m, p, i)
    <3>1. ApplyBlock(b)
      BY <2>1 DEF WriteTable
    <3> HIDE DEF b
    <3> QED
      BY <1>1, <1>2, <3>1, ApplyCuts
  <2>2. CASE WriteFails(m, p, i)
    <3>1. UNCHANGED <<rows, dups, tokens>>
      BY <2>2 DEF WriteFails
    <3> QED
      BY <1>1, <3>1 DEF CutsSound, RowsRemembered, BlockRows, Rec, DuplicatesNeedTimedCut
  <2> QED
    BY <2>1, <2>2
<1> HIDE DEF b
<1>4. BlocksNatural(g)' /\ CommitsNatural(g)' /\ \A q \in Partition : Divides(g[q], log'[q])
  BY <1>1, <1>2, <1>3 DEF CutsSound, BlocksNatural, CommitsNatural
<1>5. ReadNatural(g)'
  <2> SUFFICES ASSUME NEW n \in Member, NEW q \in Fetching(n)
               PROVE  PartNatural(g[q], log[q], timed[q], applyRevocations(n, q)', pos[n][q])
    BY <1>1 DEF ReadNatural, Fetching, Owned
  <2>1. q \in Partition
    BY FetchedPartition
  <2>2. PartNatural(g[q], log[q], timed[q], applyRevocations(n, q), pos[n][q])
    BY DEF CutsSound, ReadNatural
  <2>3. CASE parts'[n][q] = parts[n][q]
    BY <1>1, <2>2, <2>3 DEF applyRevocations
  <2>4. CASE WriteTable(m, p, i) /\ n = m /\ q = p
    <3> DEFINE ps  == parts[m][p]
               new == [ps EXCEPT !.closed[i] = Advance(@)]
    <3>1. parts'[m][p] = new
      BY <2>4 DEF WriteTable, IInv, TypeOK
    <3>2. ps \in Part /\ i \in 1..Len(ps.closed) /\ ps.closed \in Seq(Chunk) /\ ps.closed[i] \in Chunk
      BY <1>1, CutTypes DEF Writing, Part
    <3>3. new.open = ps.open /\ new.closed = [ps.closed EXCEPT ![i] = Advance(ps.closed[i])]
      BY <3>2 DEF Part
    <3>4. Advance(ps.closed[i]).first = ps.closed[i].first /\ Advance(ps.closed[i]).last = ps.closed[i].last
      BY <3>2 DEF Advance, Chunk
    <3>5. Len(new.closed) = Len(ps.closed)
      BY <3>2, <3>3
    <3>6. \A j \in 1..Len(ps.closed) :
            new.closed[j].first = ps.closed[j].first /\ new.closed[j].last = ps.closed[j].last
      BY <3>2, <3>3, <3>4
    <3>7. gone[m] = {}
      BY <1>1, HoldsNow DEF Writing, Flushing
    <3>8. PartNatural(g[p], log[p], timed[p], ps, pos[m][p])
      BY <2>2, <2>4, <3>7 DEF applyRevocations
    <3> HIDE DEF new, ps
    <3>9. PartNatural(g[p], log[p], timed[p], new, pos[m][p])
      BY <3>3, <3>5, <3>6, <3>8, SameChunks
    <3> QED
      BY <1>1, <2>4, <3>1, <3>7, <3>9 DEF applyRevocations
  <2> QED
    <3>1. parts'[n][q] = parts[n][q] \/ (WriteTable(m, p, i) /\ n = m /\ q = p)
      BY <2>1 DEF WriteTable, WriteFails, localVars, IInv, TypeOK
    <3> QED
      BY <2>3, <2>4, <3>1
<1> QED
  BY <1>3, <1>4, <1>5 DEF CutsSound

LEMMA ApplyLateCuts ==
  ASSUME IInv, NEW g \in Division, CutsSound(g), NEW b \in inflight, ApplyLate(b)
  PROVE  CutsSound(g)'
<1>1. /\ ApplyBlock(b) /\ inflight' \subseteq inflight
      /\ UNCHANGED <<log, committed, owner, pos, lost, gone, parts, timed>>
  BY DEF ApplyLate, groupVars, localVars
<1>2. b \in Block /\ Natural(g[b.p], log[b.p], timed[b.p], b)
  BY DEF IInv, TypeOK, CutsSound, BlocksNatural
<1>3. tokens' \subseteq tokens \cup {b} /\ RowsRemembered' /\ DuplicatesNeedTimedCut'
  BY <1>1, <1>2, ApplyCuts
<1>4. BlocksNatural(g)' /\ CommitsNatural(g)' /\ \A q \in Partition : Divides(g[q], log'[q])
  BY <1>1, <1>2, <1>3 DEF CutsSound, BlocksNatural, CommitsNatural
<1>5. ReadNatural(g)'
  BY <1>1 DEF CutsSound, ReadNatural, applyRevocations, Fetching, Owned
<1> QED
  BY <1>3, <1>4, <1>5 DEF CutsSound

-----------------------------------------------------------------------------
(* The theorem. *)

LEMMA InitCuts == Init => CutInv
<1> SUFFICES ASSUME Init PROVE CutInv
  OBVIOUS
<1> DEFINE g == [p \in Partition |-> [o \in Nat |-> [first |-> 0, win |-> 0, bytes |-> 0]]]
<1>1. g \in Division
  BY DEF Division, Segment
<1> HIDE DEF g
<1>2. \A p \in Partition : log[p] = <<>> /\ Len(log[p]) = 0 /\ committed[p] = 0
  BY DEF Init, GroupInit
<1>3. \A p \in Partition : Divides(g[p], log[p])
  BY <1>2 DEF Divides
<1>4. CommitsNatural(g)
  BY <1>2 DEF CommitsNatural, Boundary
<1>5. ReadNatural(g)
  <2>1. \A m \in Member : Fetching(m) = {}
    BY GroupAssumption DEF Init, GroupInit, Fetching, Owned
  <2> QED
    BY <2>1 DEF ReadNatural
<1>6. BlocksNatural(g) /\ RowsRemembered /\ DuplicatesNeedTimedCut
  BY DEF Init, BlocksNatural, RowsRemembered, DuplicatesNeedTimedCut
<1> QED
  BY <1>1, <1>3, <1>4, <1>5, <1>6 DEF CutInv, CutsSound

LEMMA NextCuts ==
  ASSUME IInv, CutInv, [Next]_vars
  PROVE  CutInv'
<1>1. PICK g \in Division : CutsSound(g)
  BY DEF CutInv
<1>2. SUFFICES ASSUME ~ \E p \in Partition : ProduceRecord(p) PROVE CutsSound(g)'
  <2>1. (\E p \in Partition : ProduceRecord(p)) => \E h \in Division : CutsSound(h)'
    BY <1>1, ProduceCuts
  <2> QED
    BY <2>1 DEF CutInv
<1>3. CASE \E b \in inflight : ApplyLate(b)
  BY <1>1, <1>3, ApplyLateCuts
<1>4. ASSUME NEW m \in Member,
             \/ \E p \in Partition : AssignPartition(m, p) \/ RevokePartition(m, p)
             \/ ExpelMember(m) \/ NoticeLoss(m)
             \/ Start(m) \/ Cancel(m) \/ Crash(m) \/ Exit(m)
      PROVE  CutsSound(g)'
  BY <1>1, <1>4, MembersCuts
<1>5. ASSUME NEW m \in Member, NEW p \in Partition, NEW i \in 1..MaxLog,
             WriteTable(m, p, i) \/ WriteFails(m, p, i)
      PROVE  CutsSound(g)'
  BY <1>1, <1>5, WriteCuts
<1>6. ASSUME NEW m \in Member, NEW p \in Partition, AddRecord(m, p)
      PROVE  CutsSound(g)'
  BY <1>1, <1>6, AddRecordCuts
<1>7. ASSUME NEW m \in Member,
             PollRecords(m) \/ EndBatch(m) \/ EndBatchCancelled(m) \/ FlushEnd(m)
      PROVE  CutsSound(g)'
  BY <1>1, <1>7, PollCuts, EndBatchCuts, FlushEndCuts
<1>8. CASE UNCHANGED vars
  <2>1. UNCHANGED <<log, committed, owner, pos, lost, gone, parts, rows, dups, tokens, inflight, timed>>
    BY <1>8 DEF vars, groupVars, localVars, storeVars
  <2>2. \A m \in Member : \A p \in Fetching(m)' :
          p \in Fetching(m) /\ applyRevocations(m, p)' = applyRevocations(m, p) /\ pos'[m][p] = pos[m][p]
    BY <2>1 DEF applyRevocations, Fetching, Owned
  <2> QED
    BY <1>1, <2>1, <2>2, GroupCuts
<1>9. CASE Next
  BY <1>2, <1>3, <1>4, <1>5, <1>6, <1>7, <1>9 DEF Next, Step, FlushEnd
<1> QED
  BY <1>8, <1>9

(***************************************************************************)
(* Deduplication by token works for every group, log and schedule of       *)
(* faults: as long as no chunk was cut for a reason of timing, records     *)
(* that are delivered again are cut into the same chunks by whichever      *)
(* member reads them (add, token), so ClickHouse drops the blocks it has,  *)
(* those of late inserts included.                                         *)
(***************************************************************************)
THEOREM DuplicatesExplained == Spec => []DuplicatesNeedTimedCut
<1>1. Init => IInv /\ CutInv
  BY InitInv, InitCuts
<1>2. IInv /\ [Next]_vars => IInv'
  BY NextStep, Unchanged
<1>3. IInv /\ CutInv /\ [Next]_vars => CutInv'
  BY NextCuts
<1>4. CutInv => DuplicatesNeedTimedCut
  BY DEF CutInv, CutsSound
<1> QED
  BY <1>1, <1>2, <1>3, <1>4, PTL DEF Spec
-----------------------------------------------------------------------------
(* Sums over finite sets, as the community modules define them. *)

(* A set of numbers with 0 and the successors of its members has all of them. *)
LEMMA SetInduction ==
  ASSUME NEW S, 0 \in S, \A n \in Nat : n \in S => n + 1 \in S
  PROVE  Nat \subseteq S
<1> SUFFICES ASSUME Nat \ S # {} PROVE FALSE
  OBVIOUS
<1>1. PICK x \in Nat \ S : \A y \in Nat \ S : ~(<<y, x>> \in OpToRel(<, Nat))
  <2>1. Nat \ S \subseteq Nat
    OBVIOUS
  <2> HIDE DEF OpToRel
  <2>2. QED
    BY <2>1, WFMin, NatLessThanWellFounded, Zenon
<1>2. x # 0 /\ x - 1 \in Nat
  OBVIOUS
<1>3. <<x - 1, x>> \in OpToRel(<, Nat)
  BY <1>2 DEF OpToRel
<1>4. x - 1 \in S
  BY <1>1, <1>2, <1>3
<1>5. (x - 1) + 1 \in S
  BY <1>2, <1>4
<1>6. QED
  BY <1>5

Chosen(T) == CHOOSE x \in T : TRUE

(* g is the sum of f over every subset of S. *)
Sums(g, f, S) ==
    g = [T \in SUBSET S |-> IF T = {} THEN 0 ELSE f[Chosen(T)] + g[T \ {Chosen(T)}]]

LEMMA SumIs ==
  ASSUME NEW f, NEW S
  PROVE  SumFunctionOnSet(f, S) = (CHOOSE g : Sums(g, f, S))[S]
BY DEF SumFunctionOnSet, FoldFunctionOnSet, MapThenFoldSet, Sums, Chosen

LEMMA RemoveChosen ==
  ASSUME NEW T, IsFiniteSet(T), T # {}
  PROVE  /\ Chosen(T) \in T /\ T \ {Chosen(T)} \subseteq T /\ IsFiniteSet(T \ {Chosen(T)})
         /\ Cardinality(T) \in Nat /\ Cardinality(T \ {Chosen(T)}) = Cardinality(T) - 1
BY FS_RemoveElement, FS_CardinalityType DEF Chosen

LEMMA SumsExist ==
  ASSUME NEW f, NEW S, IsFiniteSet(S)
  PROVE  \E g : Sums(g, f, S)
<1> DEFINE Body(g, T) == IF T = {} THEN 0 ELSE f[Chosen(T)] + g[T \ {Chosen(T)}]
           Ok(n) == \E g : \A T \in SUBSET S : Cardinality(T) <= n => g[T] = Body(g, T)
           N == {n \in Nat : Ok(n)}
<1>0. \A T \in SUBSET S : IsFiniteSet(T) /\ Cardinality(T) \in Nat
  BY FS_Subset, FS_CardinalityType
<1>1. 0 \in N
  <2> DEFINE g == [T \in SUBSET S |-> 0]
  <2>1. ASSUME NEW T \in SUBSET S, Cardinality(T) <= 0 PROVE T = {}
    BY <1>0, <2>1, FS_EmptySet
  <2>2. \A T \in SUBSET S : Cardinality(T) <= 0 => g[T] = Body(g, T)
    BY <2>1
  <2> QED
    BY <2>2
<1>2. ASSUME NEW n \in Nat, n \in N PROVE n + 1 \in N
  <2>1. PICK g : \A T \in SUBSET S : Cardinality(T) <= n => g[T] = Body(g, T)
    BY <1>2
  <2> DEFINE h == [T \in SUBSET S |-> IF Cardinality(T) <= n THEN g[T] ELSE Body(g, T)]
  <2>2. ASSUME NEW T \in SUBSET S, Cardinality(T) <= n + 1 PROVE h[T] = Body(h, T)
    <3>1. CASE T = {}
      BY <2>1, <3>1
    <3>2. CASE T # {}
      <4> DEFINE R == T \ {Chosen(T)}
      <4>1. R \in SUBSET S /\ Cardinality(T) \in Nat /\ Cardinality(R) = Cardinality(T) - 1
        BY <1>0, <3>2, RemoveChosen
      <4>2. Cardinality(R) <= n
        BY <2>2, <4>1
      <4>3. h[R] = g[R]
        BY <4>1, <4>2
      <4>4. h[T] = Body(g, T)
        BY <2>1
      <4>5. Body(h, T) = f[Chosen(T)] + h[R] /\ Body(g, T) = f[Chosen(T)] + g[R]
        BY <3>2
      <4> QED
        BY <4>3, <4>4, <4>5
    <3> QED
      BY <3>1, <3>2
  <2>3. \A T \in SUBSET S : Cardinality(T) <= n + 1 => h[T] = Body(h, T)
    BY <2>2
  <2> HIDE DEF h, Body
  <2> QED
    BY <2>3
<1> HIDE DEF N
<1>3. Nat \subseteq N
  BY <1>1, <1>2, SetInduction
<1>4. Ok(Cardinality(S))
  BY <1>0, <1>3 DEF N
<1>5. PICK g : \A T \in SUBSET S : Cardinality(T) <= Cardinality(S) => g[T] = Body(g, T)
  BY <1>4
<1>6. \A T \in SUBSET S : Cardinality(T) <= Cardinality(S)
  BY FS_Subset
<1> DEFINE h == [T \in SUBSET S |-> g[T]]
<1>7. \A T \in SUBSET S : Body(h, T) = Body(g, T)
  BY DEF Chosen
<1>8. h = [T \in SUBSET S |-> Body(h, T)]
  BY <1>5, <1>6, <1>7
<1> QED
  BY <1>8 DEF Sums

LEMMA SumsEqual ==
  ASSUME NEW f, NEW g, NEW S, NEW R, NEW h, IsFiniteSet(S), Sums(g, f, S), R \subseteq S, Sums(h, f, R)
  PROVE  \A T \in SUBSET R : g[T] = h[T]
<1> DEFINE N == {n \in Nat : \A T \in SUBSET R : Cardinality(T) = n => g[T] = h[T]}
<1>0. \A T \in SUBSET R : T \in SUBSET S /\ IsFiniteSet(T) /\ Cardinality(T) \in Nat
  BY FS_Subset, FS_CardinalityType
<1>1. 0 \in N
  <2>1. ASSUME NEW T \in SUBSET R, Cardinality(T) = 0 PROVE T = {}
    BY <1>0, <2>1, FS_EmptySet
  <2> QED
    BY <2>1, <1>0 DEF Sums
<1>2. ASSUME NEW n \in Nat, n \in N PROVE n + 1 \in N
  <2>1. ASSUME NEW T \in SUBSET R, Cardinality(T) = n + 1 PROVE g[T] = h[T]
    <3>1. T # {}
      BY <2>1, FS_EmptySet
    <3> DEFINE Q == T \ {Chosen(T)}
    <3>2. Q \in SUBSET R /\ Cardinality(Q) = n
      BY <1>0, <2>1, <3>1, RemoveChosen
    <3>3. g[Q] = h[Q]
      BY <1>2, <3>2
    <3>4. g[T] = f[Chosen(T)] + g[Q] /\ h[T] = f[Chosen(T)] + h[Q]
      BY <1>0, <3>1 DEF Sums
    <3> QED
      BY <3>3, <3>4
  <2> QED
    BY <2>1
<1> HIDE DEF N
<1>3. Nat \subseteq N
  BY <1>1, <1>2, SetInduction
<1> QED
  BY <1>0, <1>3 DEF N

(* A family with the empty set and, with a subset of S, that subset and one more member, has S. *)
LEMMA SubsetInduction ==
  ASSUME NEW S, IsFiniteSet(S), NEW F, {} \in F,
         \A T \in SUBSET S, x \in S : T \in F /\ x \notin T => T \cup {x} \in F
  PROVE  S \in F
<1> DEFINE N == {n \in Nat : \A T \in SUBSET S : Cardinality(T) = n => T \in F}
<1>0. \A T \in SUBSET S : IsFiniteSet(T) /\ Cardinality(T) \in Nat
  BY FS_Subset, FS_CardinalityType
<1>1. 0 \in N
  BY <1>0, FS_EmptySet
<1>2. ASSUME NEW n \in Nat, n \in N PROVE n + 1 \in N
  <2>1. ASSUME NEW T \in SUBSET S, Cardinality(T) = n + 1 PROVE T \in F
    <3>1. T # {}
      <4>1. Cardinality({}) = 0
        BY FS_EmptySet
      <4> QED
        BY <2>1, <4>1
    <3> DEFINE x == Chosen(T)
               Q == T \ {x}
    <3>2. x \in T /\ Q \in SUBSET S /\ Cardinality(Q) = n
      BY <1>0, <2>1, <3>1, RemoveChosen
    <3>3. Q \in F /\ x \in S /\ x \notin Q /\ Q \cup {x} = T
      BY <1>2, <3>2
    <3> HIDE DEF x, Q
    <3> QED
      BY <3>2, <3>3
  <2> QED
    BY <2>1
<1> HIDE DEF N
<1>3. Nat \subseteq N
  BY <1>1, <1>2, SetInduction
<1> QED
  BY <1>0, <1>3 DEF N

LEMMA SumTable ==
  ASSUME NEW f, NEW S, IsFiniteSet(S)
  PROVE  \E g : Sums(g, f, S) /\ \A T \in SUBSET S : SumFunctionOnSet(f, T) = g[T]
<1>1. PICK g : Sums(g, f, S)
  BY SumsExist
<1>2. ASSUME NEW T \in SUBSET S PROVE SumFunctionOnSet(f, T) = g[T]
  <2> DEFINE h == CHOOSE k : Sums(k, f, T)
  <2>1. Sums(h, f, T)
    BY FS_Subset, SumsExist
  <2>2. SumFunctionOnSet(f, T) = h[T]
    BY SumIs
  <2> HIDE DEF h
  <2> QED
    BY <1>1, <2>1, <2>2, SumsEqual
<1> QED
  BY <1>1, <1>2

LEMMA SumEmpty ==
  ASSUME NEW f
  PROVE  SumFunctionOnSet(f, {}) = 0
<1>1. IsFiniteSet({})
  BY FS_EmptySet
<1>2. PICK g : Sums(g, f, {}) /\ \A T \in SUBSET {} : SumFunctionOnSet(f, T) = g[T]
  BY <1>1, SumTable
<1> QED
  BY <1>2 DEF Sums

LEMMA SumChosen ==
  ASSUME NEW f, NEW S, IsFiniteSet(S), S # {}
  PROVE  SumFunctionOnSet(f, S) = f[Chosen(S)] + SumFunctionOnSet(f, S \ {Chosen(S)})
<1>1. PICK g : Sums(g, f, S) /\ \A T \in SUBSET S : SumFunctionOnSet(f, T) = g[T]
  BY SumTable
<1>2. S \ {Chosen(S)} \in SUBSET S
  OBVIOUS
<1>3. g[S] = f[Chosen(S)] + g[S \ {Chosen(S)}]
  BY <1>1 DEF Sums
<1> QED
  BY <1>1, <1>2, <1>3

(* Any member may be taken first. *)
LEMMA SumInts ==
  ASSUME NEW f, NEW S, IsFiniteSet(S), \A x \in S : f[x] \in Int
  PROVE  /\ SumFunctionOnSet(f, S) \in Int
         /\ \A y \in S : SumFunctionOnSet(f, S) = f[y] + SumFunctionOnSet(f, S \ {y})
<1> DEFINE s(T) == SumFunctionOnSet(f, T)
           Ok(T) == s(T) \in Int /\ \A y \in T : s(T) = f[y] + s(T \ {y})
           N == {n \in Nat : \A T \in SUBSET S : Cardinality(T) <= n => Ok(T)}
<1>0. \A T \in SUBSET S : IsFiniteSet(T) /\ Cardinality(T) \in Nat
  BY FS_Subset, FS_CardinalityType
<1>1. 0 \in N
  <2>1. ASSUME NEW T \in SUBSET S, Cardinality(T) <= 0 PROVE T = {}
    BY <1>0, <2>1, FS_EmptySet
  <2>2. Ok({})
    BY SumEmpty
  <2> HIDE DEF Ok
  <2> QED
    BY <2>1, <2>2
<1>2. ASSUME NEW n \in Nat, n \in N PROVE n + 1 \in N
  <2>1. ASSUME NEW T \in SUBSET S, Cardinality(T) = n + 1 PROVE Ok(T)
    <3>1. T # {}
      BY <2>1, FS_EmptySet
    <3>2. PICK x : x = Chosen(T)
      OBVIOUS
    <3>3. x \in T /\ T \ {x} \in SUBSET S /\ Cardinality(T \ {x}) = n
      BY <1>0, <2>1, <3>1, <3>2, RemoveChosen
    <3>4. s(T) = f[x] + s(T \ {x})
      BY <1>0, <3>1, <3>2, SumChosen
    <3>5. Ok(T \ {x})
      <4> HIDE DEF Ok
      <4>1. Cardinality(T \ {x}) <= n
        BY <3>3
      <4> QED
        BY <1>2, <3>3, <4>1
    <3>6. s(T) \in Int
      BY <3>3, <3>4, <3>5
    <3>7. ASSUME NEW y \in T PROVE s(T) = f[y] + s(T \ {y})
      <4>1. CASE y = x
        BY <3>4, <4>1
      <4>2. CASE y # x
        <5>1. Cardinality(T \ {y}) = n /\ T \ {y} \in SUBSET S
          BY <1>0, <2>1, FS_RemoveElement
        <5>2. Ok(T \ {y})
          <6> HIDE DEF Ok
          <6>1. Cardinality(T \ {y}) <= n
            BY <5>1
          <6> QED
            BY <1>2, <5>1, <6>1
        <5>3. s(T \ {x}) = f[y] + s((T \ {x}) \ {y})
          BY <3>5, <4>2
        <5>4. s(T \ {y}) = f[x] + s((T \ {y}) \ {x})
          BY <3>3, <4>2, <5>2
        <5>5. PICK W : W = (T \ {x}) \ {y} /\ W = (T \ {y}) \ {x} /\ W \in SUBSET S
          BY <3>3
        <5>6. Cardinality(W) <= n
          BY <1>0, <3>3, <5>5, FS_Subset
        <5>7. s(T \ {x}) \in Int /\ s(T \ {y}) \in Int /\ f[x] \in Int /\ f[y] \in Int
          BY <3>3, <3>5, <5>2
        <5>8. s(W) \in Int
          <6>1. Ok(W)
            <7> HIDE DEF Ok
            <7> QED
              BY <1>2, <5>5, <5>6
          <6> QED
            BY <6>1
        <5> HIDE DEF s
        <5>9. s(T \ {x}) = f[y] + s(W) /\ s(T \ {y}) = f[x] + s(W)
          BY <5>3, <5>4, <5>5
        <5> QED
          BY <3>4, <5>7, <5>8, <5>9
      <4> QED
        BY <4>1, <4>2
    <3> HIDE DEF s
    <3> QED
      BY <3>6, <3>7
  <2>2. ASSUME NEW T \in SUBSET S, Cardinality(T) <= n + 1 PROVE Ok(T)
    <3> HIDE DEF Ok
    <3>1. Cardinality(T) <= n \/ Cardinality(T) = n + 1
      BY <1>0, <2>2
    <3> QED
      BY <1>2, <2>1, <3>1
  <2> HIDE DEF Ok
  <2> QED
    BY <2>2
<1> HIDE DEF N
<1>3. Nat \subseteq N
  BY <1>1, <1>2, SetInduction
<1>4. S \in SUBSET S /\ Cardinality(S) \in N
  BY <1>0, <1>3
<1>5. Ok(S)
  BY <1>4 DEF N
<1> QED
  BY <1>5

LEMMA SumMore ==
  ASSUME NEW f, NEW T, IsFiniteSet(T), NEW x, x \notin T, \A y \in T \cup {x} : f[y] \in Int
  PROVE  /\ SumFunctionOnSet(f, T) \in Int /\ SumFunctionOnSet(f, T \cup {x}) \in Int
         /\ SumFunctionOnSet(f, T \cup {x}) = f[x] + SumFunctionOnSet(f, T)
<1>1. IsFiniteSet(T \cup {x}) /\ (T \cup {x}) \ {x} = T
  BY FS_AddElement
<1> QED
  BY <1>1, SumInts

LEMMA SumPlus ==
  ASSUME NEW f, NEW g, NEW h, NEW S, IsFiniteSet(S),
         \A x \in S : f[x] \in Int /\ g[x] \in Int /\ h[x] = f[x] + g[x]
  PROVE  SumFunctionOnSet(h, S) = SumFunctionOnSet(f, S) + SumFunctionOnSet(g, S)
<1> DEFINE F == {T \in SUBSET S : SumFunctionOnSet(h, T) = SumFunctionOnSet(f, T) + SumFunctionOnSet(g, T)}
<1>1. {} \in F
  BY SumEmpty
<1>2. ASSUME NEW T \in SUBSET S, NEW x \in S, T \in F, x \notin T PROVE T \cup {x} \in F
  <2>1. IsFiniteSet(T)
    BY FS_Subset
  <2>2. \A y \in T \cup {x} : f[y] \in Int /\ g[y] \in Int /\ h[y] \in Int
    OBVIOUS
  <2>3. /\ SumFunctionOnSet(f, T) \in Int /\ SumFunctionOnSet(f, T \cup {x}) = f[x] + SumFunctionOnSet(f, T)
        /\ SumFunctionOnSet(g, T) \in Int /\ SumFunctionOnSet(g, T \cup {x}) = g[x] + SumFunctionOnSet(g, T)
        /\ SumFunctionOnSet(h, T) \in Int /\ SumFunctionOnSet(h, T \cup {x}) = h[x] + SumFunctionOnSet(h, T)
    BY <1>2, <2>1, <2>2, SumMore
  <2>4. SumFunctionOnSet(h, T) = SumFunctionOnSet(f, T) + SumFunctionOnSet(g, T)
    BY <1>2
  <2> QED
    BY <2>2, <2>3, <2>4
<1> HIDE DEF F
<1>3. S \in F
  BY <1>1, <1>2, SubsetInduction
<1> QED
  BY <1>3 DEF F

LEMMA SumSame ==
  ASSUME NEW f, NEW h, NEW S, IsFiniteSet(S), \A x \in S : f[x] \in Int /\ h[x] = f[x]
  PROVE  SumFunctionOnSet(h, S) = SumFunctionOnSet(f, S)
<1> DEFINE F == {T \in SUBSET S : SumFunctionOnSet(h, T) = SumFunctionOnSet(f, T)}
<1>1. {} \in F
  BY SumEmpty
<1>2. ASSUME NEW T \in SUBSET S, NEW x \in S, T \in F, x \notin T PROVE T \cup {x} \in F
  <2>1. IsFiniteSet(T)
    BY FS_Subset
  <2>2. \A y \in T \cup {x} : f[y] \in Int /\ h[y] \in Int
    OBVIOUS
  <2>3. /\ SumFunctionOnSet(f, T \cup {x}) = f[x] + SumFunctionOnSet(f, T)
        /\ SumFunctionOnSet(h, T \cup {x}) = h[x] + SumFunctionOnSet(h, T)
    BY <1>2, <2>1, <2>2, SumMore
  <2> QED
    BY <1>2, <2>3
<1> HIDE DEF F
<1>3. S \in F
  BY <1>1, <1>2, SubsetInduction
<1> QED
  BY <1>3 DEF F

(* The sum of a function that is 1 on P and 0 elsewhere is the cardinality of P. *)
LEMMA SumCount ==
  ASSUME NEW f, NEW S, IsFiniteSet(S), NEW P \in SUBSET S, \A x \in S : f[x] = IF x \in P THEN 1 ELSE 0
  PROVE  SumFunctionOnSet(f, S) = Cardinality(P)
<1> DEFINE F == {T \in SUBSET S : SumFunctionOnSet(f, T) = Cardinality(T \cap P)}
<1>1. {} \in F
  <2>1. Cardinality({}) = 0 /\ {} \cap P = {}
    BY FS_EmptySet
  <2> QED
    BY <2>1, SumEmpty
<1>2. ASSUME NEW T \in SUBSET S, NEW x \in S, T \in F, x \notin T PROVE T \cup {x} \in F
  <2>1. IsFiniteSet(T) /\ IsFiniteSet(T \cap P) /\ Cardinality(T \cap P) \in Nat
    BY FS_Subset, FS_CardinalityType
  <2>2. \A y \in T \cup {x} : f[y] \in Int
    OBVIOUS
  <2>3. SumFunctionOnSet(f, T \cup {x}) = f[x] + SumFunctionOnSet(f, T)
    BY <1>2, <2>1, <2>2, SumMore
  <2>4. SumFunctionOnSet(f, T) = Cardinality(T \cap P)
    BY <1>2
  <2>5. CASE x \in P
    <3>1. (T \cup {x}) \cap P = (T \cap P) \cup {x} /\ x \notin T \cap P
      BY <1>2, <2>5
    <3>2. Cardinality((T \cap P) \cup {x}) = Cardinality(T \cap P) + 1
      BY <2>1, <3>1, FS_AddElement
    <3>3. f[x] = 1 /\ SumFunctionOnSet(f, T \cup {x}) = Cardinality((T \cup {x}) \cap P)
      BY <2>1, <2>3, <2>4, <2>5, <3>1, <3>2
    <3> QED
      BY <3>3
  <2>6. CASE x \notin P
    <3>1. (T \cup {x}) \cap P = T \cap P
      BY <2>6
    <3> QED
      BY <2>1, <2>3, <2>4, <2>6, <3>1
  <2> QED
    BY <2>5, <2>6
<1> HIDE DEF F
<1>3. S \in F
  BY <1>1, <1>2, SubsetInduction
<1>4. S \cap P = P
  OBVIOUS
<1> QED
  BY <1>3, <1>4 DEF F

LEMMA SumNats ==
  ASSUME NEW f, NEW S, IsFiniteSet(S), \A x \in S : f[x] \in Nat
  PROVE  SumFunctionOnSet(f, S) \in Nat /\ \A y \in S : f[y] <= SumFunctionOnSet(f, S)
<1> DEFINE F == {T \in SUBSET S : SumFunctionOnSet(f, T) \in Nat}
<1>1. {} \in F
  BY SumEmpty
<1>2. ASSUME NEW T \in SUBSET S, NEW x \in S, T \in F, x \notin T PROVE T \cup {x} \in F
  <2>1. IsFiniteSet(T)
    BY FS_Subset
  <2>2. \A y \in T \cup {x} : f[y] \in Int
    OBVIOUS
  <2>3. SumFunctionOnSet(f, T \cup {x}) = f[x] + SumFunctionOnSet(f, T)
    BY <1>2, <2>1, <2>2, SumMore
  <2> QED
    BY <1>2, <2>3
<1>3. ASSUME NEW R \in SUBSET S PROVE SumFunctionOnSet(f, R) \in Nat
  <2>1. IsFiniteSet(R) /\ \A T \in SUBSET R, x \in R : T \in F /\ x \notin T => T \cup {x} \in F
    BY <1>2, FS_Subset
  <2> HIDE DEF F
  <2>2. R \in F
    BY <1>1, <2>1, SubsetInduction
  <2> QED
    BY <2>2 DEF F
<1>4. ASSUME NEW y \in S PROVE f[y] <= SumFunctionOnSet(f, S)
  <2>1. SumFunctionOnSet(f, S) = f[y] + SumFunctionOnSet(f, S \ {y})
    BY SumInts
  <2>2. SumFunctionOnSet(f, S \ {y}) \in Nat
    BY <1>3
  <2> QED
    BY <2>1, <2>2
<1> QED
  BY <1>3, <1>4

(* The sum over a shifted interval. *)
LEMMA SumShift ==
  ASSUME NEW f, NEW h, NEW n \in Nat, NEW k \in Nat,
         \A i \in 1..(n + k) : f[i] \in Nat, \A i \in 1..k : h[i] = f[i + n]
  PROVE  SumFunctionOnSet(f, 1..(n + k)) = SumFunctionOnSet(f, 1..n) + SumFunctionOnSet(h, 1..k)
<1> DEFINE N == {j \in Nat : j <= k =>
                   SumFunctionOnSet(f, 1..(n + j)) = SumFunctionOnSet(f, 1..n) + SumFunctionOnSet(h, 1..j)}
<1>0. \A i \in 1..k : h[i] \in Int
  OBVIOUS
<1>1. 0 \in N
  <2>1. 1..0 = {} /\ n + 0 = n
    OBVIOUS
  <2>2. IsFiniteSet(1..n) /\ \A i \in 1..n : f[i] \in Int
    BY FS_Interval
  <2>3. SumFunctionOnSet(f, 1..n) \in Int
    BY <2>2, SumInts
  <2> QED
    BY <2>1, <2>3, SumEmpty
<1>2. ASSUME NEW j \in Nat, j \in N PROVE j + 1 \in N
  <2> SUFFICES ASSUME j + 1 <= k
               PROVE  SumFunctionOnSet(f, 1..(n + (j + 1))) = SumFunctionOnSet(f, 1..n) + SumFunctionOnSet(h, 1..(j + 1))
    OBVIOUS
  <2>1. /\ 1..(n + (j + 1)) = (1..(n + j)) \cup {n + j + 1} /\ 1..(j + 1) = (1..j) \cup {j + 1}
        /\ n + j + 1 \notin 1..(n + j) /\ j + 1 \notin 1..j
    OBVIOUS
  <2>2. IsFiniteSet(1..(n + j)) /\ IsFiniteSet(1..j) /\ IsFiniteSet(1..n)
    BY FS_Interval
  <2>3. /\ \A i \in (1..(n + j)) \cup {n + j + 1} : f[i] \in Int
        /\ \A i \in (1..j) \cup {j + 1} : h[i] \in Int
        /\ \A i \in 1..n : f[i] \in Int
    BY <1>0
  <2>4. /\ SumFunctionOnSet(f, 1..(n + j)) \in Int
        /\ SumFunctionOnSet(f, 1..(n + (j + 1))) = f[n + j + 1] + SumFunctionOnSet(f, 1..(n + j))
    BY <2>1, <2>2, <2>3, SumMore
  <2>5. /\ SumFunctionOnSet(h, 1..j) \in Int
        /\ SumFunctionOnSet(h, 1..(j + 1)) = h[j + 1] + SumFunctionOnSet(h, 1..j)
    BY <2>1, <2>2, <2>3, SumMore
  <2>6. SumFunctionOnSet(f, 1..n) \in Int
    BY <2>2, <2>3, SumInts
  <2>7. h[j + 1] = f[n + j + 1] /\ h[j + 1] \in Int
    <3>1. j + 1 \in 1..k /\ (j + 1) + n = n + j + 1
      OBVIOUS
    <3> QED
      BY <1>0, <3>1
  <2>8. SumFunctionOnSet(f, 1..(n + j)) = SumFunctionOnSet(f, 1..n) + SumFunctionOnSet(h, 1..j)
    BY <1>2
  <2> HIDE DEF N
  <2> QED
    BY <2>4, <2>5, <2>6, <2>7, <2>8
<1> HIDE DEF N
<1>3. k \in N
  BY <1>1, <1>2, SetInduction
<1> QED
  BY <1>3 DEF N

-----------------------------------------------------------------------------
(* What a partition and a processor hold. *)

LEMMA BytesIs ==
  ASSUME NEW ps \in Part
  PROVE  /\ ps.open.bytes \in Nat /\ Len(ps.closed) \in Nat /\ DOMAIN ps.closed = 1..Len(ps.closed)
         /\ \A i \in 1..Len(ps.closed) : ps.closed[i] \in Chunk /\ ps.closed[i].bytes \in Nat
         /\ IsFiniteSet(1..Len(ps.closed))
         /\ SumFunctionOnSet([i \in DOMAIN ps.closed |-> ps.closed[i].bytes], 1..Len(ps.closed)) \in Nat
         /\ ChunkBytes(ps) = ps.open.bytes
              + SumFunctionOnSet([i \in DOMAIN ps.closed |-> ps.closed[i].bytes], 1..Len(ps.closed))
         /\ ChunkBytes(ps) \in Nat
<1> DEFINE f == [i \in DOMAIN ps.closed |-> ps.closed[i].bytes]
<1>1. ps.open \in Chunk /\ ps.closed \in Seq(Chunk)
  BY DEF Part
<1>2. Len(ps.closed) \in Nat /\ DOMAIN ps.closed = 1..Len(ps.closed)
      /\ \A i \in 1..Len(ps.closed) : ps.closed[i] \in Chunk
  BY <1>1
<1>3. ps.open.bytes \in Nat /\ \A i \in 1..Len(ps.closed) : ps.closed[i].bytes \in Nat
  BY <1>1, <1>2 DEF Chunk
<1>4. IsFiniteSet(1..Len(ps.closed))
  BY <1>2, FS_Interval
<1>5. DOMAIN f = 1..Len(ps.closed) /\ \A i \in 1..Len(ps.closed) : f[i] \in Nat
  BY <1>2, <1>3
<1>6. ChunkBytes(ps) = ps.open.bytes + SumFunctionOnSet(f, DOMAIN f)
  BY DEF ChunkBytes, SumFunction
<1> HIDE DEF f
<1>7. SumFunctionOnSet(f, 1..Len(ps.closed)) \in Nat
  BY <1>4, <1>5, SumNats
<1>8. ChunkBytes(ps) = ps.open.bytes + SumFunctionOnSet(f, 1..Len(ps.closed))
  BY <1>5, <1>6
<1>9. ChunkBytes(ps) \in Nat
  BY <1>3, <1>7, <1>8
<1> QED
  BY <1>2, <1>3, <1>4, <1>7, <1>8, <1>9 DEF f

(* Only the sizes of the chunks matter. *)
LEMMA BytesSame ==
  ASSUME NEW ps \in Part, NEW qs \in Part, qs.open.bytes = ps.open.bytes, Len(qs.closed) = Len(ps.closed),
         \A i \in 1..Len(ps.closed) : qs.closed[i].bytes = ps.closed[i].bytes
  PROVE  ChunkBytes(qs) = ChunkBytes(ps)
<1> DEFINE f == [i \in DOMAIN ps.closed |-> ps.closed[i].bytes]
           h == [i \in DOMAIN qs.closed |-> qs.closed[i].bytes]
           S == 1..Len(ps.closed)
<1>1. IsFiniteSet(S) /\ \A i \in S : f[i] \in Int /\ h[i] = f[i]
  <2>1. IsFiniteSet(S) /\ DOMAIN ps.closed = S /\ \A i \in S : ps.closed[i].bytes \in Nat
    BY BytesIs
  <2>2. DOMAIN qs.closed = S
    BY BytesIs
  <2> HIDE DEF S
  <2> QED
    BY <2>1, <2>2 DEF S
<1>2. ChunkBytes(ps) = ps.open.bytes + SumFunctionOnSet(f, S)
  BY BytesIs
<1>3. ChunkBytes(qs) = qs.open.bytes + SumFunctionOnSet(h, S)
  BY BytesIs
<1> HIDE DEF f, h, S
<1>4. SumFunctionOnSet(h, S) = SumFunctionOnSet(f, S)
  BY <1>1, SumSame
<1> QED
  BY <1>2, <1>3, <1>4

LEMMA BytesClose ==
  ASSUME NEW ps \in Part
  PROVE  ChunkBytes(close(ps)) = ChunkBytes(ps) /\ Len(close(ps).closed) = Len(ps.closed) + 1
<1> DEFINE qs == close(ps)
           k == Len(ps.closed)
           f == [i \in DOMAIN ps.closed |-> ps.closed[i].bytes]
           h == [i \in DOMAIN qs.closed |-> qs.closed[i].bytes]
<1>1. qs \in Part /\ qs.open = NoChunk /\ qs.closed = Append(ps.closed, ps.open)
  BY CloseType
<1>2. ps.closed \in Seq(Chunk) /\ ps.open \in Chunk
  BY DEF Part
<1>3. Len(qs.closed) = k + 1 /\ k \in Nat /\ qs.closed[k + 1] = ps.open /\ \A i \in 1..k : qs.closed[i] = ps.closed[i]
  BY <1>1, <1>2
<1>4. ChunkBytes(qs) = 0 + SumFunctionOnSet(h, 1..(k + 1))
  <2>1. qs.open.bytes = 0
    BY <1>1 DEF NoChunk
  <2> HIDE DEF qs
  <2> QED
    BY <1>1, <1>3, <2>1, BytesIs
<1>5. ChunkBytes(ps) = ps.open.bytes + SumFunctionOnSet(f, 1..k) /\ ps.open.bytes \in Nat
  BY BytesIs
<1>6. DOMAIN qs.closed = 1..(k + 1) /\ DOMAIN ps.closed = 1..k /\ \A i \in 1..k : ps.closed[i].bytes \in Nat
  BY <1>1, <1>2, <1>3, BytesIs
<1>7. h[k + 1] = ps.open.bytes /\ \A i \in 1..k : f[i] \in Int /\ h[i] = f[i]
  <2> HIDE DEF qs
  <2> QED
    BY <1>3, <1>6
<1>8. 1..(k + 1) = (1..k) \cup {k + 1} /\ k + 1 \notin 1..k /\ IsFiniteSet(1..k)
  <2>1. IsFiniteSet(1..k)
    BY <1>3, FS_Interval
  <2> HIDE DEF k
  <2> QED
    BY <1>3, <2>1
<1> HIDE DEF qs, f, h, k
<1>9. SumFunctionOnSet(h, 1..(k + 1)) = h[k + 1] + SumFunctionOnSet(h, 1..k) /\ SumFunctionOnSet(h, 1..(k + 1)) \in Int
  <2>1. \A i \in (1..k) \cup {k + 1} : h[i] \in Int
    BY <1>5, <1>7
  <2> QED
    <3>1. PICK T, x : T = 1..k /\ x = k + 1
      OBVIOUS
    <3>2. IsFiniteSet(T) /\ x \notin T /\ \A i \in T \cup {x} : h[i] \in Int
      BY <1>8, <2>1, <3>1
    <3>3. SumFunctionOnSet(h, T \cup {x}) \in Int /\ SumFunctionOnSet(h, T \cup {x}) = h[x] + SumFunctionOnSet(h, T)
      BY <3>2, SumMore
    <3> QED
      BY <1>8, <3>1, <3>3
<1>10. SumFunctionOnSet(h, 1..k) = SumFunctionOnSet(f, 1..k)
  BY <1>7, <1>8, SumSame
<1>11. ChunkBytes(qs) = ChunkBytes(ps)
  BY <1>4, <1>5, <1>7, <1>9, <1>10
<1> QED
  BY <1>3, <1>11 DEF qs, k

LEMMA BytesAdd ==
  ASSUME NEW ps \in Part, NEW o \in Nat, NEW r \in Record
  PROVE  ChunkBytes(add(ps, o, r)) = ChunkBytes(ps) + r.size
<1> DEFINE cut   == IF ps.open # NoChunk /\ r.win > ps.open.win THEN close(ps) ELSE ps
           grown == [cut EXCEPT !.open = extend(cut.open, o, r), !.lastOffset = o]
<1>1. cut \in Part /\ ChunkBytes(cut) = ChunkBytes(ps)
  BY CloseType, BytesClose
<1>2. r.size \in Nat
  BY ProcessorAssumption
<1>3. add(ps, o, r) \in {grown, close(grown)}
  BY DEF add
<1> HIDE DEF cut
<1>4. cut.open \in Chunk /\ cut.closed \in Seq(Chunk)
  BY <1>1 DEF Part
<1>5. extend(cut.open, o, r) \in Chunk
  BY <1>4, ExtendType
<1>6. extend(cut.open, o, r).bytes = cut.open.bytes + r.size
  <2>1. CASE cut.open = NoChunk
    BY <1>2, <2>1 DEF extend, newChunk, NoChunk
  <2>2. CASE cut.open # NoChunk
    BY <1>4, <2>2 DEF extend, Chunk
  <2> QED
    BY <2>1, <2>2
<1>7. grown \in Part /\ grown.open = extend(cut.open, o, r) /\ grown.closed = cut.closed
  <2>1. PICK e : e = extend(cut.open, o, r)
    OBVIOUS
  <2>2. e \in Chunk /\ o \in Int /\ grown = [cut EXCEPT !.open = e, !.lastOffset = o]
    BY <1>5, <2>1
  <2> HIDE DEF grown
  <2>3. grown \in Part /\ grown.open = e /\ grown.closed = cut.closed
    BY <1>1, <2>2 DEF Part
  <2> QED
    BY <2>1, <2>3
<1> HIDE DEF grown
<1>8. ChunkBytes(grown) = ChunkBytes(cut) + r.size
  <2>1. PICK s : s = SumFunctionOnSet([i \in DOMAIN cut.closed |-> cut.closed[i].bytes], 1..Len(cut.closed))
    OBVIOUS
  <2>2. s \in Nat /\ cut.open.bytes \in Nat /\ ChunkBytes(cut) = cut.open.bytes + s
    BY <1>1, <2>1, BytesIs
  <2>3. ChunkBytes(grown) = grown.open.bytes + s
    BY <1>7, <2>1, BytesIs
  <2> QED
    BY <1>2, <1>6, <1>7, <2>2, <2>3
<1> QED
  BY <1>1, <1>3, <1>7, <1>8, BytesClose

LEMMA BytesTrim ==
  ASSUME NEW ps \in Part, NEW n \in 0..Len(ps.closed)
  PROVE  /\ ChunkBytes(trim(ps, n)) <= ChunkBytes(ps)
         /\ n = Len(ps.closed) => ChunkBytes(trim(ps, n)) = ps.open.bytes
<1> DEFINE qs == trim(ps, n)
           k == Len(ps.closed) - n
           f == [i \in DOMAIN ps.closed |-> ps.closed[i].bytes]
           h == [i \in DOMAIN qs.closed |-> qs.closed[i].bytes]
<1>1. /\ qs \in Part /\ qs.open = ps.open /\ Len(qs.closed) = k
      /\ \A i \in 1..k : qs.closed[i] = [ps.closed[i + n] EXCEPT !.tab = 0]
  BY TrimType
<1>2. /\ ps.open.bytes \in Nat /\ Len(ps.closed) \in Nat /\ DOMAIN ps.closed = 1..Len(ps.closed)
      /\ \A i \in 1..Len(ps.closed) : ps.closed[i] \in Chunk /\ ps.closed[i].bytes \in Nat
      /\ SumFunctionOnSet(f, 1..Len(ps.closed)) \in Nat
      /\ ChunkBytes(ps) = ps.open.bytes + SumFunctionOnSet(f, 1..Len(ps.closed))
  BY BytesIs
<1>3. k \in Nat /\ n \in Nat /\ Len(ps.closed) = n + k
  BY <1>2
<1> HIDE DEF qs
<1>4. ChunkBytes(qs) = ps.open.bytes + SumFunctionOnSet(h, 1..k) /\ DOMAIN qs.closed = 1..k
      /\ SumFunctionOnSet(h, 1..k) \in Nat
  BY <1>1, BytesIs
<1> HIDE DEF k
<1>5. \A i \in 1..k : qs.closed[i].bytes = ps.closed[i + n].bytes
  <2> TAKE i \in 1..k
  <2>1. i + n \in 1..Len(ps.closed)
    BY <1>3
  <2>2. ps.closed[i + n] \in Chunk
    BY <1>2, <2>1
  <2> QED
    BY <1>1, <2>2 DEF Chunk
<1>6. (\A i \in 1..(n + k) : f[i] \in Nat) /\ \A i \in 1..k : h[i] = f[i + n]
  <2>1. \A i \in 1..k : i + n \in 1..(n + k)
    BY <1>3
  <2> QED
    BY <1>2, <1>3, <1>4, <1>5, <2>1
<1>7. IsFiniteSet(1..n) /\ \A i \in 1..n : f[i] \in Nat
  <2>1. \A i \in 1..n : i \in 1..(n + k)
    BY <1>3
  <2>2. IsFiniteSet(1..n)
    BY <1>3, FS_Interval
  <2> HIDE DEF f
  <2> QED
    BY <1>6, <2>1, <2>2
<1> HIDE DEF f, h
<1>8. SumFunctionOnSet(f, 1..(n + k)) = SumFunctionOnSet(f, 1..n) + SumFunctionOnSet(h, 1..k)
  BY <1>3, <1>6, SumShift, SMTT(30)
<1>9. SumFunctionOnSet(f, 1..n) \in Nat
  BY <1>7, SumNats
<1>10. ChunkBytes(qs) <= ChunkBytes(ps)
  BY <1>2, <1>3, <1>4, <1>8, <1>9
<1>11. ASSUME n = Len(ps.closed) PROVE ChunkBytes(qs) = ps.open.bytes
  <2>1. k = 0
    BY <1>3, <1>11
  <2>2. 1..k = {}
    BY <2>1
  <2>3. SumFunctionOnSet(h, 1..k) = 0
    BY <2>2, SumEmpty
  <2> QED
    BY <1>2, <1>4, <2>3
<1> QED
  BY <1>10, <1>11 DEF qs

(* The totals of a processor's partitions. *)
LEMMA TotalsAre ==
  ASSUME NEW f \in [Partition -> Part]
  PROVE  /\ IsFiniteSet(Partition)
         /\ \A p \in Partition : ChunkBytes(f[p]) \in Nat /\ Len(f[p].closed) \in Nat
         /\ TotalBytes(f) = SumFunctionOnSet([p \in Partition |-> ChunkBytes(f[p])], Partition)
         /\ ClosedCount(f) = SumFunctionOnSet([p \in Partition |-> Len(f[p].closed)], Partition)
         /\ TotalBytes(f) \in Nat /\ ClosedCount(f) \in Nat
         /\ \A p \in Partition : Len(f[p].closed) <= ClosedCount(f)
<1> DEFINE b == [p \in Partition |-> ChunkBytes(f[p])]
           l == [p \in Partition |-> Len(f[p].closed)]
<1>0. IsFiniteSet(Partition)
  BY GroupAssumption
<1>1. \A p \in Partition : ChunkBytes(f[p]) \in Nat /\ Len(f[p].closed) \in Nat
  BY BytesIs
<1>2. TotalBytes(f) = SumFunctionOnSet(b, DOMAIN b) /\ ClosedCount(f) = SumFunctionOnSet(l, DOMAIN l)
  BY DEF TotalBytes, ClosedCount, SumFunction
<1>3. DOMAIN b = Partition /\ DOMAIN l = Partition /\ \A p \in Partition : b[p] \in Nat /\ l[p] \in Nat /\ l[p] = Len(f[p].closed)
  BY <1>1
<1> HIDE DEF b, l
<1>4. SumFunctionOnSet(b, Partition) \in Nat
  BY <1>0, <1>3, SumNats
<1>5. SumFunctionOnSet(l, Partition) \in Nat /\ \A p \in Partition : l[p] <= SumFunctionOnSet(l, Partition)
  BY <1>0, <1>3, SumNats
<1>6. TotalBytes(f) = SumFunctionOnSet(b, Partition) /\ ClosedCount(f) = SumFunctionOnSet(l, Partition)
  BY <1>2, <1>3
<1>7. \A p \in Partition : Len(f[p].closed) <= ClosedCount(f)
  BY <1>3, <1>5, <1>6
<1> QED
  BY <1>0, <1>1, <1>4, <1>5, <1>6, <1>7 DEF b, l

(* The bytes of every partition move by d. *)
LEMMA BytesMove ==
  ASSUME NEW f \in [Partition -> Part], NEW g \in [Partition -> Part], NEW d,
         \A p \in Partition : d[p] \in Int /\ ChunkBytes(g[p]) = ChunkBytes(f[p]) + d[p]
  PROVE  TotalBytes(g) = TotalBytes(f) + SumFunctionOnSet(d, Partition)
<1> DEFINE b(x) == [p \in Partition |-> ChunkBytes(x[p])]
<1>0. IsFiniteSet(Partition)
  BY GroupAssumption
<1>1. TotalBytes(f) = SumFunctionOnSet(b(f), Partition)
  BY TotalsAre
<1>2. TotalBytes(g) = SumFunctionOnSet(b(g), Partition)
  BY TotalsAre
<1>3. \A p \in Partition : ChunkBytes(f[p]) \in Nat
  BY BytesIs
<1>4. \A p \in Partition : b(f)[p] \in Int /\ d[p] \in Int /\ b(g)[p] = b(f)[p] + d[p]
  BY <1>3
<1> HIDE DEF b
<1>5. SumFunctionOnSet(b(g), Partition) = SumFunctionOnSet(b(f), Partition) + SumFunctionOnSet(d, Partition)
  BY <1>0, <1>4, SumPlus
<1> QED
  BY <1>1, <1>2, <1>5

(* The closed chunks of every partition move by d. *)
LEMMA ClosedMove ==
  ASSUME NEW f \in [Partition -> Part], NEW g \in [Partition -> Part], NEW d,
         \A p \in Partition : d[p] \in Int /\ Len(g[p].closed) = Len(f[p].closed) + d[p]
  PROVE  ClosedCount(g) = ClosedCount(f) + SumFunctionOnSet(d, Partition)
<1> DEFINE l(x) == [p \in Partition |-> Len(x[p].closed)]
<1>0. IsFiniteSet(Partition)
  BY GroupAssumption
<1>1. ClosedCount(f) = SumFunctionOnSet(l(f), Partition)
  BY TotalsAre
<1>2. ClosedCount(g) = SumFunctionOnSet(l(g), Partition)
  BY TotalsAre
<1>3. \A p \in Partition : Len(f[p].closed) \in Nat
  BY BytesIs
<1>4. \A p \in Partition : l(f)[p] \in Int /\ d[p] \in Int /\ l(g)[p] = l(f)[p] + d[p]
  BY <1>3
<1> HIDE DEF l
<1>5. SumFunctionOnSet(l(g), Partition) = SumFunctionOnSet(l(f), Partition) + SumFunctionOnSet(d, Partition)
  BY <1>0, <1>4, SumPlus
<1> QED
  BY <1>1, <1>2, <1>5

LEMMA SumZero ==
  ASSUME NEW d, NEW S, IsFiniteSet(S), \A x \in S : d[x] = 0
  PROVE  SumFunctionOnSet(d, S) = 0
<1>1. \A x \in S : d[x] = IF x \in {} THEN 1 ELSE 0
  OBVIOUS
<1>2. SumFunctionOnSet(d, S) = Cardinality({})
  BY <1>1, SumCount
<1> QED
  BY <1>2, FS_EmptySet

LEMMA TotalsSame ==
  ASSUME NEW f \in [Partition -> Part], NEW g \in [Partition -> Part],
         \A p \in Partition : ChunkBytes(g[p]) = ChunkBytes(f[p]) /\ Len(g[p].closed) = Len(f[p].closed)
  PROVE  TotalBytes(g) = TotalBytes(f) /\ ClosedCount(g) = ClosedCount(f)
<1> DEFINE z == [p \in Partition |-> 0]
<1>1. IsFiniteSet(Partition) /\ \A p \in Partition : ChunkBytes(f[p]) \in Nat /\ Len(f[p].closed) \in Nat
  BY TotalsAre
<1>2. \A p \in Partition : z[p] = 0 /\ z[p] \in Int
  OBVIOUS
<1> HIDE DEF z
<1>3. SumFunctionOnSet(z, Partition) = 0
  BY <1>1, <1>2, SumZero
<1>4. /\ \A p \in Partition : z[p] \in Int /\ ChunkBytes(g[p]) = ChunkBytes(f[p]) + z[p]
      /\ \A p \in Partition : z[p] \in Int /\ Len(g[p].closed) = Len(f[p].closed) + z[p]
  BY <1>1, <1>2
<1>5. /\ TotalBytes(g) = TotalBytes(f) + SumFunctionOnSet(z, Partition)
      /\ ClosedCount(g) = ClosedCount(f) + SumFunctionOnSet(z, Partition)
  BY <1>4, BytesMove, ClosedMove
<1>6. TotalBytes(f) \in Nat /\ ClosedCount(f) \in Nat
  BY TotalsAre
<1> QED
  BY <1>3, <1>5, <1>6

LEMMA TotalsClose ==
  ASSUME NEW f \in [Partition -> Part], NEW P \in SUBSET Partition
  PROVE  /\ closeParts(f, P) \in [Partition -> Part]
         /\ TotalBytes(closeParts(f, P)) = TotalBytes(f)
         /\ ClosedCount(closeParts(f, P)) = ClosedCount(f) + Cardinality(P)
<1> DEFINE z == [p \in Partition |-> 0]
           c == [p \in Partition |-> IF p \in P THEN 1 ELSE 0]
           g == closeParts(f, P)
<1>1. IsFiniteSet(Partition) /\ \A p \in Partition : ChunkBytes(f[p]) \in Nat /\ Len(f[p].closed) \in Nat
  BY TotalsAre
<1>2. \A p \in Partition : z[p] = 0 /\ z[p] \in Int /\ c[p] \in Int /\ c[p] = IF p \in P THEN 1 ELSE 0
  OBVIOUS
<1>3. g \in [Partition -> Part]
  BY ClosePartsType
<1>4. \A p \in Partition : g[p] = IF p \in P THEN close(f[p]) ELSE f[p]
  BY DEF closeParts
<1> HIDE DEF z, c, g
<1>5. SumFunctionOnSet(z, Partition) = 0 /\ SumFunctionOnSet(c, Partition) = Cardinality(P)
  BY <1>1, <1>2, SumZero, SumCount
<1>6. \A p \in Partition : z[p] \in Int /\ ChunkBytes(g[p]) = ChunkBytes(f[p]) + z[p]
  BY <1>1, <1>2, <1>4, BytesClose
<1>7. \A p \in Partition : c[p] \in Int /\ Len(g[p].closed) = Len(f[p].closed) + c[p]
  BY <1>1, <1>2, <1>4, BytesClose
<1>8. /\ TotalBytes(g) = TotalBytes(f) + SumFunctionOnSet(z, Partition)
      /\ ClosedCount(g) = ClosedCount(f) + SumFunctionOnSet(c, Partition)
  BY <1>3, <1>6, <1>7, BytesMove, ClosedMove
<1>9. TotalBytes(f) \in Nat
  BY TotalsAre
<1> QED
  BY <1>3, <1>5, <1>8, <1>9 DEF g

(* One partition changes. *)
LEMMA TotalsChange ==
  ASSUME NEW f \in [Partition -> Part], NEW g \in [Partition -> Part], NEW p \in Partition, NEW d \in Int, NEW e \in Int,
         \A x \in Partition \ {p} : g[x] = f[x],
         ChunkBytes(g[p]) = ChunkBytes(f[p]) + d, Len(g[p].closed) = Len(f[p].closed) + e
  PROVE  TotalBytes(g) = TotalBytes(f) + d /\ ClosedCount(g) = ClosedCount(f) + e
<1> DEFINE D(v) == [x \in Partition |-> IF x = p THEN v ELSE 0]
<1>1. IsFiniteSet(Partition) /\ \A x \in Partition : ChunkBytes(f[x]) \in Nat /\ Len(f[x].closed) \in Nat
  BY TotalsAre
<1>2. ASSUME NEW v \in Int PROVE SumFunctionOnSet(D(v), Partition) = v
  <2>1. D(v)[p] = v /\ (\A x \in Partition : D(v)[x] \in Int) /\ \A x \in Partition \ {p} : D(v)[x] = 0
    OBVIOUS
  <2>2. IsFiniteSet(Partition \ {p})
    BY <1>1, FS_Subset
  <2> HIDE DEF D
  <2>3. SumFunctionOnSet(D(v), Partition \ {p}) = 0
    BY <2>1, <2>2, SumZero
  <2>4. SumFunctionOnSet(D(v), Partition) = D(v)[p] + SumFunctionOnSet(D(v), Partition \ {p})
    BY <1>1, <2>1, SumInts, SMTT(30)
  <2> QED
    BY <2>1, <2>3, <2>4
<1>3. \A x \in Partition : /\ D(d)[x] \in Int /\ ChunkBytes(g[x]) = ChunkBytes(f[x]) + D(d)[x]
                           /\ D(e)[x] \in Int /\ Len(g[x].closed) = Len(f[x].closed) + D(e)[x]
  <2> TAKE x \in Partition
  <2>1. D(d)[x] = (IF x = p THEN d ELSE 0) /\ D(e)[x] = (IF x = p THEN e ELSE 0)
    OBVIOUS
  <2> HIDE DEF D
  <2>2. CASE x = p
    BY <2>1, <2>2
  <2>3. CASE x # p
    BY <1>1, <2>1, <2>3
  <2> QED
    BY <2>2, <2>3
<1> HIDE DEF D
<1>4. /\ TotalBytes(g) = TotalBytes(f) + SumFunctionOnSet(D(d), Partition)
      /\ ClosedCount(g) = ClosedCount(f) + SumFunctionOnSet(D(e), Partition)
  BY <1>3, BytesMove, ClosedMove
<1> QED
  BY <1>2, <1>4

(* The same, by what the partition held before and holds after. *)
LEMMA TotalsPut ==
  ASSUME NEW f \in [Partition -> Part], NEW g \in [Partition -> Part], NEW p \in Partition,
         \A x \in Partition \ {p} : g[x] = f[x]
  PROVE  /\ TotalBytes(g) = TotalBytes(f) + (ChunkBytes(g[p]) - ChunkBytes(f[p]))
         /\ ClosedCount(g) = ClosedCount(f) + (Len(g[p].closed) - Len(f[p].closed))
<1>1. /\ ChunkBytes(f[p]) \in Nat /\ Len(f[p].closed) \in Nat
      /\ ChunkBytes(g[p]) \in Nat /\ Len(g[p].closed) \in Nat
  BY TotalsAre
<1>2. PICK d, e : d = ChunkBytes(g[p]) - ChunkBytes(f[p]) /\ e = Len(g[p].closed) - Len(f[p].closed)
  OBVIOUS
<1>3. /\ d \in Int /\ e \in Int
      /\ ChunkBytes(g[p]) = ChunkBytes(f[p]) + d /\ Len(g[p].closed) = Len(f[p].closed) + e
  BY <1>1, <1>2
<1>4. TotalBytes(g) = TotalBytes(f) + d /\ ClosedCount(g) = ClosedCount(f) + e
  BY <1>3, TotalsChange, ZenonT(30)
<1> QED
  BY <1>2, <1>4

(* The sum of a function that is f on G and 0 elsewhere. *)
LEMMA SumOn ==
  ASSUME NEW f, NEW d, NEW S, IsFiniteSet(S), NEW G \in SUBSET S, \A x \in G : f[x] \in Int,
         \A x \in S : d[x] = IF x \in G THEN f[x] ELSE 0
  PROVE  SumFunctionOnSet(d, S) = SumFunctionOnSet(f, G)
<1> DEFINE F == {T \in SUBSET S : SumFunctionOnSet(d, T) = SumFunctionOnSet(f, T \cap G)}
<1>1. {} \in F
  <2>1. {} \cap G = {}
    OBVIOUS
  <2> QED
    BY <2>1, SumEmpty
<1>2. ASSUME NEW T \in SUBSET S, NEW x \in S, T \in F, x \notin T PROVE T \cup {x} \in F
  <2>1. IsFiniteSet(T) /\ IsFiniteSet(T \cap G)
    BY FS_Subset
  <2>2. (\A y \in T \cup {x} : d[y] \in Int) /\ \A y \in T \cap G : f[y] \in Int
    OBVIOUS
  <2>3. SumFunctionOnSet(d, T \cup {x}) = d[x] + SumFunctionOnSet(d, T) /\ SumFunctionOnSet(d, T) \in Int
    BY <1>2, <2>1, <2>2, SumMore
  <2>4. SumFunctionOnSet(d, T) = SumFunctionOnSet(f, T \cap G)
    BY <1>2
  <2>5. CASE x \in G
    <3>1. (T \cup {x}) \cap G = (T \cap G) \cup {x} /\ x \notin T \cap G
      BY <1>2, <2>5
    <3>2. \A y \in (T \cap G) \cup {x} : f[y] \in Int
      BY <2>5
    <3>3. SumFunctionOnSet(f, (T \cap G) \cup {x}) = f[x] + SumFunctionOnSet(f, T \cap G)
      BY <2>1, <3>1, <3>2, SumMore
    <3>4. SumFunctionOnSet(d, T \cup {x}) = SumFunctionOnSet(f, (T \cup {x}) \cap G)
      BY <2>3, <2>4, <2>5, <3>1, <3>3
    <3> QED
      BY <3>4
  <2>6. CASE x \notin G
    <3>1. (T \cup {x}) \cap G = T \cap G
      BY <2>6
    <3>2. SumFunctionOnSet(d, T \cup {x}) = SumFunctionOnSet(f, (T \cup {x}) \cap G)
      BY <2>3, <2>4, <2>6, <3>1
    <3> QED
      BY <3>2
  <2> QED
    BY <2>5, <2>6
<1> HIDE DEF F
<1>3. S \in F
  BY <1>1, <1>2, SubsetInduction
<1>4. S \cap G = G
  OBVIOUS
<1> QED
  BY <1>3, <1>4 DEF F

LEMMA BytesNew == ChunkBytes(NewPart) = 0 /\ Len(NewPart.closed) = 0
<1>1. NewPart \in Part /\ NewPart.open.bytes = 0 /\ Len(NewPart.closed) = 0
  BY NoneType DEF NewPart, NoChunk
<1>2. 1..0 = {}
  OBVIOUS
<1>3. ChunkBytes(NewPart) = 0 + SumFunctionOnSet([i \in DOMAIN NewPart.closed |-> NewPart.closed[i].bytes], {})
  BY <1>1, <1>2, BytesIs
<1> QED
  BY <1>1, <1>3, SumEmpty

(* applyRevocations takes off what the partitions G hold. *)
LEMMA TotalsGone ==
  ASSUME NEW f \in [Partition -> Part], NEW g \in [Partition -> Part], NEW G \in SUBSET Partition,
         \A p \in G : ChunkBytes(g[p]) = 0 /\ Len(g[p].closed) = 0,
         \A p \in Partition \ G : ChunkBytes(g[p]) = ChunkBytes(f[p]) /\ Len(g[p].closed) = Len(f[p].closed)
  PROVE  /\ TotalBytes(g) = TotalBytes(f) - SumFunction([p \in G |-> ChunkBytes(f[p])])
         /\ ClosedCount(g) = ClosedCount(f) - SumFunction([p \in G |-> Len(f[p].closed)])
<1> DEFINE b == [p \in G |-> ChunkBytes(f[p])]
           l == [p \in G |-> Len(f[p].closed)]
           d == [p \in Partition |-> IF p \in G THEN ChunkBytes(f[p]) ELSE 0]
           e == [p \in Partition |-> IF p \in G THEN Len(f[p].closed) ELSE 0]
<1>0. IsFiniteSet(Partition)
  BY GroupAssumption
<1>1. \A p \in Partition : ChunkBytes(f[p]) \in Nat /\ Len(f[p].closed) \in Nat
  BY BytesIs
<1>2. /\ DOMAIN b = G /\ DOMAIN l = G /\ \A p \in G : b[p] \in Int /\ l[p] \in Int
      /\ \A p \in Partition : d[p] = (IF p \in G THEN b[p] ELSE 0) /\ e[p] = (IF p \in G THEN l[p] ELSE 0)
  BY <1>1
<1>3. \A p \in Partition : d[p] \in Int /\ ChunkBytes(f[p]) = ChunkBytes(g[p]) + d[p]
  <2> TAKE p \in Partition
  <2>1. d[p] = (IF p \in G THEN ChunkBytes(f[p]) ELSE 0) /\ ChunkBytes(f[p]) \in Nat
    BY <1>1
  <2> HIDE DEF d
  <2>2. CASE p \in G
    <3>1. ChunkBytes(g[p]) = 0
      BY <2>2
    <3> QED
      BY <2>1, <2>2, <3>1
  <2>3. CASE p \notin G
    <3>1. ChunkBytes(g[p]) = ChunkBytes(f[p])
      BY <2>3
    <3> QED
      BY <2>1, <2>3, <3>1
  <2> QED
    BY <2>2, <2>3
<1>4. \A p \in Partition : e[p] \in Int /\ Len(f[p].closed) = Len(g[p].closed) + e[p]
  <2> TAKE p \in Partition
  <2>1. e[p] = (IF p \in G THEN Len(f[p].closed) ELSE 0) /\ Len(f[p].closed) \in Nat
    BY <1>1
  <2> HIDE DEF e
  <2>2. CASE p \in G
    <3>1. Len(g[p].closed) = 0
      BY <2>2
    <3> QED
      BY <2>1, <2>2, <3>1
  <2>3. CASE p \notin G
    <3>1. Len(g[p].closed) = Len(f[p].closed)
      BY <2>3
    <3> QED
      BY <2>1, <2>3, <3>1
  <2> QED
    BY <2>2, <2>3
<1>5. SumFunction(b) = SumFunctionOnSet(b, G) /\ SumFunction(l) = SumFunctionOnSet(l, G)
  BY <1>2 DEF SumFunction
<1> HIDE DEF b, l, d, e
<1>6. SumFunctionOnSet(d, Partition) = SumFunctionOnSet(b, G)
  BY <1>0, <1>2, SumOn
<1>7. SumFunctionOnSet(e, Partition) = SumFunctionOnSet(l, G)
  BY <1>0, <1>2, SumOn
<1>8. TotalBytes(f) = TotalBytes(g) + SumFunctionOnSet(d, Partition) /\ SumFunctionOnSet(d, Partition) \in Int
  BY <1>0, <1>3, BytesMove, SumInts
<1>9. ClosedCount(f) = ClosedCount(g) + SumFunctionOnSet(e, Partition) /\ SumFunctionOnSet(e, Partition) \in Int
  BY <1>0, <1>4, ClosedMove, SumInts
<1>10. TotalBytes(g) \in Nat /\ ClosedCount(g) \in Nat
  BY TotalsAre
<1>11. TotalBytes(g) = TotalBytes(f) - SumFunction(b) /\ ClosedCount(g) = ClosedCount(f) - SumFunction(l)
  BY <1>5, <1>6, <1>7, <1>8, <1>9, <1>10
<1> QED
  BY <1>11 DEF b, l

(* The first n[p] chunks of every partition leave. *)
LEMMA TotalsTrim ==
  ASSUME NEW f \in [Partition -> Part], NEW n \in [Partition -> Nat], \A p \in Partition : n[p] \in 0..Len(f[p].closed),
         NEW g, g = [p \in Partition |-> trim(f[p], n[p])]
  PROVE  /\ g \in [Partition -> Part]
         /\ TotalBytes(g) = TotalBytes(f) - SumFunction([p \in Partition |-> ChunkBytes(f[p]) - ChunkBytes(trim(f[p], n[p]))])
         /\ ClosedCount(g) = ClosedCount(f) - SumFunction(n)
         /\ TotalBytes(g) <= TotalBytes(f)
<1> DEFINE d == [p \in Partition |-> ChunkBytes(f[p]) - ChunkBytes(trim(f[p], n[p]))]
<1>0. IsFiniteSet(Partition)
  BY GroupAssumption
<1>1. \A p \in Partition : g[p] = trim(f[p], n[p]) /\ g[p] \in Part /\ Len(g[p].closed) = Len(f[p].closed) - n[p]
  BY TrimType
<1>2. g \in [Partition -> Part]
  BY <1>1
<1>3. \A p \in Partition : /\ ChunkBytes(f[p]) \in Nat /\ Len(f[p].closed) \in Nat
                           /\ ChunkBytes(g[p]) \in Nat /\ ChunkBytes(g[p]) <= ChunkBytes(f[p])
  BY <1>1, BytesIs, BytesTrim
<1>4. \A p \in Partition : d[p] \in Nat /\ d[p] \in Int /\ ChunkBytes(f[p]) = ChunkBytes(g[p]) + d[p]
  BY <1>1, <1>3
<1>5. \A p \in Partition : n[p] \in Int /\ Len(f[p].closed) = Len(g[p].closed) + n[p]
  BY <1>1, <1>3
<1>6. SumFunction(d) = SumFunctionOnSet(d, Partition) /\ SumFunction(n) = SumFunctionOnSet(n, Partition)
  <2>1. DOMAIN d = Partition /\ DOMAIN n = Partition
    OBVIOUS
  <2> HIDE DEF d
  <2> QED
    BY <2>1 DEF SumFunction
<1> HIDE DEF d
<1>7. TotalBytes(f) = TotalBytes(g) + SumFunctionOnSet(d, Partition) /\ SumFunctionOnSet(d, Partition) \in Nat
  BY <1>0, <1>2, <1>4, BytesMove, SumNats
<1>8. ClosedCount(f) = ClosedCount(g) + SumFunctionOnSet(n, Partition) /\ SumFunctionOnSet(n, Partition) \in Int
  BY <1>0, <1>2, <1>5, ClosedMove, SumInts
<1>9. TotalBytes(g) \in Nat /\ ClosedCount(g) \in Nat
  BY <1>2, TotalsAre
<1>10. /\ TotalBytes(g) = TotalBytes(f) - SumFunction(d) /\ TotalBytes(g) <= TotalBytes(f)
       /\ ClosedCount(g) = ClosedCount(f) - SumFunction(n)
  BY <1>6, <1>7, <1>8, <1>9
<1> QED
  BY <1>2, <1>10 DEF d

(* Nothing open and nothing closed is no bytes. *)
LEMMA TotalsZero ==
  ASSUME NEW f \in [Partition -> Part], \A p \in Partition : ChunkBytes(f[p]) = 0
  PROVE  TotalBytes(f) = 0
<1>1. TotalBytes(f) = SumFunctionOnSet([p \in Partition |-> ChunkBytes(f[p])], Partition) /\ IsFiniteSet(Partition)
  BY TotalsAre
<1> DEFINE b == [p \in Partition |-> ChunkBytes(f[p])]
<1>2. \A p \in Partition : b[p] = 0
  OBVIOUS
<1> HIDE DEF b
<1>3. SumFunctionOnSet(b, Partition) = 0
  BY <1>1, <1>2, SumZero
<1> QED
  BY <1>1, <1>3 DEF b

-----------------------------------------------------------------------------
(* The counters of a processor. *)

(* Workers mark what they finish; the open chunk and a chunk just cut are not begun. *)
PartDone(ps) ==
    /\ ps.open.tab = 0
    /\ \A i \in 1..Len(ps.closed) : ps.closed[i].tab = Len(Tables) => ps.closed[i].status = "stored"

(***************************************************************************)
(* A processor at control point c whose partitions are f, with the         *)
(* counters b (buffered) and n (closedN).                                  *)
(***************************************************************************)
Tidy(f, b, n, c) ==
    /\ b = TotalBytes(f)
    /\ n = ClosedCount(f)
    /\ c = "memory" => OpenParts(f) = {}
    /\ c \in {"poll", "add", "flush", "down"} => b < MaxBufferedBytes
    /\ b < MaxBufferedBytes \/ \E r \in Record : b < MaxBufferedBytes + r.size
    /\ \A p \in Partition : PartDone(f[p])

BufferInv ==
    /\ buffered \in [Member -> Int]
    /\ closedN \in [Member -> Int]
    /\ \A m \in Member : Tidy(parts[m], buffered[m], closedN[m], pc[m])

LEMMA TablesSome == Len(Tables) \in Nat /\ Len(Tables) > 0
<1>1. Tables \in Seq(STRING) /\ Tables # <<>>
  BY ProcessorAssumption
<1> QED
  BY <1>1

LEMMA DoneNew == PartDone(NewPart)
BY DEF PartDone, NewPart, NoChunk

LEMMA DoneClose ==
  ASSUME NEW ps \in Part, PartDone(ps)
  PROVE  PartDone(close(ps))
<1>1. close(ps).open = NoChunk /\ close(ps).closed = Append(ps.closed, ps.open)
  BY CloseType
<1>2. ps.closed \in Seq(Chunk) /\ ps.open \in Chunk
  BY DEF Part
<1> DEFINE cl == Append(ps.closed, ps.open)
<1>3. Len(cl) = Len(ps.closed) + 1 /\ Len(ps.closed) \in Nat
  BY <1>2
<1>4. ASSUME NEW i \in 1..Len(cl), cl[i].tab = Len(Tables) PROVE cl[i].status = "stored"
  <2>1. CASE i = Len(ps.closed) + 1
    <3>1. cl[i] = ps.open
      BY <1>2, <2>1
    <3> QED
      BY <1>4, <3>1, TablesSome DEF PartDone
  <2>2. CASE i # Len(ps.closed) + 1
    <3>1. i \in 1..Len(ps.closed) /\ cl[i] = ps.closed[i]
      BY <1>2, <1>3, <2>2
    <3> QED
      BY <1>4, <3>1 DEF PartDone
  <2> QED
    BY <2>1, <2>2
<1>5. NoChunk.tab = 0
  BY DEF NoChunk
<1> QED
  BY <1>1, <1>4, <1>5 DEF PartDone

LEMMA DoneAdd ==
  ASSUME NEW ps \in Part, NEW o \in Nat, NEW r \in Record, PartDone(ps)
  PROVE  PartDone(add(ps, o, r))
<1> DEFINE cut   == IF ps.open # NoChunk /\ r.win > ps.open.win THEN close(ps) ELSE ps
           grown == [cut EXCEPT !.open = extend(cut.open, o, r), !.lastOffset = o]
<1>1. cut \in Part /\ PartDone(cut)
  BY CloseType, DoneClose
<1>2. add(ps, o, r) \in {grown, close(grown)}
  BY DEF add
<1> HIDE DEF cut
<1>3. cut.open \in Chunk
  BY <1>1 DEF Part
<1>4. extend(cut.open, o, r) \in Chunk /\ extend(cut.open, o, r).tab = 0
  BY <1>1, <1>3, ExtendType DEF PartDone
<1>5. grown \in Part /\ grown.open = extend(cut.open, o, r) /\ grown.closed = cut.closed
  <2>1. PICK e : e = extend(cut.open, o, r)
    OBVIOUS
  <2>2. e \in Chunk /\ o \in Int /\ grown = [cut EXCEPT !.open = e, !.lastOffset = o]
    BY <1>4, <2>1
  <2> HIDE DEF grown
  <2>3. grown \in Part /\ grown.open = e /\ grown.closed = cut.closed
    BY <1>1, <2>2 DEF Part
  <2> QED
    BY <2>1, <2>3
<1> HIDE DEF grown
<1>6. PartDone(grown)
  BY <1>1, <1>4, <1>5 DEF PartDone
<1> QED
  BY <1>2, <1>5, <1>6, DoneClose

LEMMA DoneTrim ==
  ASSUME NEW ps \in Part, NEW n \in 0..Len(ps.closed), PartDone(ps)
  PROVE  PartDone(trim(ps, n))
<1> DEFINE k == Len(ps.closed) - n
<1>1. /\ trim(ps, n).open = ps.open /\ Len(trim(ps, n).closed) = k
      /\ \A i \in 1..k : trim(ps, n).closed[i] = [ps.closed[i + n] EXCEPT !.tab = 0]
  BY TrimType
<1>2. \A i \in 1..k : ps.closed[i + n] \in Chunk
  <2>1. Len(ps.closed) \in Nat /\ \A i \in 1..Len(ps.closed) : ps.closed[i] \in Chunk
    BY BytesIs
  <2>2. \A i \in 1..k : i + n \in 1..Len(ps.closed)
    BY <2>1
  <2> QED
    BY <2>1, <2>2
<1> HIDE DEF k
<1>3. \A i \in 1..k : trim(ps, n).closed[i].tab = 0
  BY <1>1, <1>2 DEF Chunk
<1> QED
  BY <1>1, <1>3, TablesSome DEF PartDone

LEMMA AdvanceBooks ==
  ASSUME NEW ps \in Part, NEW i \in 1..Len(ps.closed), ps.closed[i].tab < Len(Tables),
         NEW new, new = [ps EXCEPT !.closed[i] = Advance(@)], new \in Part, PartDone(ps)
  PROVE  /\ ChunkBytes(new) = ChunkBytes(ps) /\ Len(new.closed) = Len(ps.closed) /\ new.open = ps.open
         /\ PartDone(new)
<1> DEFINE c == ps.closed[i]
<1>1. ps.closed \in Seq(Chunk) /\ c \in Chunk
  BY DEF Part
<1>2. new.open = ps.open /\ new.closed = [ps.closed EXCEPT ![i] = Advance(ps.closed[i])]
  BY DEF Part
<1>3. Advance(c).bytes = c.bytes /\ (Advance(c).tab = Len(Tables) => Advance(c).status = "stored")
  BY <1>1, TablesSome DEF Advance, Chunk
<1>4. Len(new.closed) = Len(ps.closed) /\ new.closed[i] = Advance(c)
      /\ \A j \in 1..Len(ps.closed) : j # i => new.closed[j] = ps.closed[j]
  BY <1>1, <1>2
<1> HIDE DEF c
<1>5. \A j \in 1..Len(ps.closed) : new.closed[j].bytes = ps.closed[j].bytes
  BY <1>3, <1>4 DEF c
<1>6. ChunkBytes(new) = ChunkBytes(ps)
  BY <1>2, <1>4, <1>5, BytesSame
<1>7. PartDone(new)
  BY <1>2, <1>3, <1>4 DEF PartDone
<1> QED
  BY <1>2, <1>4, <1>6, <1>7

(* Cutting the open chunks of the partitions in P. *)
LEMMA CloseBooks ==
  ASSUME NEW f \in [Partition -> Part], NEW P \in SUBSET Partition, \A p \in Partition : PartDone(f[p])
  PROVE  /\ closeParts(f, P) \in [Partition -> Part]
         /\ TotalBytes(closeParts(f, P)) = TotalBytes(f)
         /\ ClosedCount(closeParts(f, P)) = ClosedCount(f) + Cardinality(P)
         /\ \A p \in Partition : PartDone(closeParts(f, P)[p])
         /\ P = OpenParts(f) => OpenParts(closeParts(f, P)) = {}
<1>1. \A p \in Partition : closeParts(f, P)[p] = IF p \in P THEN close(f[p]) ELSE f[p]
  BY DEF closeParts
<1>2. \A p \in Partition : PartDone(closeParts(f, P)[p])
  BY <1>1, DoneClose
<1>3. ASSUME P = OpenParts(f) PROVE OpenParts(closeParts(f, P)) = {}
  BY <1>1, <1>3, CloseType DEF OpenParts
<1> QED
  BY <1>2, <1>3, TotalsClose

(* A step that is member m's own. *)
LEMMA MemberBooks ==
  ASSUME IInv, BufferInv, NEW m \in Member, NEW f \in [Partition -> Part],
         NEW b \in Int, NEW n \in Int, NEW c,
         parts' = [parts EXCEPT ![m] = f], buffered' = [buffered EXCEPT ![m] = b],
         closedN' = [closedN EXCEPT ![m] = n], pc' = [pc EXCEPT ![m] = c],
         Tidy(f, b, n, c)
  PROVE  BufferInv'
<1>1. /\ buffered \in [Member -> Int] /\ closedN \in [Member -> Int]
      /\ parts \in [Member -> [Partition -> Part]] /\ DOMAIN pc = Member
  BY DEF BufferInv, IInv, TypeOK
<1>2. buffered' \in [Member -> Int] /\ closedN' \in [Member -> Int]
  BY <1>1
<1>3. ASSUME NEW i \in Member PROVE Tidy(parts[i], buffered[i], closedN[i], pc[i])'
  <2>1. CASE i = m
    <3>1. parts'[i] = f /\ buffered'[i] = b /\ closedN'[i] = n /\ pc'[i] = c
      BY <1>1, <2>1
    <3> QED
      BY <3>1 DEF Tidy
  <2>2. CASE i # m
    <3>1. parts'[i] = parts[i] /\ buffered'[i] = buffered[i] /\ closedN'[i] = closedN[i] /\ pc'[i] = pc[i]
      BY <1>1, <2>2
    <3>2. Tidy(parts[i], buffered[i], closedN[i], pc[i])
      BY DEF BufferInv
    <3> QED
      BY <3>1, <3>2 DEF Tidy
  <2> QED
    BY <2>1, <2>2
<1> QED
  BY <1>2, <1>3 DEF BufferInv

LEMMA SameBooks ==
  ASSUME BufferInv, UNCHANGED <<parts, buffered, closedN>>,
         \A m \in Member : pc'[m] = pc[m] \/ (pc[m] = "down" /\ pc'[m] = "poll")
  PROVE  BufferInv'
<1>1. ASSUME NEW m \in Member PROVE Tidy(parts[m], buffered[m], closedN[m], pc[m])'
  <2>1. Tidy(parts[m], buffered[m], closedN[m], pc[m])
    BY DEF BufferInv
  <2>2. Tidy(parts[m], buffered[m], closedN[m], pc'[m])
    BY <2>1 DEF Tidy
  <2> QED
    BY <2>2 DEF Tidy
<1> QED
  BY <1>1 DEF BufferInv

(* What BufferInv says of one member. *)
LEMMA BooksOf ==
  ASSUME IInv, BufferInv, NEW m \in Member
  PROVE  /\ parts[m] \in [Partition -> Part] /\ buffered[m] \in Int /\ closedN[m] \in Int
         /\ Tidy(parts[m], buffered[m], closedN[m], pc[m])
         /\ MaxBufferedBytes \in Nat /\ MaxBufferedBytes > 0
         /\ \A r \in Record : r.size \in Nat
<1>1. MaxBufferedBytes \in Nat /\ MaxBufferedBytes > 0 /\ \A r \in Record : r.size \in Nat
  BY ProcessorAssumption
<1> QED
  BY <1>1 DEF BufferInv, IInv, TypeOK

(* A processor that holds nothing. *)
LEMMA NewBooks ==
  ASSUME NEW c, c # "memory"
  PROVE  /\ [p \in Partition |-> NewPart] \in [Partition -> Part]
         /\ Tidy([p \in Partition |-> NewPart], 0, 0, c)
<1> DEFINE f == [p \in Partition |-> NewPart]
<1>1. f \in [Partition -> Part] /\ \A p \in Partition : f[p] = NewPart
  BY NoneType
<1> HIDE DEF f
<1>2. \A p \in Partition : ChunkBytes(f[p]) = 0 /\ Len(f[p].closed) = 0 /\ PartDone(f[p])
  BY <1>1, BytesNew, DoneNew
<1>3. TotalBytes(f) = 0
  BY <1>1, <1>2, TotalsZero
<1>4. ClosedCount(f) = 0
  <2>1. /\ ClosedCount(f) = SumFunctionOnSet([p \in Partition |-> Len(f[p].closed)], Partition)
        /\ IsFiniteSet(Partition)
    BY <1>1, TotalsAre
  <2> DEFINE l == [p \in Partition |-> Len(f[p].closed)]
  <2>2. \A p \in Partition : l[p] = 0
    BY <1>2
  <2> HIDE DEF l
  <2>3. SumFunctionOnSet(l, Partition) = 0
    BY <2>1, <2>2, SumZero
  <2> QED
    BY <2>1, <2>3 DEF l
<1>5. 0 < MaxBufferedBytes
  BY ProcessorAssumption
<1>6. Tidy(f, 0, 0, c)
  BY <1>2, <1>3, <1>4, <1>5 DEF Tidy
<1> QED
  BY <1>1, <1>6 DEF f

LEMMA InitBooks == Init => BufferInv
<1> SUFFICES ASSUME Init PROVE BufferInv
  OBVIOUS
<1>1. /\ \A m \in Member : /\ parts[m] = [p \in Partition |-> NewPart] /\ buffered[m] = 0
                           /\ closedN[m] = 0 /\ pc[m] = "down"
      /\ buffered \in [Member -> Int] /\ closedN \in [Member -> Int]
  BY DEF Init
<1>2. Tidy([p \in Partition |-> NewPart], 0, 0, "down")
  BY NewBooks
<1> QED
  BY <1>1, <1>2 DEF BufferInv

LEMMA FreshBooks ==
  ASSUME IInv, BufferInv, NEW m \in Member, Fresh(m), pc' = [pc EXCEPT ![m] = "down"]
  PROVE  BufferInv'
<1>1. PICK f : f = [p \in Partition |-> NewPart]
  OBVIOUS
<1>2. f \in [Partition -> Part] /\ Tidy(f, 0, 0, "down")
  BY <1>1, NewBooks
<1>3. /\ parts' = [parts EXCEPT ![m] = f]
      /\ buffered' = [buffered EXCEPT ![m] = 0] /\ closedN' = [closedN EXCEPT ![m] = 0]
  BY <1>1 DEF Fresh
<1>4. PICK c : c = "down"
  OBVIOUS
<1>5. 0 \in Int /\ Tidy(f, 0, 0, c) /\ pc' = [pc EXCEPT ![m] = c]
  BY <1>2, <1>4
<1> QED
  BY <1>2, <1>3, <1>5, MemberBooks

(* applyRevocations takes off the counters what it drops. *)
LEMMA PollBooks ==
  ASSUME IInv, BufferInv, NEW m \in Member, PollRecords(m)
  PROVE  BufferInv'
<1>1. PICK h \in [Partition -> 0..MaxLog] :
        parts' = [parts EXCEPT ![m] = [p \in Partition |->
            SeenHwm(applyRevocations(m, p), IF h[p] > 0 THEN End(p) ELSE 0)]]
  BY DEF PollRecords
<1> DEFINE w(p) == IF h[p] > 0 THEN End(p) ELSE 0
           g == [p \in Partition |-> SeenHwm(applyRevocations(m, p), w(p))]
           x == SumFunction([p \in gone[m] |-> ChunkBytes(parts[m][p])])
           y == SumFunction([p \in gone[m] |-> Len(parts[m][p].closed)])
<1>2. /\ pc[m] = "poll" /\ pc' = [pc EXCEPT ![m] = "add"]
      /\ buffered' = [buffered EXCEPT ![m] = @ - x] /\ closedN' = [closedN EXCEPT ![m] = @ - y]
      /\ parts' = [parts EXCEPT ![m] = g]
  BY <1>1 DEF PollRecords
<1>3. /\ parts[m] \in [Partition -> Part] /\ buffered[m] \in Int /\ closedN[m] \in Int
      /\ Tidy(parts[m], buffered[m], closedN[m], pc[m])
      /\ MaxBufferedBytes \in Nat
  BY BooksOf
<1>4. gone[m] \in SUBSET Partition /\ \A p \in Partition : w(p) \in Nat /\ applyRevocations(m, p) \in Part
  <2>1. gone \in [Member -> SUBSET Partition] /\ \A p \in Partition : End(p) \in Nat
    BY DEF IInv, TypeOK, GroupTypeOK, End
  <2>2. \A p \in Partition : applyRevocations(m, p) \in Part
    BY KeptSound DEF IInv, PipelineSound
  <2> QED
    BY <2>1, <2>2
<1> HIDE DEF w
<1>5. ASSUME NEW p \in Partition
      PROVE  /\ g[p] \in Part
             /\ p \in gone[m] => ChunkBytes(g[p]) = 0 /\ Len(g[p].closed) = 0
             /\ p \notin gone[m] => ChunkBytes(g[p]) = ChunkBytes(parts[m][p]) /\ Len(g[p].closed) = Len(parts[m][p].closed)
             /\ PartDone(g[p])
  <2> DEFINE ps == applyRevocations(m, p)
  <2>1. g[p] = SeenHwm(ps, w(p)) /\ ps \in Part /\ SeenHwm(ps, w(p)) \in Part
    BY <1>4, HwmSound
  <2>2. SeenHwm(ps, w(p)).open = ps.open /\ SeenHwm(ps, w(p)).closed = ps.closed
    <3> HIDE DEF ps
    <3> QED
      BY <2>1 DEF SeenHwm, Part
  <2>3. PartDone(ps)
    BY <1>3, DoneNew DEF Tidy, applyRevocations
  <2>4. (p \in gone[m] => ps = NewPart) /\ (p \notin gone[m] => ps = parts[m][p])
    BY DEF applyRevocations
  <2> HIDE DEF ps, g
  <2>5. g[p] \in Part /\ g[p].open = ps.open /\ g[p].closed = ps.closed
    BY <2>1, <2>2
  <2>6. ChunkBytes(g[p]) = ChunkBytes(ps)
    BY <2>1, <2>5, BytesSame
  <2>7. PartDone(g[p])
    BY <2>3, <2>5 DEF PartDone
  <2> QED
    BY <2>4, <2>5, <2>6, <2>7, BytesNew
<1>6. g \in [Partition -> Part]
  BY <1>5
<1> HIDE DEF g
<1>7. TotalBytes(g) = TotalBytes(parts[m]) - x /\ ClosedCount(g) = ClosedCount(parts[m]) - y
  <2>1. /\ \A p \in gone[m] : ChunkBytes(g[p]) = 0 /\ Len(g[p].closed) = 0
        /\ \A p \in Partition \ gone[m] : /\ ChunkBytes(g[p]) = ChunkBytes(parts[m][p])
                                          /\ Len(g[p].closed) = Len(parts[m][p].closed)
    BY <1>4, <1>5
  <2> QED
    BY <1>3, <1>4, <1>6, <2>1, TotalsGone
<1>8. x \in Nat
  <2> DEFINE b == [p \in gone[m] |-> ChunkBytes(parts[m][p])]
  <2>1. IsFiniteSet(gone[m])
    BY <1>4, GroupAssumption, FS_Subset
  <2>2. DOMAIN b = gone[m] /\ \A p \in gone[m] : b[p] \in Nat
    BY <1>3, <1>4, BytesIs
  <2> HIDE DEF b
  <2>3. SumFunction(b) \in Nat
    BY <2>1, <2>2, SumNats DEF SumFunction
  <2> QED
    BY <2>3 DEF b
<1> HIDE DEF x, y
<1>9. /\ buffered' = [buffered EXCEPT ![m] = buffered[m] - x] /\ closedN' = [closedN EXCEPT ![m] = closedN[m] - y]
      /\ TotalBytes(g) \in Nat /\ ClosedCount(g) \in Nat
  BY <1>2, <1>6, TotalsAre
<1>10. buffered[m] = TotalBytes(parts[m]) /\ closedN[m] = ClosedCount(parts[m]) /\ buffered[m] < MaxBufferedBytes
  BY <1>2, <1>3 DEF Tidy
<1>11. buffered[m] - x = TotalBytes(g) /\ closedN[m] - y = ClosedCount(g) /\ TotalBytes(g) < MaxBufferedBytes
  BY <1>3, <1>7, <1>8, <1>9, <1>10
<1>12. Tidy(g, TotalBytes(g), ClosedCount(g), "add")
  BY <1>5, <1>11 DEF Tidy
<1>13. buffered' = [buffered EXCEPT ![m] = TotalBytes(g)] /\ closedN' = [closedN EXCEPT ![m] = ClosedCount(g)]
  BY <1>9, <1>11
<1>14. PICK c : c = "add"
  OBVIOUS
<1>15. Tidy(g, TotalBytes(g), ClosedCount(g), c) /\ pc' = [pc EXCEPT ![m] = c]
  BY <1>2, <1>12, <1>14
<1>16. TotalBytes(g) \in Int /\ ClosedCount(g) \in Int
  BY <1>9
<1> QED
  BY <1>2, <1>6, <1>13, <1>15, <1>16, MemberBooks

(* Cutting all open chunks or none: the books after CloseAll or KeepOpen. *)
LEMMA CutBooks ==
  ASSUME IInv, BufferInv, NEW m \in Member, NEW f \in [Partition -> Part], NEW b, NEW n, NEW c,
         b = TotalBytes(f), n = ClosedCount(f), \A p \in Partition : PartDone(f[p]),
         b < MaxBufferedBytes \/ \E r \in Record : b < MaxBufferedBytes + r.size,
         buffered' = [buffered EXCEPT ![m] = b], pc' = [pc EXCEPT ![m] = c],
         \/ CloseAll(m, f, n) /\ (c \in {"poll", "add", "flush", "down"} => b < MaxBufferedBytes)
         \/ KeepOpen(m, f, n) /\ c # "memory" /\ (c \in {"poll", "add", "flush", "down"} => b < MaxBufferedBytes)
  PROVE  BufferInv'
<1>0. b \in Int /\ n \in Int
  <2>1. TotalBytes(f) \in Nat /\ ClosedCount(f) \in Nat
    BY TotalsAre
  <2> QED
    BY <2>1
<1>1. CASE /\ CloseAll(m, f, n)
           /\ c \in {"poll", "add", "flush", "down"} => b < MaxBufferedBytes
  <2> DEFINE g == closeParts(f, OpenParts(f))
             k == n + Cardinality(OpenParts(f))
  <2>1. OpenParts(f) \in SUBSET Partition
    BY DEF OpenParts
  <2>2. /\ g \in [Partition -> Part] /\ TotalBytes(g) = b /\ ClosedCount(g) = k
        /\ (\A p \in Partition : PartDone(g[p])) /\ OpenParts(g) = {}
    BY <2>1, CloseBooks
  <2>3. parts' = [parts EXCEPT ![m] = g] /\ closedN' = [closedN EXCEPT ![m] = k]
    BY <1>1 DEF CloseAll
  <2> HIDE DEF g, k
  <2>4. k \in Int
    <3>1. ClosedCount(g) \in Nat
      BY <2>2, TotalsAre
    <3> QED
      BY <2>2, <3>1
  <2>5. Tidy(g, b, k, c)
    BY <1>1, <2>2 DEF Tidy
  <2> QED
    BY <1>0, <2>2, <2>3, <2>4, <2>5, MemberBooks
<1>2. CASE /\ KeepOpen(m, f, n) /\ c # "memory"
           /\ c \in {"poll", "add", "flush", "down"} => b < MaxBufferedBytes
  <2>1. parts' = [parts EXCEPT ![m] = f] /\ closedN' = [closedN EXCEPT ![m] = n]
    BY <1>2 DEF KeepOpen
  <2>2. Tidy(f, b, n, c)
    BY <1>2 DEF Tidy
  <2> QED
    BY <1>0, <2>1, <2>2, MemberBooks
<1> QED
  BY <1>1, <1>2

(* A record is added: the limit is passed by less than its size. *)
LEMMA AddRecordBooks ==
  ASSUME IInv, BufferInv, NEW m \in Member, NEW p \in Partition, AddRecord(m, p)
  PROVE  BufferInv'
<1> DEFINE o    == pos[m][p]
           r    == Rec(p, o)
           old  == parts[m][p]
           new  == IF o <= old.lastOffset THEN old ELSE add(old, o, r)
           f    == [parts[m] EXCEPT ![p] = new]
           size == IF o <= old.lastOffset THEN 0 ELSE r.size
           n    == closedN[m] + Len(new.closed) - Len(old.closed)
           b    == buffered[m] + size
           full == b >= MaxBufferedBytes
           c    == IF ~full THEN "add" ELSE IF n = 0 THEN "memory" ELSE "relieve"
<1>1. /\ pc[m] = "add" /\ batch[m][p] > 0 /\ buffered' = [buffered EXCEPT ![m] = @ + size]
      /\ IF full /\ n = 0 THEN CloseAll(m, f, n) ELSE KeepOpen(m, f, n)
      /\ pc' = [pc EXCEPT ![m] = c]
  BY DEF AddRecord, Pending
<1>2. /\ parts[m] \in [Partition -> Part] /\ buffered[m] \in Int /\ closedN[m] \in Int
      /\ Tidy(parts[m], buffered[m], closedN[m], pc[m])
      /\ MaxBufferedBytes \in Nat /\ \A x \in Record : x.size \in Nat
  BY BooksOf
<1>3. o \in Nat /\ r \in Record /\ old \in Part /\ PartDone(old)
  <2>1. o \in Nat /\ batch[m][p] \in Nat /\ log[p] \in Seq(Record) /\ Len(log[p]) \in Nat
    BY DEF IInv, TypeOK, GroupTypeOK
  <2>2. o + batch[m][p] <= Len(log[p])
    BY DEF IInv, PipelineSound, GroupSound, End
  <2>3. o + 1 \in 1..Len(log[p])
    BY <1>1, <2>1, <2>2
  <2>4. r \in Record
    BY <2>1, <2>3 DEF Rec
  <2> QED
    BY <1>2, <2>1, <2>4 DEF Tidy
<1> HIDE DEF o, r
<1>4. /\ new \in Part /\ PartDone(new) /\ size \in Nat /\ ChunkBytes(new) = ChunkBytes(old) + size
      /\ Len(new.closed) \in Nat /\ Len(old.closed) \in Nat
      /\ size = 0 \/ size = r.size
  <2>1. CASE o <= old.lastOffset
    <3>1. new = old /\ size = 0
      BY <2>1
    <3>2. ChunkBytes(old) \in Nat /\ Len(old.closed) \in Nat
      BY <1>3, BytesIs
    <3> HIDE DEF new, size, old
    <3> QED
      BY <1>3, <3>1, <3>2
  <2>2. CASE ~(o <= old.lastOffset)
    <3>1. new = add(old, o, r) /\ size = r.size
      BY <2>2
    <3>2. r.size \in Nat
      BY <1>2, <1>3
    <3>3. new \in Part /\ PartDone(new) /\ ChunkBytes(new) = ChunkBytes(old) + r.size
      <4> HIDE DEF new, size, old
      <4> QED
        BY <1>3, <3>1, AddType, DoneAdd, BytesAdd
    <3> HIDE DEF new, size, old
    <3>4. Len(new.closed) \in Nat /\ Len(old.closed) \in Nat
      BY <1>3, <3>3, BytesIs
    <3> QED
      BY <3>1, <3>2, <3>3, <3>4
  <2> QED
    BY <2>1, <2>2
<1> HIDE DEF new, size
<1>5. f \in [Partition -> Part] /\ f[p] = new /\ \A q \in Partition \ {p} : f[q] = parts[m][q]
  BY <1>2, <1>4
<1> HIDE DEF f
<1>6. TotalBytes(f) = TotalBytes(parts[m]) + size /\ ClosedCount(f) = ClosedCount(parts[m]) + (Len(new.closed) - Len(old.closed))
  <2>0. PICK e : e = Len(new.closed) - Len(old.closed)
    OBVIOUS
  <2>1. e \in Int /\ e = Len(new.closed) - Len(old.closed)
    <3> HIDE DEF old
    <3> QED
      BY <1>4, <2>0
  <2>2. ChunkBytes(f[p]) = ChunkBytes(parts[m][p]) + size /\ Len(f[p].closed) = Len(parts[m][p].closed) + e /\ size \in Int
    BY <1>4, <1>5, <2>1
  <2>3. /\ TotalBytes(f) = TotalBytes(parts[m]) + (ChunkBytes(f[p]) - ChunkBytes(parts[m][p]))
        /\ ClosedCount(f) = ClosedCount(parts[m]) + (Len(f[p].closed) - Len(parts[m][p].closed))
    <3>1. PICK F : F = parts[m]
      OBVIOUS
    <3>2. F \in [Partition -> Part] /\ \A x \in Partition \ {p} : f[x] = F[x]
      BY <1>2, <1>5, <3>1
    <3>3. /\ TotalBytes(f) = TotalBytes(F) + (ChunkBytes(f[p]) - ChunkBytes(F[p]))
          /\ ClosedCount(f) = ClosedCount(F) + (Len(f[p].closed) - Len(F[p].closed))
      BY <1>2, <1>5, <3>2, TotalsPut
    <3> QED
      BY <3>1, <3>3
  <2>4. ChunkBytes(parts[m][p]) \in Nat /\ Len(parts[m][p].closed) \in Nat
    BY <1>2, <1>3, BytesIs
  <2> QED
    BY <2>1, <2>2, <2>3, <2>4
<1>7. buffered[m] = TotalBytes(parts[m]) /\ closedN[m] = ClosedCount(parts[m]) /\ buffered[m] < MaxBufferedBytes
  BY <1>1, <1>2 DEF Tidy
<1> HIDE DEF old
<1>8. b = TotalBytes(f) /\ n = ClosedCount(f)
  BY <1>2, <1>4, <1>6, <1>7
<1>9. b < MaxBufferedBytes \/ \E x \in Record : b < MaxBufferedBytes + x.size
  <2>1. CASE size = 0
    BY <1>2, <1>7, <2>1
  <2>2. CASE size = r.size
    <3>1. b < MaxBufferedBytes + r.size
      BY <1>2, <1>4, <1>7, <2>2
    <3> QED
      BY <1>3, <3>1
  <2> QED
    BY <1>4, <2>1, <2>2
<1>10. \A q \in Partition : PartDone(f[q])
  BY <1>2, <1>4, <1>5 DEF Tidy
<1>11. buffered' = [buffered EXCEPT ![m] = b]
  BY <1>1
<1>12. b \in Int
  BY <1>2, <1>4
<1>13. \/ CloseAll(m, f, n) /\ (c \in {"poll", "add", "flush", "down"} => b < MaxBufferedBytes)
       \/ KeepOpen(m, f, n) /\ c # "memory" /\ (c \in {"poll", "add", "flush", "down"} => b < MaxBufferedBytes)
  <2> HIDE DEF b, n
  <2>1. ~full => b < MaxBufferedBytes
    BY <1>2, <1>12
  <2> HIDE DEF full
  <2>2. CASE full /\ n = 0
    <3>1. CloseAll(m, f, n) /\ c = "memory"
      BY <1>1, <2>2
    <3> HIDE DEF c
    <3> QED
      BY <3>1
  <2>3. CASE full /\ n # 0
    <3>1. KeepOpen(m, f, n) /\ c = "relieve"
      BY <1>1, <2>3
    <3> HIDE DEF c
    <3> QED
      BY <3>1
  <2>4. CASE ~full
    <3>1. KeepOpen(m, f, n) /\ c = "add"
      BY <1>1, <2>4
    <3> HIDE DEF c
    <3> QED
      BY <2>1, <2>4, <3>1
  <2> QED
    BY <2>2, <2>3, <2>4
<1>14. pc' = [pc EXCEPT ![m] = c]
  BY <1>1
<1> HIDE DEF b, n, c, full
<1> QED
  BY <1>5, <1>8, <1>9, <1>10, <1>11, <1>13, <1>14, CutBooks

LEMMA EndBatchBooks ==
  ASSUME IInv, BufferInv, NEW m \in Member, EndBatch(m)
  PROVE  BufferInv'
<1>1. PICK P \in SUBSET Idle(m) :
        /\ parts' = [parts EXCEPT ![m] = closeParts(parts[m], P)]
        /\ closedN' = [closedN EXCEPT ![m] = @ + Cardinality(P)]
        /\ pc' = [pc EXCEPT ![m] = IF closedN'[m] = 0 THEN "poll" ELSE "flush"]
  BY DEF EndBatch
<1>2. pc[m] = "add" /\ buffered' = buffered
  BY DEF EndBatch
<1>3. /\ parts[m] \in [Partition -> Part] /\ buffered[m] \in Int /\ closedN[m] \in Int
      /\ Tidy(parts[m], buffered[m], closedN[m], pc[m])
  BY BooksOf
<1>4. P \in SUBSET Partition
  BY DEF Idle, OpenParts
<1> DEFINE g == closeParts(parts[m], P)
           n == closedN[m] + Cardinality(P)
<1>5. /\ g \in [Partition -> Part] /\ TotalBytes(g) = buffered[m] /\ ClosedCount(g) = n
      /\ \A p \in Partition : PartDone(g[p])
  BY <1>3, <1>4, CloseBooks DEF Tidy
<1>6. parts' = [parts EXCEPT ![m] = g] /\ closedN' = [closedN EXCEPT ![m] = n]
  BY <1>1
<1> HIDE DEF g, n
<1>7. PICK c : c \in {"poll", "flush"} /\ pc' = [pc EXCEPT ![m] = c]
  BY <1>1
<1>8. n \in Int
  <2>1. ClosedCount(g) \in Nat
    BY <1>5, TotalsAre
  <2> QED
    BY <1>5, <2>1
<1>9. buffered' = [buffered EXCEPT ![m] = buffered[m]]
  BY <1>2 DEF BufferInv
<1>10. Tidy(g, buffered[m], n, c)
  BY <1>2, <1>3, <1>5, <1>7 DEF Tidy
<1> QED
  BY <1>3, <1>5, <1>6, <1>7, <1>8, <1>9, <1>10, MemberBooks

LEMMA EndBatchCancelledBooks ==
  ASSUME IInv, BufferInv, NEW m \in Member, EndBatchCancelled(m)
  PROVE  BufferInv'
<1>1. pc[m] = "add" /\ buffered' = buffered /\ CloseAll(m, parts[m], closedN[m])
      /\ \E x : x \in {"exit", "final"} /\ pc' = [pc EXCEPT ![m] = x]
  BY DEF EndBatchCancelled, Shutdown
<1>2. PICK c : c \in {"exit", "final"} /\ pc' = [pc EXCEPT ![m] = c]
  BY <1>1
<1>3. /\ parts[m] \in [Partition -> Part]
      /\ Tidy(parts[m], buffered[m], closedN[m], pc[m])
  BY BooksOf
<1>4. buffered' = [buffered EXCEPT ![m] = buffered[m]]
  BY <1>1 DEF BufferInv
<1>5. /\ buffered[m] = TotalBytes(parts[m]) /\ closedN[m] = ClosedCount(parts[m])
      /\ \A p \in Partition : PartDone(parts[m][p])
      /\ buffered[m] < MaxBufferedBytes \/ \E r \in Record : buffered[m] < MaxBufferedBytes + r.size
  BY <1>3 DEF Tidy
<1>6. c \notin {"poll", "add", "flush", "down"}
  BY <1>2
<1> QED
  BY <1>1, <1>2, <1>3, <1>4, <1>5, <1>6, CutBooks

LEMMA WriteTableBooks ==
  ASSUME IInv, BufferInv, NEW m \in Member, NEW p \in Partition, NEW i, WriteTable(m, p, i)
  PROVE  BufferInv'
<1> DEFINE ps  == parts[m][p]
           new == [ps EXCEPT !.closed[i] = Advance(@)]
           f   == [parts[m] EXCEPT ![p] = new]
<1>1. /\ i \in 1..Len(ps.closed) /\ ps.closed[i].tab < Len(Tables)
      /\ parts' = [parts EXCEPT ![m][p].closed[i] = Advance(@)]
      /\ UNCHANGED <<pc, buffered, closedN>>
  BY DEF WriteTable, Writing
<1>2. /\ parts[m] \in [Partition -> Part] /\ buffered[m] \in Int /\ closedN[m] \in Int
      /\ Tidy(parts[m], buffered[m], closedN[m], pc[m])
  BY BooksOf
<1>3. IInv'
  BY WriteTableStep
<1>4. parts' = [parts EXCEPT ![m] = f] /\ parts'[m] = f /\ f[p] = new
  BY <1>1, <1>2 DEF IInv, TypeOK
<1>5. f \in [Partition -> Part] /\ new \in Part /\ \A q \in Partition \ {p} : f[q] = parts[m][q]
  <2>1. parts'[m] \in [Partition -> Part]
    BY <1>3 DEF IInv, TypeOK
  <2> QED
    BY <1>2, <1>4, <2>1
<1>6. ps \in Part /\ PartDone(ps)
  BY <1>2 DEF Tidy
<1>7. PICK nw : nw = new
  OBVIOUS
<1>8. /\ ChunkBytes(nw) = ChunkBytes(ps) /\ Len(nw.closed) = Len(ps.closed) /\ nw.open = ps.open
      /\ PartDone(nw)
  <2>1. nw = [ps EXCEPT !.closed[i] = Advance(@)] /\ nw \in Part
    BY <1>5, <1>7
  <2> HIDE DEF ps
  <2> QED
    BY <1>1, <1>6, <2>1, AdvanceBooks
<1>9. f[p] = nw
  BY <1>4, <1>7
<1> HIDE DEF new, f
<1>10. \A q \in Partition : /\ ChunkBytes(f[q]) = ChunkBytes(parts[m][q]) /\ Len(f[q].closed) = Len(parts[m][q].closed)
                            /\ f[q].open = parts[m][q].open /\ PartDone(f[q])
  <2> TAKE q \in Partition
  <2>1. CASE q = p
    BY <1>8, <1>9, <2>1
  <2>2. CASE q # p
    BY <1>2, <1>5, <2>2 DEF Tidy
  <2> QED
    BY <2>1, <2>2
<1>11. TotalBytes(f) = TotalBytes(parts[m]) /\ ClosedCount(f) = ClosedCount(parts[m])
  BY <1>2, <1>5, <1>10, TotalsSame
<1>12. OpenParts(f) = OpenParts(parts[m])
  BY <1>10 DEF OpenParts
<1>13. Tidy(f, buffered[m], closedN[m], pc[m])
  BY <1>2, <1>10, <1>11, <1>12 DEF Tidy
<1>14. /\ buffered' = [buffered EXCEPT ![m] = buffered[m]] /\ closedN' = [closedN EXCEPT ![m] = closedN[m]]
       /\ pc' = [pc EXCEPT ![m] = pc[m]]
  BY <1>1 DEF BufferInv, IInv, TypeOK
<1> QED
  BY <1>2, <1>4, <1>5, <1>13, <1>14, MemberBooks

(* flushClosed takes off the counters what it releases. *)
LEMMA FlushBooks ==
  ASSUME IInv, BufferInv, NEW m \in Member, NEW n \in [Partition -> 0..MaxLog], FlushStep(m, n)
  PROVE  /\ Trimmed(m, n) \in [Partition -> Part]
         /\ buffered' = [buffered EXCEPT ![m] = TotalBytes(Trimmed(m, n))]
         /\ Left(m, n) = ClosedCount(Trimmed(m, n))
         /\ TotalBytes(Trimmed(m, n)) \in Nat /\ TotalBytes(Trimmed(m, n)) <= buffered[m]
         /\ \A p \in Partition : PartDone(Trimmed(m, n)[p])
         /\ AllWritten(m) /\ OpenParts(parts[m]) = {} => TotalBytes(Trimmed(m, n)) = 0
<1> DEFINE f == parts[m]
           g == Trimmed(m, n)
           x == SumFunction([p \in Partition |-> ChunkBytes(f[p]) - ChunkBytes(trim(f[p], n[p]))])
<1>1. /\ \A p \in Partition : n[p] \in 0..Len(f[p].closed) /\ StoredPrefix(f[p].closed, n[p])
      /\ buffered' = [buffered EXCEPT ![m] = buffered[m] - x]
  BY DEF FlushStep, BufferInv
<1>2. /\ f \in [Partition -> Part] /\ buffered[m] \in Int /\ closedN[m] \in Int
      /\ Tidy(f, buffered[m], closedN[m], pc[m])
  BY BooksOf
<1>3. n \in [Partition -> Nat]
  BY GroupAssumption
<1>4. g = [p \in Partition |-> trim(f[p], n[p])]
  BY DEF Trimmed
<1> HIDE DEF f, g
<1>5. /\ g \in [Partition -> Part] /\ TotalBytes(g) = TotalBytes(f) - x
      /\ ClosedCount(g) = ClosedCount(f) - SumFunction(n) /\ TotalBytes(g) <= TotalBytes(f)
  BY <1>1, <1>2, <1>3, <1>4, TotalsTrim
<1> HIDE DEF x
<1>6. buffered[m] = TotalBytes(f) /\ closedN[m] = ClosedCount(f) /\ \A p \in Partition : PartDone(f[p])
  BY <1>2 DEF Tidy
<1>7. TotalBytes(g) \in Nat
  BY <1>5, TotalsAre
<1>8. \A p \in Partition : g[p] = trim(f[p], n[p]) /\ PartDone(g[p])
  BY <1>1, <1>2, <1>4, <1>6, DoneTrim
<1>9. ASSUME AllWritten(m), OpenParts(f) = {} PROVE TotalBytes(g) = 0
  <2>1. ASSUME NEW p \in Partition PROVE ChunkBytes(g[p]) = 0
    <3>1. f[p] \in Part /\ n[p] \in 0..Len(f[p].closed) /\ StoredPrefix(f[p].closed, n[p])
      BY <1>1, <1>2
    <3>2. Len(f[p].closed) \in Nat
      BY <3>1, BytesIs
    <3>3. \A i \in 1..Len(f[p].closed) : f[p].closed[i].status = "stored"
      BY <1>6, <1>9 DEF AllWritten, PartDone, f
    <3>4. n[p] = Len(f[p].closed)
      <4> SUFFICES ASSUME n[p] < Len(f[p].closed) PROVE FALSE
        BY <3>1, <3>2
      <4>1. n[p] + 1 \in 1..Len(f[p].closed)
        BY <3>1, <3>2
      <4> QED
        BY <3>1, <3>3, <4>1 DEF StoredPrefix
    <3>5. ChunkBytes(trim(f[p], n[p])) = f[p].open.bytes
      BY <3>1, <3>4, BytesTrim
    <3>6. f[p].open = NoChunk
      BY <1>9 DEF OpenParts
    <3> QED
      BY <1>8, <3>5, <3>6 DEF NoChunk
  <2> QED
    BY <1>5, <2>1, TotalsZero
<1>10. Left(m, n) = ClosedCount(g)
  BY <1>5, <1>6 DEF Left
<1>11. buffered' = [buffered EXCEPT ![m] = TotalBytes(g)]
  BY <1>1, <1>5, <1>6
<1>12. TotalBytes(g) <= buffered[m]
  BY <1>5, <1>6
<1> QED
  BY <1>5, <1>7, <1>8, <1>9, <1>10, <1>11, <1>12 DEF f, g

(* When closeAll leaves nothing closed, nothing is held. *)
LEMMA NothingClosed ==
  ASSUME NEW f \in [Partition -> Part], ClosedCount(f) + Cardinality(OpenParts(f)) = 0,
         \A p \in Partition : PartDone(f[p])
  PROVE  TotalBytes(f) = 0
<1> DEFINE g == closeParts(f, OpenParts(f))
<1>1. OpenParts(f) \in SUBSET Partition
  BY DEF OpenParts
<1>2. g \in [Partition -> Part] /\ TotalBytes(g) = TotalBytes(f) /\ ClosedCount(g) = 0 /\ OpenParts(g) = {}
  BY <1>1, CloseBooks
<1> HIDE DEF g
<1>3. ASSUME NEW p \in Partition PROVE ChunkBytes(g[p]) = 0
  <2>1. Len(g[p].closed) = 0
    <3>1. Len(g[p].closed) \in Nat /\ Len(g[p].closed) <= ClosedCount(g)
      BY <1>2, TotalsAre
    <3> QED
      BY <1>2, <3>1
  <2>2. g[p].open = NoChunk /\ NoChunk.bytes = 0
    BY <1>2 DEF OpenParts, NoChunk
  <2>3. 1..0 = {}
    OBVIOUS
  <2>4. ChunkBytes(g[p]) = 0 + SumFunctionOnSet([i \in DOMAIN g[p].closed |-> g[p].closed[i].bytes], {})
    BY <1>2, <2>1, <2>2, <2>3, BytesIs
  <2> QED
    BY <2>4, SumEmpty
<1> QED
  BY <1>2, <1>3, TotalsZero

LEMMA FlushEndBooks ==
  ASSUME IInv, BufferInv, NEW m \in Member, FlushEnd(m)
  PROVE  BufferInv'
<1> DEFINE T(n) == TotalBytes(Trimmed(m, n))
           Low == {"poll", "add", "flush", "down"}
<1>0. /\ Tidy(parts[m], buffered[m], closedN[m], pc[m]) /\ buffered[m] \in Int
      /\ MaxBufferedBytes \in Nat /\ MaxBufferedBytes > 0 /\ \A r \in Record : r.size \in Nat
      /\ pc \in [Member -> {"poll", "add", "relieve", "memory", "flush", "final", "exit", "down"}]
  BY BooksOf DEF IInv, TypeOK
<1>1. PICK n, c :
        /\ n \in [Partition -> 0..MaxLog]
        /\ FlushStep(m, n)
        /\ pc' = [pc EXCEPT ![m] = c]
        /\ \/ CloseAll(m, Trimmed(m, n), Left(m, n)) /\ (c \in Low => T(n) < MaxBufferedBytes)
           \/ KeepOpen(m, Trimmed(m, n), Left(m, n)) /\ c # "memory" /\ (c \in Low => T(n) < MaxBufferedBytes)
  <2>1. CASE FlushDone(m)
    <3>1. PICK n \in [Partition -> 0..MaxLog] : FlushStep(m, n) /\ KeepOpen(m, Trimmed(m, n), Left(m, n))
      BY <2>1 DEF FlushDone
    <3>2. AllWritten(m) /\ pc[m] \in {"memory", "flush", "final"}
          /\ pc' = [pc EXCEPT ![m] = CASE pc[m] = "memory" -> "add" [] pc[m] = "flush" -> "poll"
                                       [] pc[m] = "final" -> "exit"]
      BY <1>0, <2>1 DEF FlushDone
    <3>3. PICK c : /\ pc' = [pc EXCEPT ![m] = c] /\ c \in {"add", "poll", "exit"}
                   /\ c = "add" => pc[m] = "memory"
                   /\ c = "poll" => pc[m] = "flush"
      <4>1. CASE pc[m] = "memory"
        <5>1. pc' = [pc EXCEPT ![m] = "add"]
          BY <3>2, <4>1
        <5>2. PICK x : x = "add"
          OBVIOUS
        <5>3. /\ pc' = [pc EXCEPT ![m] = x] /\ x \in {"add", "poll", "exit"}
              /\ x = "add" => pc[m] = "memory"
              /\ x = "poll" => pc[m] = "flush"
          BY <4>1, <5>1, <5>2
        <5> QED
          BY <5>3
      <4>2. CASE pc[m] = "flush"
        <5>1. pc' = [pc EXCEPT ![m] = "poll"]
          BY <3>2, <4>2
        <5>2. PICK x : x = "poll"
          OBVIOUS
        <5>3. /\ pc' = [pc EXCEPT ![m] = x] /\ x \in {"add", "poll", "exit"}
              /\ x = "add" => pc[m] = "memory"
              /\ x = "poll" => pc[m] = "flush"
          BY <4>2, <5>1, <5>2
        <5> QED
          BY <5>3
      <4>3. CASE pc[m] = "final"
        <5>1. pc' = [pc EXCEPT ![m] = "exit"]
          BY <3>2, <4>3
        <5>2. PICK x : x = "exit"
          OBVIOUS
        <5>3. /\ pc' = [pc EXCEPT ![m] = x] /\ x \in {"add", "poll", "exit"}
              /\ x = "add" => pc[m] = "memory"
              /\ x = "poll" => pc[m] = "flush"
          BY <4>3, <5>1, <5>2
        <5> QED
          BY <5>3
      <4> QED
        BY <3>2, <4>1, <4>2, <4>3
    <3>4. T(n) \in Nat /\ T(n) <= buffered[m] /\ (OpenParts(parts[m]) = {} => T(n) = 0)
      BY <3>1, <3>2, FlushBooks
    <3> HIDE DEF T
    <3>5. pc[m] = "memory" => T(n) = 0
      BY <1>0, <3>4 DEF Tidy
    <3>6. pc[m] = "flush" => T(n) < MaxBufferedBytes
      BY <1>0, <3>4 DEF Tidy
    <3>7. c # "memory" /\ (c \in Low => T(n) < MaxBufferedBytes)
      BY <1>0, <3>3, <3>5, <3>6
    <3> QED
      BY <3>1, <3>3, <3>7 DEF T
  <2>2. CASE RelieveDone(m)
    <3>1. PICK n \in [Partition -> 0..MaxLog] :
            /\ FlushStep(m, n)
            /\ IF buffered'[m] >= MaxBufferedBytes
               THEN /\ CloseAll(m, Trimmed(m, n), Left(m, n))
                    /\ pc' = [pc EXCEPT ![m] = IF closedN'[m] = 0 THEN "add" ELSE "memory"]
               ELSE /\ KeepOpen(m, Trimmed(m, n), Left(m, n))
                    /\ pc' = [pc EXCEPT ![m] = "add"]
      BY <2>2 DEF RelieveDone
    <3>2. /\ Trimmed(m, n) \in [Partition -> Part] /\ buffered' = [buffered EXCEPT ![m] = T(n)] /\ T(n) \in Nat
          /\ Left(m, n) = ClosedCount(Trimmed(m, n)) /\ \A p \in Partition : PartDone(Trimmed(m, n)[p])
      BY <3>1, FlushBooks
    <3>3. buffered'[m] = T(n) /\ closedN \in [Member -> Int]
      BY <3>2 DEF BufferInv
    <3>4. CASE buffered'[m] >= MaxBufferedBytes
      <4>1. CloseAll(m, Trimmed(m, n), Left(m, n))
            /\ pc' = [pc EXCEPT ![m] = IF closedN'[m] = 0 THEN "add" ELSE "memory"]
        BY <3>1, <3>4
      <4>2. closedN'[m] = ClosedCount(Trimmed(m, n)) + Cardinality(OpenParts(Trimmed(m, n)))
        BY <3>2, <3>3, <4>1 DEF CloseAll
      <4>3. closedN'[m] # 0
        <5> SUFFICES ASSUME closedN'[m] = 0 PROVE FALSE
          OBVIOUS
        <5>1. TotalBytes(Trimmed(m, n)) = 0
          BY <3>2, <4>2, NothingClosed
        <5> QED
          BY <1>0, <3>3, <3>4, <5>1
      <4>4. PICK c : c = "memory"
        OBVIOUS
      <4>5. pc' = [pc EXCEPT ![m] = c] /\ c \notin Low
        BY <4>1, <4>3, <4>4
      <4> QED
        BY <3>1, <4>1, <4>5
    <3>5. CASE ~(buffered'[m] >= MaxBufferedBytes)
      <4>1. T(n) < MaxBufferedBytes
        BY <1>0, <3>2, <3>3, <3>5
      <4>2. PICK c : c = "add"
        OBVIOUS
      <4>3. pc' = [pc EXCEPT ![m] = c] /\ c # "memory" /\ KeepOpen(m, Trimmed(m, n), Left(m, n))
        BY <3>1, <3>5, <4>2
      <4> QED
        BY <3>1, <4>1, <4>3
    <3> QED
      BY <3>4, <3>5
  <2>3. CASE FlushCancelled(m)
    <3>1. PICK n \in [Partition -> 0..MaxLog] :
            /\ FlushStep(m, n) /\ CloseAll(m, Trimmed(m, n), Left(m, n))
            /\ pc' = [pc EXCEPT ![m] = IF closedN'[m] = 0 THEN "exit" ELSE "final"]
      BY <2>3 DEF FlushCancelled, Shutdown
    <3>2. PICK c : pc' = [pc EXCEPT ![m] = c] /\ c \in {"exit", "final"}
      BY <3>1
    <3>3. c \notin Low
      BY <3>2
    <3> QED
      BY <3>1, <3>2, <3>3
  <2>4. CASE FinalTimeout(m)
    <3>1. PICK n \in [Partition -> 0..MaxLog] : FlushStep(m, n) /\ KeepOpen(m, Trimmed(m, n), Left(m, n))
      BY <2>4 DEF FinalTimeout
    <3>2. PICK c : pc' = [pc EXCEPT ![m] = c] /\ c = "exit"
      BY <2>4 DEF FinalTimeout
    <3>3. c \notin Low /\ c # "memory"
      BY <3>2
    <3> QED
      BY <3>1, <3>2, <3>3
  <2> QED
    BY <2>1, <2>2, <2>3, <2>4 DEF FlushEnd
<1>2. /\ Trimmed(m, n) \in [Partition -> Part] /\ buffered' = [buffered EXCEPT ![m] = T(n)]
      /\ Left(m, n) = ClosedCount(Trimmed(m, n)) /\ T(n) \in Nat /\ T(n) <= buffered[m]
      /\ \A p \in Partition : PartDone(Trimmed(m, n)[p])
  BY <1>1, FlushBooks
<1>3. T(n) < MaxBufferedBytes \/ \E r \in Record : T(n) < MaxBufferedBytes + r.size
  <2> HIDE DEF T
  <2>1. CASE buffered[m] < MaxBufferedBytes
    BY <1>0, <1>2, <2>1
  <2>2. ASSUME NEW r \in Record, buffered[m] < MaxBufferedBytes + r.size
        PROVE  T(n) < MaxBufferedBytes + r.size
    BY <1>0, <1>2, <2>2
  <2> QED
    BY <1>0, <2>1, <2>2 DEF Tidy
<1> QED
  BY <1>1, <1>2, <1>3, CutBooks

LEMMA NextBooks ==
  ASSUME IInv, BufferInv, [Next]_vars
  PROVE  BufferInv'
<1>1. CASE UNCHANGED vars
  BY <1>1, SameBooks DEF vars, localVars
<1>2. CASE \E p \in Partition : ProduceRecord(p)
  BY <1>2, SameBooks DEF ProduceRecord, localVars
<1>3. CASE \E b \in inflight : ApplyLate(b)
  BY <1>3, SameBooks DEF ApplyLate, localVars
<1>4. ASSUME NEW m \in Member,
             \/ \E p \in Partition : AssignPartition(m, p) \/ RevokePartition(m, p)
             \/ ExpelMember(m) \/ NoticeLoss(m)
      PROVE  BufferInv'
  <2>1. UNCHANGED localVars
    BY <1>4 DEF AssignPartition, RevokePartition, ExpelMember, NoticeLoss
  <2> QED
    BY <2>1, SameBooks DEF localVars
<1>5. ASSUME NEW m \in Member, Start(m) \/ Cancel(m) PROVE BufferInv'
  <2>1. UNCHANGED <<parts, buffered, closedN>>
    BY <1>5 DEF Start, Cancel
  <2>2. \A i \in Member : pc'[i] = pc[i] \/ (pc[i] = "down" /\ pc'[i] = "poll")
    BY <1>5 DEF Start, Cancel, IInv, TypeOK
  <2> QED
    BY <2>1, <2>2, SameBooks
<1>6. ASSUME NEW m \in Member, Crash(m) \/ Exit(m) PROVE BufferInv'
  BY <1>6, FreshBooks DEF Crash, Exit
<1>7. ASSUME NEW m \in Member, NEW p \in Partition, NEW i \in 1..MaxLog,
             WriteTable(m, p, i) \/ WriteFails(m, p, i)
      PROVE  BufferInv'
  <2>1. CASE WriteTable(m, p, i)
    BY <2>1, WriteTableBooks
  <2>2. CASE WriteFails(m, p, i)
    BY <2>2, SameBooks DEF WriteFails, localVars
  <2> QED
    BY <1>7, <2>1, <2>2
<1>8. ASSUME NEW m \in Member, NEW p \in Partition, AddRecord(m, p) PROVE BufferInv'
  BY <1>8, AddRecordBooks
<1>9. ASSUME NEW m \in Member, PollRecords(m) \/ EndBatch(m) \/ EndBatchCancelled(m) \/ FlushEnd(m)
      PROVE  BufferInv'
  BY <1>9, PollBooks, EndBatchBooks, EndBatchCancelledBooks, FlushEndBooks
<1>10. CASE Next
  BY <1>2, <1>3, <1>4, <1>5, <1>6, <1>7, <1>8, <1>9, <1>10 DEF Next, Step, FlushEnd
<1> QED
  BY <1>1, <1>10

LEMMA BooksInv == Spec => []BufferInv
<1>1. Init => IInv /\ BufferInv
  BY InitInv, InitBooks
<1>2. IInv /\ [Next]_vars => IInv'
  BY NextStep, Unchanged
<1>3. IInv /\ BufferInv /\ [Next]_vars => BufferInv'
  BY NextBooks
<1> QED
  BY <1>1, <1>2, <1>3, PTL DEF Spec

(***************************************************************************)
(* buffered and closedN, which add, applyRevocations, closeAll and         *)
(* flushClosed change each by a difference, always equal what the          *)
(* partitions of the processor hold, for every log, limit and schedule of  *)
(* faults: the early return of flushClosed and the test of relieve never   *)
(* decide on a wrong number.                                               *)
(***************************************************************************)
THEOREM BooksExact == Spec => []AccountingExact
<1>1. BufferInv => AccountingExact
  BY DEF BufferInv, Tidy, AccountingExact
<1> QED
  BY <1>1, BooksInv, PTL

(***************************************************************************)
(* The memory of a processor is bounded for every record size and limit:   *)
(* relieve empties it before Run takes another record, so it exceeds       *)
(* MaxBufferedBytes by less than one record.                               *)
(***************************************************************************)
THEOREM MemoryBounded == Spec => []BufferBounded
<1>1. BufferInv => BufferBounded
  BY DEF BufferInv, Tidy, BufferBounded
<1> QED
  BY <1>1, BooksInv, PTL
=============================================================================
