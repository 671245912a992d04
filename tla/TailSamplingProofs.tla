------------------------- MODULE TailSamplingProofs -------------------------
(***************************************************************************)
(* Theorems about TailSampling.                                            *)
(***************************************************************************)
EXTENDS TailSampling, FiniteSetTheorems, WellFoundedInduction, TLAPS

-----------------------------------------------------------------------------
(* Numbers, sequences and counts. *)

(* A set of numbers with 0 and the successors of its members has all of them. *)
LEMMA SetInduction ==
  ASSUME NEW S, 0 \in S, \A n \in Nat : n \in S => n + 1 \in S
  PROVE  Nat \subseteq S
<1> SUFFICES ASSUME Nat \ S # {} PROVE FALSE
  OBVIOUS
<1>1. PICK x \in Nat \ S : \A y \in Nat \ S : ~(<<y, x>> \in OpToRel(<, Nat))
  <2>1. Nat \ S \subseteq Nat
    OBVIOUS
  <2> HIDE DEF OpToRel
  <2>2. QED
    BY <2>1, WFMin, NatLessThanWellFounded, Zenon
<1>2. x # 0 /\ x - 1 \in Nat
  OBVIOUS
<1>3. <<x - 1, x>> \in OpToRel(<, Nat)
  BY <1>2 DEF OpToRel
<1>4. x - 1 \in S
  BY <1>1, <1>2, <1>3
<1>5. (x - 1) + 1 \in S
  BY <1>2, <1>4
<1>6. QED
  BY <1>5

(* A set of numbers has a least member. *)
LEMMA LeastMember ==
  ASSUME NEW S, S \subseteq Nat, S # {}
  PROVE  \E x \in S : \A y \in S : x <= y
<1>1. PICK x \in S : \A y \in S : ~(<<y, x>> \in OpToRel(<, Nat))
  <2> HIDE DEF OpToRel
  <2>1. QED
    BY WFMin, NatLessThanWellFounded, Zenon
<1>2. \A y \in S : ~(y < x)
  BY <1>1 DEF OpToRel
<1>3. QED
  BY <1>2

LEMMA CountFinite ==
  ASSUME NEW T, NEW s \in Seq(T), NEW r
  PROVE  /\ IsFiniteSet({i \in DOMAIN s : r \in s[i].refs})
         /\ Count(s, r) \in Nat
         /\ Count(s, r) = 0 <=> \A i \in DOMAIN s : r \notin s[i].refs
<1> DEFINE R == {i \in DOMAIN s : r \in s[i].refs}
<1>1. R \in SUBSET (1..Len(s)) /\ Len(s) \in Nat
  OBVIOUS
<1>2. IsFiniteSet(1..Len(s))
  BY <1>1, FS_Interval
<1>3. IsFiniteSet(R)
  BY <1>1, <1>2, FS_Subset
<1>4. Cardinality(R) \in Nat /\ (Cardinality(R) = 0 <=> R = {})
  BY <1>3, FS_CardinalityType, FS_EmptySet
<1>5. Count(s, r) = Cardinality(R)
  BY DEF Count
<1> HIDE DEF R
<1>6. Count(s, r) = 0 <=> R = {}
  BY <1>4, <1>5
<1>7. QED
  BY <1>3, <1>4, <1>5, <1>6 DEF R

(* One more trace or output. *)
LEMMA CountAppend ==
  ASSUME NEW T, NEW s \in Seq(T), NEW x \in T, NEW r
  PROVE  Count(Append(s, x), r) = Count(s, r) + (IF r \in x.refs THEN 1 ELSE 0)
<1> DEFINE R == {i \in DOMAIN s : r \in s[i].refs}
           Q == {i \in DOMAIN Append(s, x) : r \in Append(s, x)[i].refs}
<1>1. Q = IF r \in x.refs THEN R \cup {Len(s) + 1} ELSE R
  OBVIOUS
<1>a. Len(s) + 1 \notin R
  OBVIOUS
<1>b. IsFiniteSet(R)
  BY CountFinite
<1>2. IsFiniteSet(R) /\ Cardinality(R) \in Nat /\ Len(s) + 1 \notin R
  BY <1>a, <1>b, FS_CardinalityType
<1>3. Count(Append(s, x), r) = Cardinality(Q) /\ Count(s, r) = Cardinality(R)
  BY DEF Count
<1> HIDE DEF R, Q
<1>4. CASE r \in x.refs
  BY <1>1, <1>2, <1>3, <1>4, FS_AddElement
<1>5. CASE r \notin x.refs
  BY <1>1, <1>2, <1>3, <1>5
<1>6. QED
  BY <1>4, <1>5

(* A trace gets a reference to r that it did not have. *)
LEMMA CountMore ==
  ASSUME NEW T, NEW s \in Seq(T), NEW q \in Seq(T), DOMAIN q = DOMAIN s, NEW r, NEW k \in DOMAIN s,
         r \notin s[k].refs, r \in q[k].refs,
         \A i \in DOMAIN s : i # k => (r \in q[i].refs <=> r \in s[i].refs)
  PROVE  Count(q, r) = Count(s, r) + 1
<1> DEFINE R == {i \in DOMAIN s : r \in s[i].refs}
           Q == {i \in DOMAIN q : r \in q[i].refs}
<1>1. Q = R \cup {k} /\ k \notin R
  OBVIOUS
<1>2. IsFiniteSet(R) /\ Cardinality(R) \in Nat
  BY CountFinite, FS_CardinalityType
<1>3. Count(q, r) = Cardinality(Q) /\ Count(s, r) = Cardinality(R)
  BY DEF Count
<1> HIDE DEF R, Q
<1>4. QED
  BY <1>1, <1>2, <1>3, FS_AddElement

(* The same references. *)
LEMMA CountSame ==
  ASSUME NEW s, NEW q, DOMAIN q = DOMAIN s, NEW r,
         \A i \in DOMAIN s : r \in q[i].refs <=> r \in s[i].refs
  PROVE  Count(q, r) = Count(s, r)
<1>1. {i \in DOMAIN s : r \in s[i].refs} = {i \in DOMAIN q : r \in q[i].refs}
  OBVIOUS
<1>2. QED
  BY <1>1 DEF Count

LEMMA IndexFacts ==
  ASSUME NEW T, NEW s \in Seq(T), NEW id \in Ids(s)
  PROVE  Index(s, id) \in DOMAIN s /\ s[Index(s, id)].id = id
BY DEF Index, Ids

LEMMA IndexUnique ==
  ASSUME NEW T, NEW s \in Seq(T), \A i, j \in DOMAIN s : s[i].id = s[j].id => i = j, NEW k \in DOMAIN s
  PROVE  s[k].id \in Ids(s) /\ Index(s, s[k].id) = k
BY DEF Index, Ids

(* Without leaves the other elements in their order. *)
LEMMA WithoutFacts ==
  ASSUME NEW T, NEW s \in Seq(T), NEW id \in Ids(s)
  PROVE  LET k == Index(s, id)
             w == Without(s, id)
         IN  /\ w \in Seq(T) /\ Len(w) = Len(s) - 1 /\ DOMAIN w = 1..(Len(s) - 1)
             /\ \A i \in 1..(Len(s) - 1) : w[i] = s[IF i < k THEN i ELSE i + 1]
<1> DEFINE k == Index(s, id)
<1>1. k \in 1..Len(s) /\ Len(s) \in Nat
  BY IndexFacts
<1>2. SubSeq(s, 1, k - 1) \in Seq(T) /\ Len(SubSeq(s, 1, k - 1)) = k - 1
      /\ \A i \in 1..(k - 1) : SubSeq(s, 1, k - 1)[i] = s[i]
  BY <1>1
<1>3. SubSeq(s, k + 1, Len(s)) \in Seq(T) /\ Len(SubSeq(s, k + 1, Len(s))) = Len(s) - k
      /\ \A i \in 1..(Len(s) - k) : SubSeq(s, k + 1, Len(s))[i] = s[i + k]
  BY <1>1
<1>4. Without(s, id) = SubSeq(s, 1, k - 1) \o SubSeq(s, k + 1, Len(s))
  BY DEF Without
<1> HIDE DEF k
<1> DEFINE a == SubSeq(s, 1, k - 1)
           b == SubSeq(s, k + 1, Len(s))
<1>c. a \in Seq(T) /\ b \in Seq(T) /\ Len(a) = k - 1 /\ Len(b) = Len(s) - k /\ Without(s, id) = a \o b
      /\ (\A i \in 1..(k - 1) : a[i] = s[i]) /\ (\A i \in 1..(Len(s) - k) : b[i] = s[i + k])
  BY <1>2, <1>3, <1>4
<1> HIDE DEF a, b
<1>5. Without(s, id) \in Seq(T) /\ Len(Without(s, id)) = Len(s) - 1
  <2>1. a \o b \in Seq(T) /\ Len(a \o b) = Len(a) + Len(b)
    BY <1>c
  <2>2. QED
    BY <1>1, <1>c, <2>1
<1>6. ASSUME NEW i \in 1..(Len(s) - 1)
      PROVE  Without(s, id)[i] = s[IF i < k THEN i ELSE i + 1]
  <2>1. CASE i < k
    BY <1>1, <1>c, <2>1
  <2>2. CASE i >= k
    <3>1. Without(s, id)[i] = b[i - (k - 1)]
      BY <1>1, <1>c, <2>2
    <3>2. i - (k - 1) \in 1..(Len(s) - k)
      BY <1>1, <2>2
    <3>3. b[i - (k - 1)] = s[(i - (k - 1)) + k]
      BY <1>c, <3>2
    <3>4. (i - (k - 1)) + k = i + 1
      BY <1>1
    <3>5. QED
      BY <1>1, <2>2, <3>1, <3>3, <3>4
  <2>3. QED
    BY <1>1, <2>1, <2>2
<1>7. QED
  BY <1>5, <1>6 DEF k

(* One trace less. *)
LEMMA CountWithout ==
  ASSUME NEW T, NEW s \in Seq(T), NEW id \in Ids(s), NEW r
  PROVE  Count(Without(s, id), r) = Count(s, r) - (IF r \in ById(s, id).refs THEN 1 ELSE 0)
<1> DEFINE k == Index(s, id)
           w == Without(s, id)
           R == {i \in DOMAIN s : r \in s[i].refs}
           Q == {i \in DOMAIN w : r \in w[i].refs}
           f == [i \in Q |-> IF i < k THEN i ELSE i + 1]
<1>1. k \in DOMAIN s /\ DOMAIN s = 1..Len(s) /\ Len(s) \in Nat
  BY IndexFacts
<1>2. w \in Seq(T) /\ DOMAIN w = 1..(Len(s) - 1) /\ \A i \in 1..(Len(s) - 1) : w[i] = s[IF i < k THEN i ELSE i + 1]
  BY WithoutFacts
<1>3. IsFiniteSet(R)
  BY CountFinite
<1>4. IsFiniteSet(Q)
  BY <1>2, CountFinite
<1>5. Count(w, r) = Cardinality(Q) /\ Count(s, r) = Cardinality(R) /\ ById(s, id) = s[k]
  BY DEF Count, ById
<1> HIDE DEF k, w
<1>6. f \in [Q -> R \ {k}]
  BY <1>1, <1>2
<1>7. \A i, j \in Q : f[i] = f[j] => i = j
  BY <1>1, <1>2
<1>8. \A j \in R \ {k} : \E i \in Q : f[i] = j
  <2> TAKE j \in R \ {k}
  <2>1. CASE j < k
    <3>1. j \in Q /\ f[j] = j
      BY <1>1, <1>2, <2>1
    <3>2. QED
      BY <3>1
  <2>2. CASE j > k
    <3>1. j - 1 \in 1..(Len(s) - 1) /\ ~(j - 1 < k) /\ (j - 1) + 1 = j
      BY <1>1, <2>2
    <3>2. j - 1 \in Q /\ f[j - 1] = j
      BY <1>1, <1>2, <3>1
    <3>3. QED
      BY <3>2
  <2>3. QED
    BY <1>1, <2>1, <2>2
<1>9. f \in Bijection(Q, R \ {k})
  BY <1>6, <1>7, <1>8 DEF Bijection, Injection, IsInjective, Surjection
<1>10. Cardinality(R \ {k}) = Cardinality(Q)
  <2> HIDE DEF f, R, Q
  <2>1. QED
    BY <1>4, <1>9, FS_Bijection DEF ExistsBijection
<1>11. k \in R <=> r \in s[k].refs
  BY <1>1
<1>12. Cardinality(R) \in Nat
  BY <1>3, FS_CardinalityType
<1> HIDE DEF R, Q, f
<1>13. Cardinality(R \ {k}) = IF k \in R THEN Cardinality(R) - 1 ELSE Cardinality(R)
  BY <1>3, FS_RemoveElement
<1>14. Count(w, r) = Count(s, r) - (IF r \in ById(s, id).refs THEN 1 ELSE 0)
  <2>1. CASE k \in R
    BY <1>5, <1>10, <1>11, <1>12, <1>13, <2>1
  <2>2. CASE k \notin R
    BY <1>5, <1>10, <1>11, <1>12, <1>13, <2>2
  <2>3. QED
    BY <2>1, <2>2
<1>15. QED
  BY <1>14 DEF w

-----------------------------------------------------------------------------
(***************************************************************************)
(* The inductive invariant.  The predicates on an engine e are also true   *)
(* in the middle of Add: U are the spans of the record that are still to   *)
(* be added, L the log, P and D the spans in the sampled topic and the     *)
(* dropped ones, G the records of outputs that were given up, Z the        *)
(* forgotten traces.                                                       *)
(***************************************************************************)
Key(x) == <<x[1], x[2]>>

InLog(L, x) == x \in Span /\ x[2] < Len(L[x[1]]) /\ x[3] \in DOMAIN L[x[1]][x[2] + 1]

TraceOf(L, x) == L[x[1]][x[2] + 1][x[3]]

InTraces(e, x) == \E k \in DOMAIN e.traces : x \in e.traces[k].spans

InOut(e, x) == \E k \in DOMAIN e.out : x \in e.out[k].spans

Distinct(s) == \A i, j \in DOMAIN s : s[i].id = s[j].id => i = j

HasEntry(ps, r) == \E i \in DOMAIN ps[r[1]].entries : ps[r[1]].entries[i].offset = r[2]

(* The references of a trace or an output are the records of its spans. *)
OwnRefs(t) == (\A x \in t.spans : Key(x) \in t.refs) /\ (\A r \in t.refs : \E x \in t.spans : Key(x) = r)

TracesShape(e, L) ==
    /\ Distinct(e.traces) /\ Distinct(e.cache)
    /\ \A i \in DOMAIN e.traces, j \in DOMAIN e.cache : e.traces[i].id # e.cache[j].id
    /\ \A k \in DOMAIN e.traces :
         /\ OwnRefs(e.traces[k])
         /\ \A x \in e.traces[k].spans : InLog(L, x) /\ TraceOf(L, x) = e.traces[k].id

OutShape(e, L) ==
    \A k \in DOMAIN e.out :
        /\ OwnRefs(e.out[k])
        /\ \A x \in e.out[k].spans : InLog(L, x)
        /\ e.out[k].late # <<>> => <<e.out[k].late[2], e.out[k].late[3]>> \in e.out[k].refs

Users(e, r) == Count(e.traces, r) + Count(e.out, r)

(* What is referred to has an entry, which counts at least its references. *)
Referred(e) ==
    /\ \A k \in DOMAIN e.traces : \A r \in e.traces[k].refs : HasEntry(e.parts, r)
    /\ \A k \in DOMAIN e.out : \A r \in e.out[k].refs : HasEntry(e.parts, r)

Counted(e, G) ==
    \A p \in Partition : \A i \in DOMAIN e.parts[p].entries :
        LET x == e.parts[p].entries[i]
            r == <<p, x.offset>>
        IN  x.refs >= Users(e, r) /\ (x.refs = Users(e, r) \/ r \in G)

(* A record that no output given up refers to is handled or held. *)
Settles(e, L, F, U) ==
    \A p \in Partition : \A i \in DOMAIN e.parts[p].entries :
        LET x == e.parts[p].entries[i]
            r == <<p, x.offset>>
        IN  \/ x.refs > Users(e, r)
            \/ \A s \in Span : InLog(L, s) /\ Key(s) = r =>
                 s \in F \/ s \in e.dropped \/ s \in U \/ InTraces(e, s) \/ InOut(e, s)

Ordered(e) ==
    \A p \in Partition :
        LET es == e.parts[p].entries IN
        /\ \A i, j \in DOMAIN es : i < j => es[i].offset < es[j].offset
        /\ \A i \in DOMAIN es : es[i].offset <= e.parts[p].lastSeen

(* The decision b on the trace t is remembered. *)
Cached(e, t, b) == \E c \in DOMAIN e.cache : e.cache[c].id = t /\ e.cache[c].keep = b

Decided(e, L, Z) ==
    /\ \A x \in Span : InOut(e, x) => TraceOf(L, x) \in Z \cup e.forgot \/ Cached(e, TraceOf(L, x), TRUE)
    /\ \A x \in e.dropped :
         InLog(L, x) /\ (TraceOf(L, x) \in Z \cup e.forgot \/ Cached(e, TraceOf(L, x), FALSE))

(* A span is in one place only. *)
Once(e, U, P) ==
    \A x \in Span :
        /\ InTraces(e, x) => ~InOut(e, x)
        /\ (InTraces(e, x) \/ InOut(e, x)) => (x \notin P /\ x \notin U)
        /\ x \in U => x \notin P

GivenUp(S) == {Key(x) : x \in S}

(* The engine e, with the log L, the dropped spans F and the forgotten traces Z. *)
EngineSoundAt(e, U, P, D, X, L, F, Z) ==
    /\ e \in Engine
    /\ TracesShape(e, L) /\ OutShape(e, L)
    /\ Referred(e) /\ Counted(e, GivenUp(D)) /\ Ordered(e)
    /\ Settles(e, L, P \cup F, U)
    /\ Decided(e, L, Z)
    /\ ~X => Once(e, U, P)

EngineSound(e, U, P, D, X) == EngineSoundAt(e, U, P, D, X, log, dropped, forgotten)

(* The spans of the record at o of p are in F. *)
HandledIn(L, F, p, o) == \A x \in Span : InLog(L, x) /\ Key(x) = <<p, o>> => x \in F

Listed(ps, o) == \E i \in DOMAIN ps.entries : ps.entries[i].offset = o

(***************************************************************************)
(* A member's partition p, with fetches (f) of a partition it owns (w) or  *)
(* not, the position n and the committed offset c.                         *)
(***************************************************************************)
ReadOk(ps, p, f, w, n, c, X, L, F) ==
    /\ ~f => ps = NewPart /\ n = 0
    /\ f => /\ n <= Len(L[p])
            /\ ps.lastSeen >= 0 => ps.lastSeen = n - 1
            /\ \A o \in 0..(n - 1) : HandledIn(L, F, p, o) \/ Listed(ps, o)
    /\ w => /\ ps.lastSeen < 0 => c = n
            /\ ps.lastSeen >= 0 => /\ c <= ps.committed /\ c <= n
                                   /\ ~X => c = ps.committed

ReadSound(m, p) ==
    ReadOk(eng[m].parts[p], p, owner[p] = m \/ p \in lost[m], owner[p] = m, pos[m][p], committed[p],
           excused, log, produced \cup dropped)

MembersSound ==
    \A m \in Member :
        /\ EngineSoundAt(eng[m], {}, produced, discarded, excused, log, dropped, forgotten)
        /\ eng[m].dropped = {} /\ eng[m].forgot = {}
        /\ \A p \in Partition : ReadSound(m, p)
        /\ lost[m] # {} => excused /\ \A p \in Partition : owner[p] # m

(* How far p was read by those who know of it. *)
Reach(p) == IF owner[p] = NoMember THEN committed[p] ELSE pos[owner[p]][p]

TopicSound ==
    /\ \A x \in produced \cup dropped \cup discarded : InLog(log, x)
    /\ \A p \in Partition :
         /\ committed[p] <= Len(log[p])
         /\ \A o \in 0..(committed[p] - 1) : HandledIn(log, produced \cup dropped, p, o)
    /\ dups # {} \/ discarded # {} => excused
    /\ ~excused => \A x \in produced : x[2] < Reach(x[1])

VerdictsSound ==
    /\ \A x \in produced : TraceOf(log, x) \in forgotten \/ \E m \in Member : Cached(eng[m], TraceOf(log, x), TRUE)
    /\ \A x \in dropped : TraceOf(log, x) \in forgotten \/ \E m \in Member : Cached(eng[m], TraceOf(log, x), FALSE)
    /\ \A m, k \in Member : m # k => Known(eng[m]) \cap Known(eng[k]) \subseteq forgotten

IInv == TypeOK /\ MembersSound /\ TopicSound /\ VerdictsSound

-----------------------------------------------------------------------------
(* The types of an engine. *)

TraceRec == [id : Trace, spans : SUBSET Span, refs : SUBSET (Partition \X Nat)]

CacheRec == [id : Trace, keep : BOOLEAN]

OutRec == [late : (Trace \X Partition \X Nat) \cup {<<>>}, spans : SUBSET Span, refs : SUBSET (Partition \X Nat)]

LEMMA EngineType ==
  ASSUME NEW e
  PROVE  e \in Engine <=>
           /\ e = [traces |-> e.traces, cache |-> e.cache, out |-> e.out, parts |-> e.parts,
                   dropped |-> e.dropped, forgot |-> e.forgot]
           /\ e.traces \in Seq(TraceRec) /\ e.cache \in Seq(CacheRec) /\ e.out \in Seq(OutRec)
           /\ e.parts \in [Partition -> Part] /\ e.dropped \in SUBSET Span /\ e.forgot \in SUBSET Trace
BY DEF Engine, TraceRec, CacheRec, OutRec

LEMMA SeqDef ==
  ASSUME NEW T, NEW n \in Nat, NEW f \in [1..n -> T]
  PROVE  f \in Seq(T) /\ Len(f) = n
OBVIOUS

(* The references of the records R are counted by d more. *)
ReferTo(ps, qs, R, d) ==
    /\ qs \in [Partition -> Part]
    /\ \A p \in Partition :
         /\ qs[p].lastSeen = ps[p].lastSeen /\ qs[p].committed = ps[p].committed
         /\ DOMAIN qs[p].entries = DOMAIN ps[p].entries
         /\ \A i \in DOMAIN ps[p].entries :
              /\ qs[p].entries[i].offset = ps[p].entries[i].offset
              /\ qs[p].entries[i].refs = ps[p].entries[i].refs + (IF <<p, ps[p].entries[i].offset>> \in R THEN d ELSE 0)

LEMMA ReferFacts ==
  ASSUME NEW ps \in [Partition -> Part], NEW R, NEW d \in Int
  PROVE  ReferTo(ps, Refer(ps, R, d), R, d)
<1> DEFINE es(p) == [i \in DOMAIN ps[p].entries |->
                      [offset |-> ps[p].entries[i].offset,
                       refs |-> IF <<p, ps[p].entries[i].offset>> \in R THEN ps[p].entries[i].refs + d
                                ELSE ps[p].entries[i].refs]]
<1>1. ASSUME NEW p \in Partition
      PROVE  /\ Refer(ps, R, d)[p] = [ps[p] EXCEPT !.entries = es(p)]
             /\ es(p) \in Seq(Entry) /\ DOMAIN es(p) = DOMAIN ps[p].entries
             /\ \A i \in DOMAIN ps[p].entries :
                  /\ es(p)[i].offset = ps[p].entries[i].offset
                  /\ es(p)[i].refs = ps[p].entries[i].refs + (IF <<p, ps[p].entries[i].offset>> \in R THEN d ELSE 0)
  <2>1. ps[p] \in Part /\ ps[p].entries \in Seq(Entry)
    BY DEF Part
  <2>2. Refer(ps, R, d)[p] = [ps[p] EXCEPT !.entries = es(p)]
    BY DEF Refer
  <2>3. \A i \in DOMAIN ps[p].entries : ps[p].entries[i] \in Entry
    BY <2>1
  <2>4. \A i \in DOMAIN ps[p].entries :
                  /\ es(p)[i] \in Entry
                  /\ es(p)[i].offset = ps[p].entries[i].offset
                  /\ es(p)[i].refs = ps[p].entries[i].refs + (IF <<p, ps[p].entries[i].offset>> \in R THEN d ELSE 0)
    BY <2>3 DEF Entry
  <2>5. es(p) \in Seq(Entry)
    <3> HIDE DEF Entry
    <3>1. DOMAIN ps[p].entries = 1..Len(ps[p].entries) /\ Len(ps[p].entries) \in Nat
      BY <2>1
    <3>2. es(p) \in [1..Len(ps[p].entries) -> Entry]
      BY <2>4, <3>1
    <3>3. QED
      BY <3>1, <3>2, SeqDef
  <2>6. QED
    BY <2>2, <2>4, <2>5
<1> HIDE DEF es
<1>2. ASSUME NEW p \in Partition
      PROVE  /\ Refer(ps, R, d)[p] \in Part
             /\ Refer(ps, R, d)[p].entries = es(p)
             /\ Refer(ps, R, d)[p].lastSeen = ps[p].lastSeen /\ Refer(ps, R, d)[p].committed = ps[p].committed
  <2>1. PICK s : s = es(p)
    OBVIOUS
  <2>2. ps[p] \in Part /\ s \in Seq(Entry) /\ Refer(ps, R, d)[p] = [ps[p] EXCEPT !.entries = s]
    BY <1>1, <2>1
  <2>3. QED
    BY <2>1, <2>2, SMTT(30) DEF Part
<1>3. Refer(ps, R, d) \in [Partition -> Part]
  <2>1. Refer(ps, R, d) = [p \in Partition |-> Refer(ps, R, d)[p]]
    BY DEF Refer
  <2>2. QED
    BY <1>2, <2>1
<1>4. QED
  BY <1>1, <1>2, <1>3 DEF ReferTo

-----------------------------------------------------------------------------
(* The decision cache. *)

(* The cache of q has the decisions of e and of N, except for what was forgotten. *)
CacheMoves(e, q, N) ==
    /\ q.cache \in Seq(CacheRec) /\ q.forgot \in SUBSET Trace /\ e.forgot \subseteq q.forgot
    /\ Distinct(q.cache)
    /\ \A c \in DOMAIN q.cache : q.cache[c] \in N \/ \E d \in DOMAIN e.cache : e.cache[d] = q.cache[c]
    /\ \A x \in N : x.id \in q.forgot \/ \E c \in DOMAIN q.cache : q.cache[c] = x
    /\ \A d \in DOMAIN e.cache : e.cache[d].id \in q.forgot \/ \E c \in DOMAIN q.cache : q.cache[c] = e.cache[d]

SameBut(e, q) == q.traces = e.traces /\ q.out = e.out /\ q.parts = e.parts /\ q.dropped = e.dropped

LEMMA PopFacts ==
  ASSUME NEW e \in Engine, Distinct(e.cache), NEW n \in 0..Len(e.cache)
  PROVE  /\ popCache(e, n) \in Engine
         /\ SameBut(e, popCache(e, n))
         /\ CacheMoves(e, popCache(e, n), {})
<1> DEFINE q == popCache(e, n)
           c == SubSeq(e.cache, n + 1, Len(e.cache))
           d == SubSeq(e.cache, 1, n)
<1>1. e.cache \in Seq(CacheRec) /\ e.forgot \in SUBSET Trace /\ Len(e.cache) \in Nat /\ n \in Nat
  BY EngineType
<1>2. q.cache = c /\ q.forgot = e.forgot \cup Ids(d) /\ SameBut(e, q)
      /\ q = [e EXCEPT !.cache = q.cache, !.forgot = q.forgot]
  BY EngineType DEF popCache, SameBut
<1>3. c \in Seq(CacheRec) /\ Len(c) = Len(e.cache) - n /\ DOMAIN c = 1..(Len(e.cache) - n)
      /\ \A i \in 1..(Len(e.cache) - n) : c[i] = e.cache[i + n]
  BY <1>1
<1>4. d \in Seq(CacheRec) /\ Len(d) = n /\ DOMAIN d = 1..n /\ \A i \in 1..n : d[i] = e.cache[i]
  BY <1>1
<1> HIDE DEF q, c, d
<1>5. Ids(d) \in SUBSET Trace
  <2>1. \A i \in DOMAIN d : d[i] \in CacheRec
    BY <1>4
  <2>2. QED
    BY <2>1 DEF Ids, CacheRec
<1>6. q \in Engine
  <2>1. q.cache \in Seq(CacheRec) /\ q.forgot \in SUBSET Trace
    BY <1>1, <1>2, <1>3, <1>5
  <2>2. QED
    BY <1>2, <2>1, EngineType DEF SameBut
<1>7. Distinct(c)
  <2> SUFFICES ASSUME NEW i \in DOMAIN c, NEW j \in DOMAIN c, c[i].id = c[j].id PROVE i = j
    BY DEF Distinct
  <2>1. i + n \in DOMAIN e.cache /\ j + n \in DOMAIN e.cache /\ e.cache[i + n].id = e.cache[j + n].id
    BY <1>1, <1>3, SMTT(30)
  <2>2. i + n = j + n
    BY <2>1 DEF Distinct
  <2>3. QED
    BY <1>1, <1>3, <2>2
<1>8. \A i \in DOMAIN c : \E k \in DOMAIN e.cache : e.cache[k] = c[i]
  BY <1>1, <1>3
<1>9. \A k \in DOMAIN e.cache : e.cache[k].id \in Ids(d) \/ \E i \in DOMAIN c : c[i] = e.cache[k]
  <2> TAKE k \in DOMAIN e.cache
  <2>1. CASE k <= n
    BY <1>1, <1>4, <2>1 DEF Ids
  <2>2. CASE k > n
    <3>1. k - n \in 1..(Len(e.cache) - n) /\ (k - n) + n = k
      BY <1>1, <2>2
    <3>2. QED
      BY <1>3, <3>1
  <2>3. QED
    BY <1>1, <2>1, <2>2
<1>10. QED
  BY <1>1, <1>2, <1>3, <1>5, <1>6, <1>7, <1>8, <1>9 DEF CacheMoves, q

LEMMA RememberFacts ==
  ASSUME NEW e \in Engine, Distinct(e.cache), NEW id \in Trace, NEW b \in BOOLEAN,
         \A c \in DOMAIN e.cache : e.cache[c].id # id
  PROVE  /\ remember(e, id, b) \in Engine
         /\ SameBut(e, remember(e, id, b))
         /\ CacheMoves(e, remember(e, id, b), {[id |-> id, keep |-> b]})
<1> DEFINE x == [id |-> id, keep |-> b]
           g == [e EXCEPT !.cache = Append(@, x)]
           n == IF Len(g.cache) > DecisionCacheSize THEN Len(g.cache) - DecisionCacheSize ELSE 0
           q == popCache(g, n)
<1>1. e.cache \in Seq(CacheRec) /\ x \in CacheRec /\ e.forgot \in SUBSET Trace
  BY EngineType DEF CacheRec
<1>2. g.cache = Append(e.cache, x) /\ g.forgot = e.forgot /\ SameBut(e, g)
  BY EngineType DEF SameBut
<1>3. g.cache \in Seq(CacheRec) /\ Len(g.cache) \in Nat /\ DOMAIN g.cache = 1..(Len(e.cache) + 1)
      /\ g.cache[Len(e.cache) + 1] = x /\ \A i \in DOMAIN e.cache : g.cache[i] = e.cache[i]
  BY <1>1, <1>2
<1>4. g \in Engine
  <2>1. g = [e EXCEPT !.cache = Append(e.cache, x)]
    OBVIOUS
  <2>2. Append(e.cache, x) \in Seq(CacheRec)
    BY <1>1
  <2> HIDE DEF g, x
  <2>3. QED
    BY <2>1, <2>2, EngineType DEF Engine, CacheRec
<1>5. n \in 0..Len(g.cache)
  BY <1>3, SamplingAssumption
<1>6. remember(e, id, b) = q
  BY DEF remember
<1> HIDE DEF g, n, x
<1>7. Distinct(g.cache)
  <2>1. x.id = id
    BY DEF x
  <2>2. QED
    BY <1>1, <1>3, <2>1, SMTT(30) DEF Distinct
<1>8. q \in Engine /\ SameBut(g, q) /\ CacheMoves(g, q, {})
  BY <1>4, <1>5, <1>7, PopFacts
<1> HIDE DEF q
<1>9. SameBut(e, q)
  BY <1>2, <1>8 DEF SameBut
<1>10. CacheMoves(e, q, {x})
  <2>1. q.cache \in Seq(CacheRec) /\ q.forgot \in SUBSET Trace /\ e.forgot \subseteq q.forgot /\ Distinct(q.cache)
    BY <1>2, <1>8 DEF CacheMoves
  <2>2. \A c \in DOMAIN q.cache : q.cache[c] \in {x} \/ \E d \in DOMAIN e.cache : e.cache[d] = q.cache[c]
    <3> TAKE c \in DOMAIN q.cache
    <3>1. PICK d \in DOMAIN g.cache : g.cache[d] = q.cache[c]
      BY <1>8 DEF CacheMoves
    <3>2. d = Len(e.cache) + 1 \/ d \in DOMAIN e.cache
      BY <1>1, <1>3
    <3>3. QED
      BY <1>3, <3>1, <3>2
  <2>3. x.id \in q.forgot \/ \E c \in DOMAIN q.cache : q.cache[c] = x
    <3>1. Len(e.cache) + 1 \in DOMAIN g.cache
      BY <1>1, <1>3
    <3>2. QED
      BY <1>3, <1>8, <3>1 DEF CacheMoves
  <2>4. \A d \in DOMAIN e.cache : e.cache[d].id \in q.forgot \/ \E c \in DOMAIN q.cache : q.cache[c] = e.cache[d]
    <3> TAKE d \in DOMAIN e.cache
    <3>1. d \in DOMAIN g.cache /\ g.cache[d] = e.cache[d]
      BY <1>1, <1>3
    <3>2. QED
      BY <1>8, <3>1 DEF CacheMoves
  <2>5. QED
    BY <2>1, <2>2, <2>3, <2>4 DEF CacheMoves
<1>11. QED
  BY <1>6, <1>8, <1>9, <1>10 DEF x

-----------------------------------------------------------------------------
(* decide. *)

LEMMA WithoutElems ==
  ASSUME NEW T, NEW s \in Seq(T), Distinct(s), NEW id \in Ids(s)
  PROVE  LET w == Without(s, id) IN
         /\ w \in Seq(T) /\ Distinct(w)
         /\ \A i \in DOMAIN w : w[i].id # id /\ \E j \in DOMAIN s : w[i] = s[j]
         /\ \A j \in DOMAIN s : s[j].id # id => \E i \in DOMAIN w : w[i] = s[j]
<1> DEFINE k == Index(s, id)
           w == Without(s, id)
<1>1. k \in DOMAIN s /\ DOMAIN s = 1..Len(s) /\ Len(s) \in Nat /\ s[k].id = id
  BY IndexFacts
<1>2. w \in Seq(T) /\ DOMAIN w = 1..(Len(s) - 1) /\ \A i \in 1..(Len(s) - 1) : w[i] = s[IF i < k THEN i ELSE i + 1]
  BY WithoutFacts
<1> HIDE DEF k, w
<1>3. \A i \in DOMAIN w : (IF i < k THEN i ELSE i + 1) \in DOMAIN s /\ (IF i < k THEN i ELSE i + 1) # k
  BY <1>1, <1>2
<1>4. Distinct(w)
  <2> SUFFICES ASSUME NEW i \in DOMAIN w, NEW j \in DOMAIN w, w[i].id = w[j].id PROVE i = j
    BY DEF Distinct
  <2>1. (IF i < k THEN i ELSE i + 1) = (IF j < k THEN j ELSE j + 1)
    BY <1>2, <1>3 DEF Distinct
  <2>2. QED
    BY <1>1, <1>2, <2>1
<1>5. \A i \in DOMAIN w : w[i].id # id /\ \E j \in DOMAIN s : w[i] = s[j]
  BY <1>1, <1>2, <1>3 DEF Distinct
<1>6. \A j \in DOMAIN s : s[j].id # id => \E i \in DOMAIN w : w[i] = s[j]
  <2> TAKE j \in DOMAIN s
  <2> HAVE s[j].id # id
  <2>1. CASE j < k
    BY <1>1, <1>2, <2>1
  <2>2. CASE j > k
    <3>1. j - 1 \in 1..(Len(s) - 1) /\ ~(j - 1 < k) /\ (j - 1) + 1 = j
      BY <1>1, <2>2
    <3>2. QED
      BY <1>2, <3>1
  <2>3. QED
    BY <1>1, <2>1, <2>2
<1>7. QED
  BY <1>2, <1>4, <1>5, <1>6 DEF w

Decides(e, q, id, b) ==
    /\ q \in Engine
    /\ q.traces = Without(e.traces, id)
    /\ CacheMoves(e, q, {[id |-> id, keep |-> b]})
    /\ b => /\ q.out = Append(e.out, [late |-> <<>>, spans |-> ById(e.traces, id).spans,
                                      refs |-> ById(e.traces, id).refs])
            /\ q.parts = e.parts /\ q.dropped = e.dropped
    /\ ~b => /\ q.out = e.out
             /\ ReferTo(e.parts, q.parts, ById(e.traces, id).refs, -1)
             /\ q.dropped = e.dropped \cup ById(e.traces, id).spans

LEMMA DecideEffect ==
  ASSUME NEW e \in Engine, Distinct(e.traces), Distinct(e.cache), NEW id \in Ids(e.traces),
         \A i \in DOMAIN e.traces, j \in DOMAIN e.cache : e.traces[i].id # e.cache[j].id,
         NEW keep \in Verdicts
  PROVE  Decides(e, decide(e, id, keep), id, keep[id])
<1> DEFINE t == ById(e.traces, id)
           f == [e EXCEPT !.traces = Without(@, id)]
           g == remember(f, id, keep[id])
<1>1. e.traces \in Seq(TraceRec) /\ e.parts \in [Partition -> Part] /\ e.out \in Seq(OutRec)
      /\ e.dropped \in SUBSET Span
  BY EngineType
<1>2. Index(e.traces, id) \in DOMAIN e.traces /\ t = e.traces[Index(e.traces, id)] /\ t.id = id
  BY <1>1, IndexFacts DEF ById
<1>3. t \in TraceRec
  BY <1>1, <1>2
<1>4. id \in Trace /\ t.spans \in SUBSET Span /\ t.refs \in SUBSET (Partition \X Nat)
  BY <1>2, <1>3 DEF TraceRec
<1>5. keep[id] \in BOOLEAN
  BY <1>4 DEF Verdicts
<1>6. Without(e.traces, id) \in Seq(TraceRec)
  BY <1>1, WithoutFacts
<1>7. f \in Engine /\ f.traces = Without(e.traces, id) /\ f.cache = e.cache /\ f.forgot = e.forgot
      /\ f.out = e.out /\ f.parts = e.parts /\ f.dropped = e.dropped
  BY <1>6 DEF Engine, TraceRec
<1>8. \A c \in DOMAIN e.cache : e.cache[c].id # id
  BY <1>2
<1> HIDE DEF f, t
<1>9. g \in Engine /\ SameBut(f, g) /\ CacheMoves(f, g, {[id |-> id, keep |-> keep[id]]})
  BY <1>4, <1>5, <1>7, <1>8, RememberFacts
<1>10. decide(e, id, keep) =
         IF keep[id] THEN [g EXCEPT !.out = Append(@, [late |-> <<>>, spans |-> t.spans, refs |-> t.refs])]
                     ELSE [g EXCEPT !.parts = Refer(@, t.refs, -1), !.dropped = @ \cup t.spans]
  BY DEF decide, f, t
<1> HIDE DEF g
<1>11. g.out = e.out /\ g.parts = e.parts /\ g.dropped = e.dropped /\ g.traces = Without(e.traces, id)
       /\ CacheMoves(e, g, {[id |-> id, keep |-> keep[id]]})
  BY <1>7, <1>9 DEF SameBut, CacheMoves
<1>12. CASE keep[id]
  <2> DEFINE x == [late |-> <<>>, spans |-> t.spans, refs |-> t.refs]
             q == [g EXCEPT !.out = Append(@, x)]
  <2>1. x \in OutRec
    BY <1>4 DEF OutRec
  <2>2. Append(e.out, x) \in Seq(OutRec)
    BY <1>1, <2>1
  <2>3. q = [g EXCEPT !.out = Append(e.out, x)] /\ decide(e, id, keep) = q
    BY <1>10, <1>11, <1>12
  <2> HIDE DEF x, q
  <2>4. q \in Engine /\ q.out = Append(e.out, x) /\ q.traces = g.traces /\ q.parts = g.parts
        /\ q.dropped = g.dropped /\ q.cache = g.cache /\ q.forgot = g.forgot
    BY <1>9, <2>2, <2>3 DEF Engine, OutRec
  <2>5. CacheMoves(e, q, {[id |-> id, keep |-> keep[id]]})
    BY <1>11, <2>4 DEF CacheMoves
  <2>6. Decides(e, q, id, keep[id])
    BY <1>11, <1>12, <2>4, <2>5 DEF Decides, x, t
  <2>7. QED
    BY <2>3, <2>6
<1>13. CASE ~keep[id]
  <2> DEFINE ps == Refer(e.parts, t.refs, -1)
             D == e.dropped \cup t.spans
             q == [g EXCEPT !.parts = ps, !.dropped = D]
  <2>1. ReferTo(e.parts, ps, t.refs, -1)
    BY <1>1, ReferFacts
  <2>2. ps \in [Partition -> Part] /\ D \in SUBSET Span
    BY <1>1, <1>4, <2>1 DEF ReferTo
  <2>3. decide(e, id, keep) = q
    BY <1>10, <1>11, <1>13
  <2> HIDE DEF ps, D
  <2>4. q \in Engine /\ q.parts = ps /\ q.traces = g.traces /\ q.out = g.out
        /\ q.dropped = D /\ q.cache = g.cache /\ q.forgot = g.forgot
    BY <1>9, <2>2 DEF Engine
  <2> HIDE DEF q
  <2>5. CacheMoves(e, q, {[id |-> id, keep |-> keep[id]]})
    BY <1>11, <2>4 DEF CacheMoves
  <2>6. Decides(e, q, id, keep[id])
    BY <1>11, <1>13, <2>1, <2>4, <2>5 DEF Decides, D, t
  <2>7. QED
    BY <2>3, <2>6
<1>14. QED
  BY <1>12, <1>13

(* What no operation on traces and outputs changes or takes back. *)
SameEntries(e, q) ==
    \A p \in Partition :
        /\ q.parts[p].lastSeen = e.parts[p].lastSeen /\ q.parts[p].committed = e.parts[p].committed
        /\ DOMAIN q.parts[p].entries = DOMAIN e.parts[p].entries
        /\ \A i \in DOMAIN e.parts[p].entries : q.parts[p].entries[i].offset = e.parts[p].entries[i].offset

Remembers(e, q) ==
    /\ e.forgot \subseteq q.forgot
    /\ \A d \in DOMAIN e.cache : e.cache[d].id \in q.forgot \/ \E c \in DOMAIN q.cache : q.cache[c] = e.cache[d]

Keeps(e, q) == SameEntries(e, q) /\ Remembers(e, q) /\ e.dropped \subseteq q.dropped

LEMMA KeepsTransitive ==
  ASSUME NEW e, NEW q, NEW r, Keeps(e, q), Keeps(q, r)
  PROVE  Keeps(e, r)
<1>1. SameEntries(e, r)
  BY DEF Keeps, SameEntries
<1>2. Remembers(e, r)
  <2>1. \A d \in DOMAIN e.cache : e.cache[d].id \in r.forgot \/ \E c \in DOMAIN r.cache : r.cache[c] = e.cache[d]
    <3> TAKE d \in DOMAIN e.cache
    <3>1. CASE e.cache[d].id \in q.forgot
      BY <3>1 DEF Keeps, Remembers
    <3>2. CASE \E c \in DOMAIN q.cache : q.cache[c] = e.cache[d]
      BY <3>2 DEF Keeps, Remembers
    <3>3. QED
      BY <3>1, <3>2 DEF Keeps, Remembers
  <2>2. QED
    BY <2>1 DEF Keeps, Remembers
<1>3. QED
  BY <1>1, <1>2 DEF Keeps

LEMMA KeepsSame ==
  ASSUME NEW e
  PROVE  Keeps(e, e)
BY DEF Keeps, SameEntries, Remembers

LEMMA EntryOffsets ==
  ASSUME NEW e, NEW q, SameEntries(e, q), NEW r, r[1] \in Partition
  PROVE  HasEntry(q.parts, r) <=> HasEntry(e.parts, r)
BY DEF SameEntries, HasEntry

LEMMA OrderedKept ==
  ASSUME NEW e, NEW q, SameEntries(e, q), Ordered(e)
  PROVE  Ordered(q)
BY DEF SameEntries, Ordered

LEMMA CachedKept ==
  ASSUME NEW e, NEW q, Remembers(e, q), NEW t, NEW b, Cached(e, t, b)
  PROVE  t \in q.forgot \/ Cached(q, t, b)
BY DEF Remembers, Cached

LEMMA EngineParts ==
  ASSUME NEW e \in Engine
  PROVE  /\ \A k \in DOMAIN e.traces : /\ e.traces[k] \in TraceRec /\ e.traces[k].id \in Trace
                                       /\ e.traces[k].spans \subseteq Span
                                       /\ e.traces[k].refs \subseteq Partition \X Nat
         /\ \A k \in DOMAIN e.out : /\ e.out[k] \in OutRec
                                    /\ e.out[k].spans \subseteq Span
                                    /\ e.out[k].refs \subseteq Partition \X Nat
         /\ \A p \in Partition : /\ e.parts[p] \in Part /\ e.parts[p].entries \in Seq(Entry)
                                 /\ e.parts[p].lastSeen \in Int /\ e.parts[p].committed \in Int
                                 /\ \A i \in DOMAIN e.parts[p].entries :
                                      e.parts[p].entries[i].offset \in Nat /\ e.parts[p].entries[i].refs \in Int
<1>1. \A k \in DOMAIN e.traces : e.traces[k] \in TraceRec
  BY EngineType
<1>2. \A k \in DOMAIN e.out : e.out[k] \in OutRec
  BY EngineType
<1>3. \A p \in Partition : e.parts[p] \in Part
  BY EngineType
<1>4. \A p \in Partition : e.parts[p].entries \in Seq(Entry) /\ e.parts[p].lastSeen \in Int /\ e.parts[p].committed \in Int
  BY <1>3 DEF Part
<1>5. \A p \in Partition : \A i \in DOMAIN e.parts[p].entries : e.parts[p].entries[i] \in Entry
  BY <1>4
<1>6. \A p \in Partition : \A i \in DOMAIN e.parts[p].entries :
        e.parts[p].entries[i].offset \in Nat /\ e.parts[p].entries[i].refs \in Int
  BY <1>5 DEF Entry
<1>7. \A k \in DOMAIN e.traces : /\ e.traces[k].id \in Trace
                                 /\ e.traces[k].spans \subseteq Span /\ e.traces[k].refs \subseteq Partition \X Nat
  BY <1>1 DEF TraceRec
<1>8. \A k \in DOMAIN e.out : e.out[k].spans \subseteq Span /\ e.out[k].refs \subseteq Partition \X Nat
  BY <1>2 DEF OutRec
<1>9. QED
  BY <1>1, <1>2, <1>3, <1>4, <1>6, <1>7, <1>8

LEMMA DecideKeeps ==
  ASSUME NEW e \in Engine, NEW q, NEW id, NEW b \in BOOLEAN, Decides(e, q, id, b)
  PROVE  Keeps(e, q)
<1>1. SameEntries(e, q)
  <2>1. CASE b
    BY <2>1 DEF Decides, SameEntries
  <2>2. CASE ~b
    BY <2>2 DEF Decides, ReferTo, SameEntries
  <2>3. QED
    BY <2>1, <2>2
<1>2. Remembers(e, q)
  BY DEF Decides, CacheMoves, Remembers
<1>3. e.dropped \subseteq q.dropped
  BY DEF Decides
<1>4. QED
  BY <1>1, <1>2, <1>3 DEF Keeps

(* What a decision on the trace t does to the places a span can be in. *)
SpanMoves(e, q, t, b, x) ==
    /\ InTraces(q, x) <=> InTraces(e, x) /\ x \notin t.spans
    /\ InOut(q, x) <=> InOut(e, x) \/ (b /\ x \in t.spans)
    /\ x \in q.dropped <=> x \in e.dropped \/ (~b /\ x \in t.spans)

LEMMA DecideSpans ==
  ASSUME NEW e \in Engine, NEW L, TracesShape(e, L), NEW q, NEW id \in Ids(e.traces), NEW b \in BOOLEAN,
         Decides(e, q, id, b), NEW x
  PROVE  SpanMoves(e, q, ById(e.traces, id), b, x)
<1> DEFINE t == ById(e.traces, id)
           w == Without(e.traces, id)
<1>1. e.traces \in Seq(TraceRec) /\ e.out \in Seq(OutRec) /\ Distinct(e.traces)
  BY EngineType DEF TracesShape
<1>2. PICK k \in DOMAIN e.traces : t = e.traces[k] /\ t.id = id
  BY <1>1, IndexFacts DEF ById
<1>3. /\ \A i \in DOMAIN w : w[i].id # id /\ \E j \in DOMAIN e.traces : w[i] = e.traces[j]
      /\ \A j \in DOMAIN e.traces : e.traces[j].id # id => \E i \in DOMAIN w : w[i] = e.traces[j]
  BY <1>1, WithoutElems
<1> HIDE DEF t
<1>4. InTraces(q, x) <=> InTraces(e, x) /\ x \notin t.spans
  <2>1. q.traces = w
    BY DEF Decides
  <2> HIDE DEF w
  <2>2. ASSUME InTraces(q, x) PROVE InTraces(e, x) /\ x \notin t.spans
    <3>1. PICK i \in DOMAIN w : x \in w[i].spans
      BY <2>1, <2>2 DEF InTraces
    <3>2. PICK j \in DOMAIN e.traces : w[i] = e.traces[j] /\ w[i].id # id
      BY <1>3
    <3>3. x \notin t.spans
      <4>1. TraceOf(L, x) = e.traces[j].id
        BY <3>1, <3>2 DEF TracesShape
      <4>2. x \in t.spans => TraceOf(L, x) = id
        BY <1>2 DEF TracesShape
      <4>3. QED
        BY <3>2, <4>1, <4>2
    <3>4. QED
      BY <3>1, <3>2, <3>3 DEF InTraces
  <2>3. ASSUME InTraces(e, x), x \notin t.spans PROVE InTraces(q, x)
    <3>1. PICK j \in DOMAIN e.traces : x \in e.traces[j].spans
      BY <2>3 DEF InTraces
    <3>2. e.traces[j].id # id
      BY <1>1, <1>2, <2>3, <3>1 DEF Distinct
    <3>3. QED
      BY <1>3, <2>1, <3>1, <3>2 DEF InTraces
  <2>4. QED
    BY <2>2, <2>3
<1>5. InOut(q, x) <=> InOut(e, x) \/ (b /\ x \in t.spans)
  <2>1. CASE b
    <3> DEFINE y == [late |-> <<>>, spans |-> t.spans, refs |-> t.refs]
    <3>1. q.out = Append(e.out, y) /\ y.spans = t.spans
      BY <2>1 DEF Decides, t
    <3> HIDE DEF y
    <3>2. DOMAIN q.out = DOMAIN e.out \cup {Len(e.out) + 1} /\ q.out[Len(e.out) + 1] = y
          /\ \A i \in DOMAIN e.out : q.out[i] = e.out[i]
      BY <1>1, <3>1
    <3>3. QED
      BY <2>1, <3>1, <3>2 DEF InOut
  <2>2. CASE ~b
    BY <2>2 DEF Decides, InOut
  <2>3. QED
    BY <2>1, <2>2
<1>6. x \in q.dropped <=> x \in e.dropped \/ (~b /\ x \in t.spans)
  BY DEF Decides, t
<1>7. QED
  BY <1>2, <1>4, <1>5, <1>6 DEF t, SpanMoves

LEMMA DecideUsers ==
  ASSUME NEW e \in Engine, NEW q \in Engine, NEW id \in Ids(e.traces), NEW b \in BOOLEAN, Decides(e, q, id, b), NEW r
  PROVE  /\ Users(e, r) \in Nat /\ Users(q, r) \in Nat
         /\ Users(q, r) = Users(e, r) - (IF ~b /\ r \in ById(e.traces, id).refs THEN 1 ELSE 0)
<1> DEFINE t == ById(e.traces, id)
           y == [late |-> <<>>, spans |-> t.spans, refs |-> t.refs]
<1>1. e.traces \in Seq(TraceRec) /\ e.out \in Seq(OutRec) /\ q.traces \in Seq(TraceRec) /\ q.out \in Seq(OutRec)
  BY EngineType
<1>2. Count(e.traces, r) \in Nat /\ Count(e.out, r) \in Nat /\ Count(q.traces, r) \in Nat /\ Count(q.out, r) \in Nat
  BY <1>1, CountFinite
<1>3. Count(q.traces, r) = Count(e.traces, r) - (IF r \in t.refs THEN 1 ELSE 0)
  BY <1>1, CountWithout DEF Decides
<1>4. Count(q.out, r) = Count(e.out, r) + (IF b /\ r \in t.refs THEN 1 ELSE 0)
  <2>1. CASE b
    <3>1. q.out = Append(e.out, y) /\ y.refs = t.refs
      BY <2>1 DEF Decides
    <3>2. y \in OutRec
      <4>1. t \in TraceRec
        BY <1>1, IndexFacts DEF ById
      <4>2. QED
        BY <4>1 DEF TraceRec, OutRec
    <3> HIDE DEF y, t
    <3>3. QED
      BY <1>1, <2>1, <3>1, <3>2, CountAppend
  <2>2. CASE ~b
    BY <1>2, <2>2 DEF Decides
  <2>3. QED
    BY <2>1, <2>2
<1> HIDE DEF t
<1>5. QED
  BY <1>2, <1>3, <1>4 DEF Users, t

(* The counts of q differ from its users as those of e do. *)
Balanced(e, q) ==
    \A p \in Partition : \A i \in DOMAIN e.parts[p].entries :
        LET r == <<p, e.parts[p].entries[i].offset>>
        IN  q.parts[p].entries[i].refs - Users(q, r) = e.parts[p].entries[i].refs - Users(e, r)

(* No span gets lost: those of V are still to be added. *)
Carries(e, q, U, V) ==
    \A s : s \in e.dropped \/ InTraces(e, s) \/ InOut(e, s) \/ s \in U
              => s \in q.dropped \/ InTraces(q, s) \/ InOut(q, s) \/ s \in V

LEMMA UsersNat ==
  ASSUME NEW e \in Engine, NEW r
  PROVE  Users(e, r) \in Nat /\ Count(e.traces, r) \in Nat /\ Count(e.out, r) \in Nat
<1>1. e.traces \in Seq(TraceRec) /\ e.out \in Seq(OutRec)
  BY EngineType
<1>2. Count(e.traces, r) \in Nat /\ Count(e.out, r) \in Nat
  BY <1>1, CountFinite
<1>3. QED
  BY <1>2 DEF Users

LEMMA SoundStep ==
  ASSUME NEW e, NEW U, NEW P, NEW D, NEW X, EngineSound(e, U, P, D, X), NEW q \in Engine, NEW V,
         Keeps(e, q), Balanced(e, q), Carries(e, q, U, V),
         TracesShape(q, log), OutShape(q, log), Referred(q), Decided(q, log, forgotten),
         ~X => Once(q, V, P)
  PROVE  EngineSound(q, V, P, D, X)
<1>1. e \in Engine
  BY DEF EngineSound, EngineSoundAt
<1>11. ASSUME NEW p \in Partition, NEW i \in DOMAIN q.parts[p].entries
       PROVE  /\ i \in DOMAIN e.parts[p].entries
              /\ q.parts[p].entries[i].offset = e.parts[p].entries[i].offset
              /\ q.parts[p].entries[i].refs \in Int /\ e.parts[p].entries[i].refs \in Int
              /\ LET r == <<p, e.parts[p].entries[i].offset>> IN
                 /\ Users(e, r) \in Nat /\ Users(q, r) \in Nat
                 /\ q.parts[p].entries[i].refs - Users(q, r) = e.parts[p].entries[i].refs - Users(e, r)
  <2>1. i \in DOMAIN e.parts[p].entries /\ q.parts[p].entries[i].offset = e.parts[p].entries[i].offset
    BY DEF Keeps, SameEntries
  <2>2. e.parts[p].entries[i].refs \in Int /\ q.parts[p].entries[i].refs \in Int
    BY <1>1, <2>1, EngineParts
  <2>3. QED
    BY <1>1, <2>1, <2>2, UsersNat DEF Balanced
<1>12. Counted(q, GivenUp(D))
  <2> SUFFICES ASSUME NEW p \in Partition, NEW i \in DOMAIN q.parts[p].entries
               PROVE  LET x == q.parts[p].entries[i]
                          r == <<p, x.offset>>
                      IN  x.refs >= Users(q, r) /\ (x.refs = Users(q, r) \/ r \in GivenUp(D))
    BY DEF Counted
  <2> DEFINE r == <<p, e.parts[p].entries[i].offset>>
  <2>1. e.parts[p].entries[i].refs >= Users(e, r)
        /\ (e.parts[p].entries[i].refs = Users(e, r) \/ r \in GivenUp(D))
    BY <1>11 DEF EngineSound, EngineSoundAt, Counted
  <2>2. r = <<p, q.parts[p].entries[i].offset>>
    BY <1>11
  <2>3. /\ q.parts[p].entries[i].refs \in Int /\ e.parts[p].entries[i].refs \in Int
        /\ Users(e, r) \in Nat /\ Users(q, r) \in Nat
        /\ q.parts[p].entries[i].refs - Users(q, r) = e.parts[p].entries[i].refs - Users(e, r)
    BY <1>11
  <2> HIDE DEF r
  <2>4. q.parts[p].entries[i].refs >= Users(q, r)
        /\ (q.parts[p].entries[i].refs = Users(q, r) \/ r \in GivenUp(D))
    BY <2>1, <2>3
  <2>5. QED
    BY <2>2, <2>4
<1>13. Ordered(q)
  BY OrderedKept DEF EngineSound, EngineSoundAt, Keeps
<1>14. Settles(q, log, P \cup dropped, V)
  <2> SUFFICES ASSUME NEW p \in Partition, NEW i \in DOMAIN q.parts[p].entries
               PROVE  LET x == q.parts[p].entries[i]
                          r == <<p, x.offset>>
                      IN  \/ x.refs > Users(q, r)
                          \/ \A s \in Span : InLog(log, s) /\ Key(s) = r =>
                               s \in P \cup dropped \/ s \in q.dropped \/ s \in V \/ InTraces(q, s) \/ InOut(q, s)
    BY DEF Settles
  <2> DEFINE r == <<p, e.parts[p].entries[i].offset>>
  <2>1. \/ e.parts[p].entries[i].refs > Users(e, r)
        \/ \A s \in Span : InLog(log, s) /\ Key(s) = r =>
             s \in P \cup dropped \/ s \in e.dropped \/ s \in U \/ InTraces(e, s) \/ InOut(e, s)
    BY <1>11 DEF EngineSound, EngineSoundAt, Settles
  <2>2. r = <<p, q.parts[p].entries[i].offset>>
    BY <1>11
  <2>3. /\ q.parts[p].entries[i].refs \in Int /\ e.parts[p].entries[i].refs \in Int
        /\ Users(e, r) \in Nat /\ Users(q, r) \in Nat
        /\ q.parts[p].entries[i].refs - Users(q, r) = e.parts[p].entries[i].refs - Users(e, r)
    BY <1>11
  <2> HIDE DEF r
  <2>4. Carries(e, q, U, V)
    OBVIOUS
  <2>5. CASE e.parts[p].entries[i].refs > Users(e, r)
    <3>1. q.parts[p].entries[i].refs > Users(q, r)
      BY <2>3, <2>5
    <3>2. QED
      BY <2>2, <3>1
  <2>6. CASE \A s \in Span : InLog(log, s) /\ Key(s) = r =>
             s \in P \cup dropped \/ s \in e.dropped \/ s \in U \/ InTraces(e, s) \/ InOut(e, s)
    BY <2>2, <2>4, <2>6 DEF Carries
  <2>7. QED
    BY <2>1, <2>5, <2>6
<1>15. QED
  BY <1>12, <1>13, <1>14 DEF EngineSound, EngineSoundAt

LEMMA DecideSound ==
  ASSUME NEW e, NEW U, NEW P, NEW D, NEW X, EngineSound(e, U, P, D, X), NEW q, NEW id \in Ids(e.traces), NEW b \in BOOLEAN,
         Decides(e, q, id, b)
  PROVE  EngineSound(q, U, P, D, X)
<1> DEFINE t == ById(e.traces, id)
           n == [id |-> id, keep |-> b]
<1>1. e \in Engine /\ q \in Engine /\ TracesShape(e, log) /\ OutShape(e, log) /\ e.traces \in Seq(TraceRec)
      /\ e.out \in Seq(OutRec)
  BY EngineType DEF EngineSound, EngineSoundAt, Decides
<1>2. Keeps(e, q)
  BY <1>1, DecideKeeps
<1>3. PICK k \in DOMAIN e.traces : t = e.traces[k] /\ t.id = id
  BY <1>1, IndexFacts DEF ById
<1>4. \A x : /\ InTraces(q, x) <=> InTraces(e, x) /\ x \notin t.spans
             /\ InOut(q, x) <=> InOut(e, x) \/ (b /\ x \in t.spans)
             /\ x \in q.dropped <=> x \in e.dropped \/ (~b /\ x \in t.spans)
  <2> TAKE x
  <2>1. TracesShape(e, log)
    BY <1>1
  <2> HIDE DEF t, n
  <2>2. SpanMoves(e, q, t, b, x)
    BY <1>1, <2>1, DecideSpans DEF t
  <2>3. QED
    BY <2>2 DEF SpanMoves
<1>5. OwnRefs(t) /\ \A x \in t.spans : InLog(log, x) /\ TraceOf(log, x) = id
  BY <1>1, <1>3 DEF TracesShape
<1>6. \A i \in DOMAIN q.traces : q.traces[i].id # id /\ \E j \in DOMAIN e.traces : q.traces[i] = e.traces[j]
  BY <1>1, WithoutElems DEF Decides, TracesShape
<1>7. \A i \in DOMAIN q.out : \/ \E j \in DOMAIN e.out : q.out[i] = e.out[j]
                              \/ b /\ q.out[i] = [late |-> <<>>, spans |-> t.spans, refs |-> t.refs]
  <2>1. CASE b
    BY <1>1, <2>1, SMTT(30) DEF Decides
  <2>2. CASE ~b
    BY <2>2 DEF Decides
  <2>3. QED
    BY <2>1, <2>2
<1>8. TracesShape(q, log)
  <2>1. Distinct(q.traces) /\ Distinct(q.cache)
    BY <1>1, WithoutElems DEF Decides, TracesShape, CacheMoves
  <2>2. \A i \in DOMAIN q.traces, j \in DOMAIN q.cache : q.traces[i].id # q.cache[j].id
    <3> TAKE i \in DOMAIN q.traces, j \in DOMAIN q.cache
    <3>1. q.cache[j] = n \/ \E d \in DOMAIN e.cache : e.cache[d] = q.cache[j]
      BY DEF Decides, CacheMoves
    <3>2. n.id = id
      OBVIOUS
    <3> HIDE DEF n
    <3>3. QED
      BY <1>1, <1>6, <3>1, <3>2 DEF TracesShape
  <2>3. QED
    BY <1>1, <1>6, <2>1, <2>2 DEF TracesShape
<1> HIDE DEF t
<1>9. OutShape(q, log)
  <2> SUFFICES ASSUME NEW i \in DOMAIN q.out
               PROVE  /\ OwnRefs(q.out[i])
                      /\ \A x \in q.out[i].spans : InLog(log, x)
                      /\ q.out[i].late # <<>> => <<q.out[i].late[2], q.out[i].late[3]>> \in q.out[i].refs
    BY DEF OutShape
  <2>1. CASE \E j \in DOMAIN e.out : q.out[i] = e.out[j]
    BY <1>1, <2>1 DEF OutShape
  <2>2. CASE q.out[i] = [late |-> <<>>, spans |-> t.spans, refs |-> t.refs]
    BY <1>5, <2>2 DEF OwnRefs
  <2>3. QED
    BY <1>7, <2>1, <2>2
<1>10. Referred(q)
  <2>1. \A j \in DOMAIN e.traces : \A r \in e.traces[j].refs : r[1] \in Partition /\ HasEntry(q.parts, r)
    <3> TAKE j \in DOMAIN e.traces
    <3> TAKE r \in e.traces[j].refs
    <3>1. r[1] \in Partition
      BY <1>1, EngineParts
    <3>2. HasEntry(e.parts, r)
      BY DEF EngineSound, EngineSoundAt, Referred
    <3>3. QED
      BY <1>2, <3>1, <3>2, EntryOffsets DEF Keeps
  <2>2. \A j \in DOMAIN e.out : \A r \in e.out[j].refs : HasEntry(q.parts, r)
    <3> TAKE j \in DOMAIN e.out
    <3> TAKE r \in e.out[j].refs
    <3>1. r[1] \in Partition
      BY <1>1, EngineParts
    <3>2. HasEntry(e.parts, r)
      BY DEF EngineSound, EngineSoundAt, Referred
    <3>3. QED
      BY <1>2, <3>1, <3>2, EntryOffsets DEF Keeps
  <2>3. \A i \in DOMAIN q.traces : \A r \in q.traces[i].refs : HasEntry(q.parts, r)
    BY <1>6, <2>1
  <2>4. \A i \in DOMAIN q.out : \A r \in q.out[i].refs : HasEntry(q.parts, r)
    <3> TAKE i \in DOMAIN q.out
    <3>1. CASE \E j \in DOMAIN e.out : q.out[i] = e.out[j]
      BY <2>2, <3>1
    <3>2. CASE q.out[i] = [late |-> <<>>, spans |-> t.spans, refs |-> t.refs]
      BY <1>3, <2>1, <3>2
    <3>3. QED
      BY <1>7, <3>1, <3>2
  <2>5. QED
    BY <2>3, <2>4 DEF Referred
<1>11. ASSUME NEW p \in Partition, NEW i \in DOMAIN q.parts[p].entries
       PROVE  /\ i \in DOMAIN e.parts[p].entries
              /\ q.parts[p].entries[i].offset = e.parts[p].entries[i].offset
              /\ q.parts[p].entries[i].refs \in Int /\ e.parts[p].entries[i].refs \in Int
              /\ LET r == <<p, e.parts[p].entries[i].offset>> IN
                 /\ Users(e, r) \in Nat /\ Users(q, r) \in Nat
                 /\ q.parts[p].entries[i].refs - Users(q, r) = e.parts[p].entries[i].refs - Users(e, r)
  <2>1. i \in DOMAIN e.parts[p].entries /\ q.parts[p].entries[i].offset = e.parts[p].entries[i].offset
    BY <1>2 DEF Keeps, SameEntries
  <2> DEFINE r == <<p, e.parts[p].entries[i].offset>>
  <2>2. e.parts[p].entries[i].refs \in Int /\ q.parts[p].entries[i].refs \in Int
    BY <1>1, <2>1, EngineParts
  <2>3. Users(e, r) \in Nat /\ Users(q, r) \in Nat
        /\ Users(q, r) = Users(e, r) - (IF ~b /\ r \in t.refs THEN 1 ELSE 0)
    BY <1>1, DecideUsers DEF t
  <2>4. q.parts[p].entries[i].refs = e.parts[p].entries[i].refs - (IF ~b /\ r \in t.refs THEN 1 ELSE 0)
    <3>1. CASE b
      BY <2>2, <3>1 DEF Decides
    <3>2. CASE ~b
      <4>1. q.parts[p].entries[i].refs = e.parts[p].entries[i].refs + (IF r \in t.refs THEN -1 ELSE 0)
        BY <2>1, <3>2 DEF Decides, ReferTo, t
      <4>2. QED
        BY <2>2, <3>2, <4>1
    <3>3. QED
      BY <3>1, <3>2
  <2> HIDE DEF r
  <2>5. q.parts[p].entries[i].refs - Users(q, r) = e.parts[p].entries[i].refs - Users(e, r)
    BY <2>2, <2>3, <2>4
  <2>6. QED
    BY <2>1, <2>2, <2>3, <2>5 DEF r
<1>12. Balanced(e, q)
  BY <1>2, <1>11 DEF Balanced, Keeps, SameEntries
<1>13. Carries(e, q, U, U)
  BY <1>4 DEF Carries
<1>15. Decided(q, log, forgotten)
  <2>1. id \in q.forgot \/ Cached(q, id, b)
    <3>1. n.id \in q.forgot \/ \E c \in DOMAIN q.cache : q.cache[c] = n
      BY DEF Decides, CacheMoves
    <3>2. QED
      BY <3>1 DEF Cached
  <2>2. \A s, c : Cached(e, s, c) => s \in q.forgot \/ Cached(q, s, c)
    BY <1>2, CachedKept DEF Keeps
  <2>3. e.forgot \subseteq q.forgot
    BY <1>2 DEF Keeps, Remembers
  <2>4. \A x \in Span : InOut(q, x) => TraceOf(log, x) \in forgotten \cup q.forgot \/ Cached(q, TraceOf(log, x), TRUE)
    <3> TAKE x \in Span
    <3> HAVE InOut(q, x)
    <3>1. CASE InOut(e, x)
      BY <2>2, <2>3, <3>1 DEF EngineSound, EngineSoundAt, Decided
    <3>2. CASE b /\ x \in t.spans
      <4>1. b = TRUE /\ TraceOf(log, x) = id
        BY <1>5, <3>2
      <4>2. QED
        BY <2>1, <4>1
    <3>3. QED
      BY <1>4, <3>1, <3>2
  <2>5. \A x \in q.dropped :
         InLog(log, x) /\ (TraceOf(log, x) \in forgotten \cup q.forgot \/ Cached(q, TraceOf(log, x), FALSE))
    <3> TAKE x \in q.dropped
    <3>1. CASE x \in e.dropped
      BY <2>2, <2>3, <3>1 DEF EngineSound, EngineSoundAt, Decided
    <3>2. CASE ~b /\ x \in t.spans
      <4>1. b = FALSE /\ TraceOf(log, x) = id /\ InLog(log, x)
        BY <1>5, <3>2
      <4>2. QED
        BY <2>1, <4>1
    <3>3. QED
      BY <1>4, <3>1, <3>2
  <2>6. QED
    BY <2>4, <2>5 DEF Decided
<1>16. ~X => Once(q, U, P)
  <2> SUFFICES ASSUME Once(e, U, P) PROVE Once(q, U, P)
    BY DEF EngineSound, EngineSoundAt
  <2>1. \A x \in t.spans : InTraces(e, x)
    BY <1>3 DEF InTraces
  <2>2. QED
    BY <1>4, <2>1 DEF Once
<1>17. QED
  BY <1>1, <1>2, <1>8, <1>9, <1>10, <1>12, <1>13, <1>15, <1>16, SoundStep

-----------------------------------------------------------------------------
(* The cache loses its oldest decisions. *)

LEMMA PopSound ==
  ASSUME NEW e, NEW U, NEW P, NEW D, NEW X, EngineSound(e, U, P, D, X), NEW n \in 0..Len(e.cache)
  PROVE  EngineSound(popCache(e, n), U, P, D, X) /\ Keeps(e, popCache(e, n))
<1> DEFINE q == popCache(e, n)
<1>1. e \in Engine /\ TracesShape(e, log) /\ Distinct(e.cache)
  BY DEF EngineSound, EngineSoundAt, TracesShape
<1>2. q \in Engine /\ SameBut(e, q) /\ CacheMoves(e, q, {})
  BY <1>1, PopFacts
<1> HIDE DEF q
<1>3. q.traces = e.traces /\ q.out = e.out /\ q.parts = e.parts /\ q.dropped = e.dropped
  BY <1>2 DEF SameBut
<1>4. Keeps(e, q)
  BY <1>2, <1>3 DEF Keeps, SameEntries, Remembers, CacheMoves
<1>5. Balanced(e, q) /\ Carries(e, q, U, U) /\ OutShape(q, log) /\ Referred(q)
  <2>1. \A r : Users(q, r) = Users(e, r)
    BY <1>3 DEF Users
  <2>2. \A s : (InTraces(q, s) <=> InTraces(e, s)) /\ (InOut(q, s) <=> InOut(e, s))
    BY <1>3 DEF InTraces, InOut
  <2>3. OutShape(q, log) /\ Referred(q)
    BY <1>3 DEF EngineSound, EngineSoundAt, OutShape, Referred
  <2>4. Balanced(e, q)
    BY <1>3, <2>1 DEF Balanced
  <2>5. QED
    BY <1>3, <2>2, <2>3, <2>4 DEF Carries
<1>6. TracesShape(q, log)
  <2>1. Distinct(q.cache) /\ \A c \in DOMAIN q.cache : \E d \in DOMAIN e.cache : e.cache[d] = q.cache[c]
    BY <1>2 DEF CacheMoves
  <2>2. QED
    BY <1>1, <1>3, <2>1 DEF TracesShape
<1>7. Decided(q, log, forgotten)
  <2>1. \A s, c : Cached(e, s, c) => s \in q.forgot \/ Cached(q, s, c)
    BY <1>4, CachedKept DEF Keeps
  <2>2. e.forgot \subseteq q.forgot
    BY <1>4 DEF Keeps, Remembers
  <2>3. \A x : InOut(q, x) <=> InOut(e, x)
    BY <1>3 DEF InOut
  <2>4. QED
    BY <1>3, <2>1, <2>2, <2>3 DEF EngineSound, EngineSoundAt, Decided
<1>8. ~X => Once(q, U, P)
  BY <1>3 DEF EngineSound, EngineSoundAt, Once, InTraces, InOut
<1>9. QED
  BY <1>2, <1>4, <1>5, <1>6, <1>7, <1>8, SoundStep DEF q

-----------------------------------------------------------------------------
(* A new trace is empty until the span that starts it is appended. *)

EmptyTrace(e, id) == [e EXCEPT !.traces = Append(@, [id |-> id, spans |-> {}, refs |-> {}])]

LEMMA EmptySound ==
  ASSUME NEW e, NEW U, NEW P, NEW D, NEW X, EngineSound(e, U, P, D, X), NEW id \in Trace, id \notin Known(e)
  PROVE  /\ EngineSound(EmptyTrace(e, id), U, P, D, X) /\ Keeps(e, EmptyTrace(e, id))
         /\ id \in Ids(EmptyTrace(e, id).traces)
<1> DEFINE q == EmptyTrace(e, id)
           y == [id |-> id, spans |-> {}, refs |-> {}]
<1>1. e \in Engine /\ e.traces \in Seq(TraceRec)
  BY EngineType DEF EngineSound, EngineSoundAt
<1>2. y \in TraceRec /\ y.id = id /\ y.spans = {} /\ y.refs = {}
  BY DEF TraceRec
<1>3. q = [e EXCEPT !.traces = Append(e.traces, y)]
  BY DEF EmptyTrace
<1> HIDE DEF q, y
<1>4. Append(e.traces, y) \in Seq(TraceRec)
  BY <1>1, <1>2
<1>5. /\ q \in Engine /\ q.traces = Append(e.traces, y) /\ q.cache = e.cache /\ q.out = e.out
      /\ q.parts = e.parts /\ q.dropped = e.dropped /\ q.forgot = e.forgot
  BY <1>1, <1>3, <1>4 DEF Engine, TraceRec
<1>6. /\ DOMAIN q.traces = DOMAIN e.traces \cup {Len(e.traces) + 1} /\ q.traces[Len(e.traces) + 1] = y
      /\ \A i \in DOMAIN e.traces : q.traces[i] = e.traces[i]
  BY <1>1, <1>5
<1>7. Keeps(e, q)
  BY <1>5 DEF Keeps, SameEntries, Remembers
<1>8. \A r : Users(q, r) = Users(e, r)
  <2> TAKE r
  <2>1. Count(q.traces, r) = Count(e.traces, r) + (IF r \in y.refs THEN 1 ELSE 0)
    BY <1>1, <1>2, <1>5, CountAppend
  <2>2. Count(e.traces, r) \in Nat
    BY <1>1, UsersNat
  <2>3. QED
    BY <1>2, <1>5, <2>1, <2>2 DEF Users
<1>9. \A x : (InTraces(q, x) <=> InTraces(e, x)) /\ (InOut(q, x) <=> InOut(e, x))
  BY <1>2, <1>5, <1>6 DEF InTraces, InOut
<1>10. Balanced(e, q) /\ Carries(e, q, U, U) /\ OutShape(q, log)
  <2>1. OutShape(q, log)
    BY <1>5 DEF EngineSound, EngineSoundAt, OutShape
  <2>2. Balanced(e, q)
    BY <1>5, <1>8 DEF Balanced
  <2>3. QED
    BY <1>5, <1>9, <2>1, <2>2 DEF Carries
<1>11. Referred(q)
  BY <1>2, <1>5, <1>6 DEF EngineSound, EngineSoundAt, Referred
<1>12. TracesShape(q, log)
  <2>1. \A i \in DOMAIN e.traces : e.traces[i].id # id
    BY DEF Known, Ids
  <2>2. \A i \in DOMAIN e.cache : e.cache[i].id # id
    BY DEF Known, Ids
  <2>3. TracesShape(e, log)
    BY DEF EngineSound, EngineSoundAt
  <2>4. Distinct(q.traces)
    BY <1>2, <1>6, <2>1, <2>3 DEF TracesShape, Distinct
  <2>5. OwnRefs(y)
    BY <1>2 DEF OwnRefs
  <2>6. \A i \in DOMAIN q.traces : q.traces[i] = y \/ \E j \in DOMAIN e.traces : q.traces[i] = e.traces[j]
    BY <1>6
  <2>7. Distinct(q.cache) /\ \A i \in DOMAIN q.traces, j \in DOMAIN q.cache : q.traces[i].id # q.cache[j].id
    BY <1>2, <1>5, <2>2, <2>3, <2>6 DEF TracesShape
  <2>8. \A k \in DOMAIN q.traces :
         /\ OwnRefs(q.traces[k])
         /\ \A x \in q.traces[k].spans : InLog(log, x) /\ TraceOf(log, x) = q.traces[k].id
    BY <1>2, <2>3, <2>5, <2>6 DEF TracesShape
  <2>9. QED
    BY <2>4, <2>7, <2>8 DEF TracesShape
<1>13. Decided(q, log, forgotten)
  BY <1>5, <1>9 DEF EngineSound, EngineSoundAt, Decided, Cached
<1>14. ~X => Once(q, U, P)
  BY <1>9 DEF EngineSound, EngineSoundAt, Once
<1>15. EngineSound(q, U, P, D, X)
  BY <1>5, <1>7, <1>10, <1>11, <1>12, <1>13, <1>14, SoundStep
<1>16. id \in Ids(q.traces)
  BY <1>2, <1>6 DEF Ids
<1>17. QED
  BY <1>7, <1>15, <1>16 DEF q

-----------------------------------------------------------------------------
(* A span is added to a buffered trace. *)

(* The trace or output t with the span x. *)
Grown(t, x) == [t EXCEPT !.spans = @ \cup {x}, !.refs = @ \cup {Key(x)}]

LEMMA GrownFacts ==
  ASSUME NEW x \in Span, NEW t,
         t \in TraceRec \/ t \in OutRec
  PROVE  /\ Key(x) \in Partition \X Nat
         /\ t \in TraceRec => Grown(t, x) \in TraceRec /\ Grown(t, x).id = t.id
         /\ t \in OutRec => Grown(t, x) \in OutRec /\ Grown(t, x).late = t.late
         /\ Grown(t, x).spans = t.spans \cup {x} /\ Grown(t, x).refs = t.refs \cup {Key(x)}
<1>1. Key(x) \in Partition \X Nat
  BY DEF Key, Span
<1> DEFINE r == Key(x)
<1> HIDE DEF r
<1>2. r \in Partition \X Nat
  BY <1>1 DEF r
<1>3. Grown(t, x) = [t EXCEPT !.spans = @ \cup {x}, !.refs = @ \cup {r}]
  BY DEF Grown, r
<1>4. CASE t \in TraceRec
  <2>1. t.spans \in SUBSET Span /\ t.refs \in SUBSET (Partition \X Nat)
    BY <1>4 DEF TraceRec
  <2>2. t.spans \cup {x} \in SUBSET Span /\ t.refs \cup {r} \in SUBSET (Partition \X Nat)
    BY <1>2, <2>1
  <2> DEFINE S == t.spans \cup {x}
             R == t.refs \cup {r}
  <2>3. Grown(t, x) = [t EXCEPT !.spans = S, !.refs = R]
    BY <1>3, <1>4 DEF TraceRec
  <2> HIDE DEF S, R
  <2>4. Grown(t, x) \in TraceRec /\ Grown(t, x).id = t.id /\ Grown(t, x).spans = S /\ Grown(t, x).refs = R
    BY <1>4, <2>2, <2>3 DEF TraceRec, S, R
  <2>5. t \in OutRec => Grown(t, x) \in OutRec /\ Grown(t, x).late = t.late
    <3> SUFFICES ASSUME t \in OutRec PROVE Grown(t, x) \in OutRec /\ Grown(t, x).late = t.late
      OBVIOUS
    <3>1. QED
      BY <2>2, <2>3 DEF OutRec, S, R
  <2>6. QED
    BY <1>1, <2>4, <2>5 DEF S, R, r
<1>5. CASE t \in OutRec
  <2>1. t.spans \in SUBSET Span /\ t.refs \in SUBSET (Partition \X Nat)
    BY <1>5 DEF OutRec
  <2>2. t.spans \cup {x} \in SUBSET Span /\ t.refs \cup {r} \in SUBSET (Partition \X Nat)
    BY <1>2, <2>1
  <2> DEFINE S == t.spans \cup {x}
             R == t.refs \cup {r}
  <2>3. Grown(t, x) = [t EXCEPT !.spans = S, !.refs = R]
    BY <1>3, <1>5 DEF OutRec
  <2> HIDE DEF S, R
  <2>4. Grown(t, x) \in OutRec /\ Grown(t, x).late = t.late /\ Grown(t, x).spans = S /\ Grown(t, x).refs = R
    BY <1>5, <2>2, <2>3 DEF OutRec, S, R
  <2>5. t \in TraceRec => Grown(t, x) \in TraceRec /\ Grown(t, x).id = t.id
    <3> SUFFICES ASSUME t \in TraceRec PROVE Grown(t, x) \in TraceRec /\ Grown(t, x).id = t.id
      OBVIOUS
    <3>1. QED
      BY <2>2, <2>3 DEF TraceRec, S, R
  <2>6. QED
    BY <1>1, <2>4, <2>5 DEF S, R, r
<1>6. QED
  BY <1>4, <1>5

LEMMA GrownRefs ==
  ASSUME NEW x \in Span, NEW t, t \in TraceRec \/ t \in OutRec, OwnRefs(t)
  PROVE  OwnRefs(Grown(t, x))
<1>1. Grown(t, x).spans = t.spans \cup {x} /\ Grown(t, x).refs = t.refs \cup {Key(x)}
  BY GrownFacts
<1>2. QED
  BY <1>1 DEF OwnRefs

(* The effect of appending the span x to the trace at k. *)
Appends(e, q, k, x) ==
    /\ q \in Engine
    /\ q.cache = e.cache /\ q.out = e.out /\ q.dropped = e.dropped /\ q.forgot = e.forgot
    /\ q.traces \in Seq(TraceRec) /\ DOMAIN q.traces = DOMAIN e.traces
    /\ \A j \in DOMAIN e.traces : q.traces[j] = IF j = k THEN Grown(e.traces[k], x) ELSE e.traces[j]
    /\ ReferTo(e.parts, q.parts, IF Key(x) \in e.traces[k].refs THEN {} ELSE {Key(x)}, 1)

LEMMA AppendEffect ==
  ASSUME NEW e \in Engine, Distinct(e.traces), NEW k \in DOMAIN e.traces,
         NEW p \in Partition, NEW o \in Nat, NEW i \in Nat
  PROVE  Appends(e, appendSpan(e, e.traces[k].id, p, o, i), k, <<p, o, i>>)
<1> DEFINE id == e.traces[k].id
           x  == <<p, o, i>>
           T  == [j \in DOMAIN e.traces |-> IF e.traces[j].id = id THEN Grown(e.traces[j], x) ELSE e.traces[j]]
           Q  == IF <<p, o>> \in e.traces[k].refs THEN e.parts ELSE Refer(e.parts, {<<p, o>>}, 1)
           q  == appendSpan(e, id, p, o, i)
<1>1. e.traces \in Seq(TraceRec) /\ e.parts \in [Partition -> Part]
      /\ DOMAIN e.traces = 1..Len(e.traces) /\ Len(e.traces) \in Nat
  BY EngineType
<1>2. x \in Span /\ Key(x) = <<p, o>>
  BY DEF Span, Key
<1>3. ById(e.traces, id) = e.traces[k]
  BY <1>1, IndexUnique DEF ById, Distinct
<1>4. q = [e EXCEPT !.traces = T, !.parts = Q]
  <2> DEFINE G(t) == [t EXCEPT !.spans = @ \cup {<<p, o, i>>}, !.refs = @ \cup {<<p, o>>}]
  <2>1. q = [e EXCEPT !.traces = [j \in DOMAIN e.traces |-> IF e.traces[j].id = id THEN G(e.traces[j]) ELSE e.traces[j]],
                      !.parts = Q]
    BY <1>3 DEF appendSpan
  <2>2. \A t : Grown(t, x) = G(t)
    BY <1>2 DEF Grown
  <2> HIDE DEF G, q, Q, x
  <2>3. T = [j \in DOMAIN e.traces |-> IF e.traces[j].id = id THEN G(e.traces[j]) ELSE e.traces[j]]
    BY <2>2
  <2>4. QED
    BY <2>1, <2>3
<1>5. \A j \in DOMAIN e.traces : e.traces[j] \in TraceRec
  BY EngineParts
<1> HIDE DEF x
<1>6. \A j \in DOMAIN e.traces : Grown(e.traces[j], x) \in TraceRec
  BY <1>2, <1>5, GrownFacts
<1>7. T \in Seq(TraceRec) /\ DOMAIN T = DOMAIN e.traces
      /\ \A j \in DOMAIN e.traces : T[j] = IF j = k THEN Grown(e.traces[k], x) ELSE e.traces[j]
  <2>1. T \in [1..Len(e.traces) -> TraceRec]
    <3> HIDE DEF Grown, TraceRec, id
    <3>1. QED
      BY <1>1, <1>5, <1>6
  <2>2. T \in Seq(TraceRec) /\ DOMAIN T = DOMAIN e.traces
    BY <1>1, <2>1, SeqDef
  <2>3. \A j \in DOMAIN e.traces : T[j] = IF j = k THEN Grown(e.traces[k], x) ELSE e.traces[j]
    BY DEF Distinct
  <2>4. QED
    BY <2>2, <2>3
<1>8. ReferTo(e.parts, Q, IF Key(x) \in e.traces[k].refs THEN {} ELSE {Key(x)}, 1)
  <2>1. CASE Key(x) \in e.traces[k].refs
    <3>1. Q = e.parts
      BY <1>2, <2>1
    <3>2. \A a \in Partition : \A j \in DOMAIN e.parts[a].entries : e.parts[a].entries[j].refs \in Int
      BY EngineParts
    <3>3. ReferTo(e.parts, e.parts, {}, 1)
      BY <1>1, <3>2 DEF ReferTo
    <3>4. QED
      BY <2>1, <3>1, <3>3
  <2>2. CASE Key(x) \notin e.traces[k].refs
    <3>1. Q = Refer(e.parts, {Key(x)}, 1)
      BY <1>2, <2>2
    <3>2. ReferTo(e.parts, Refer(e.parts, {Key(x)}, 1), {Key(x)}, 1)
      BY <1>1, ReferFacts
    <3>3. QED
      BY <2>2, <3>1, <3>2
  <2>3. QED
    BY <2>1, <2>2
<1>9. Q \in [Partition -> Part]
  BY <1>8 DEF ReferTo
<1> HIDE DEF T, Q, q
<1>10. /\ q \in Engine /\ q.traces = T /\ q.parts = Q
       /\ q.cache = e.cache /\ q.out = e.out /\ q.dropped = e.dropped /\ q.forgot = e.forgot
  BY <1>4, <1>7, <1>9 DEF Engine, TraceRec
<1>11. QED
  BY <1>7, <1>8, <1>10 DEF Appends, q, x

LEMMA AppendUsers ==
  ASSUME NEW e \in Engine, NEW q \in Engine, NEW k \in DOMAIN e.traces, NEW x \in Span, Appends(e, q, k, x), NEW r
  PROVE  /\ Users(e, r) \in Nat
         /\ Users(q, r) = Users(e, r) + (IF r = Key(x) /\ r \notin e.traces[k].refs THEN 1 ELSE 0)
<1>1. e.traces \in Seq(TraceRec) /\ q.traces \in Seq(TraceRec) /\ DOMAIN q.traces = DOMAIN e.traces
      /\ e.traces[k] \in TraceRec
  BY EngineType DEF Appends
<1>2. q.traces[k] = Grown(e.traces[k], x) /\ \A j \in DOMAIN e.traces : j # k => q.traces[j] = e.traces[j]
  BY DEF Appends
<1>3. q.traces[k].refs = e.traces[k].refs \cup {Key(x)}
  BY <1>1, <1>2, GrownFacts
<1>4. Count(e.traces, r) \in Nat /\ Count(e.out, r) \in Nat /\ Users(e, r) \in Nat
  BY UsersNat
<1>5. q.out = e.out
  BY DEF Appends
<1>6. CASE r = Key(x) /\ r \notin e.traces[k].refs
  <2>1. Count(q.traces, r) = Count(e.traces, r) + 1
    BY <1>1, <1>2, <1>3, <1>6, CountMore
  <2>2. QED
    BY <1>4, <1>5, <1>6, <2>1 DEF Users
<1>7. CASE ~(r = Key(x) /\ r \notin e.traces[k].refs)
  <2>1. \A j \in DOMAIN e.traces : r \in q.traces[j].refs <=> r \in e.traces[j].refs
    BY <1>2, <1>3, <1>7
  <2>2. Count(q.traces, r) = Count(e.traces, r)
    BY <1>1, <2>1, CountSame
  <2>3. QED
    BY <1>4, <1>5, <1>7, <2>2 DEF Users
<1>8. QED
  BY <1>6, <1>7

(* A span x still to be added to e. *)
Next1(e, U, x) == x \in U /\ x \in Span /\ InLog(log, x) /\ HasEntry(e.parts, Key(x))

LEMMA AppendSound ==
  ASSUME NEW e, NEW U, NEW P, NEW D, NEW X, EngineSound(e, U, P, D, X), NEW k \in DOMAIN e.traces, NEW x \in Span,
         Next1(e, U, x), TraceOf(log, x) = e.traces[k].id, NEW q, Appends(e, q, k, x)
  PROVE  EngineSound(q, U \ {x}, P, D, X) /\ Keeps(e, q) /\ Ids(q.traces) = Ids(e.traces)
<1>1. e \in Engine /\ q \in Engine /\ DOMAIN q.traces = DOMAIN e.traces /\ e.traces[k] \in TraceRec
      /\ q.cache = e.cache /\ q.out = e.out /\ q.dropped = e.dropped /\ q.forgot = e.forgot
      /\ TracesShape(e, log) /\ OutShape(e, log)
  BY EngineParts DEF EngineSound, EngineSoundAt, Appends
<1>2. \A j \in DOMAIN e.traces : q.traces[j] = IF j = k THEN Grown(e.traces[k], x) ELSE e.traces[j]
  BY DEF Appends
<1>3. /\ q.traces[k].id = e.traces[k].id
      /\ q.traces[k].spans = e.traces[k].spans \cup {x} /\ q.traces[k].refs = e.traces[k].refs \cup {Key(x)}
  BY <1>1, <1>2, GrownFacts
<1>4. \A j \in DOMAIN e.traces : q.traces[j].id = e.traces[j].id
  BY <1>2, <1>3
<1>5. SameEntries(e, q)
  BY DEF Appends, ReferTo, SameEntries
<1>6. Keeps(e, q)
  BY <1>1, <1>5 DEF Keeps, Remembers
<1>7. \A s : (InTraces(q, s) <=> InTraces(e, s) \/ s = x) /\ (InOut(q, s) <=> InOut(e, s))
  BY <1>1, <1>2, <1>3 DEF InTraces, InOut
<1>8. Balanced(e, q)
  <2> SUFFICES ASSUME NEW p \in Partition, NEW i \in DOMAIN e.parts[p].entries
               PROVE  LET r == <<p, e.parts[p].entries[i].offset>>
                      IN  q.parts[p].entries[i].refs - Users(q, r) = e.parts[p].entries[i].refs - Users(e, r)
    BY DEF Balanced
  <2> DEFINE r == <<p, e.parts[p].entries[i].offset>>
             R == IF Key(x) \in e.traces[k].refs THEN {} ELSE {Key(x)}
  <2>1. Users(e, r) \in Nat /\ Users(q, r) = Users(e, r) + (IF r = Key(x) /\ r \notin e.traces[k].refs THEN 1 ELSE 0)
    BY <1>1, AppendUsers
  <2>2. q.parts[p].entries[i].refs = e.parts[p].entries[i].refs + (IF r \in R THEN 1 ELSE 0)
    BY DEF Appends, ReferTo
  <2>3. e.parts[p].entries[i].refs \in Int
    BY <1>1, EngineParts
  <2>4. r \in R <=> (r = Key(x) /\ r \notin e.traces[k].refs)
    OBVIOUS
  <2> HIDE DEF r, R
  <2>5. QED
    BY <2>1, <2>2, <2>3, <2>4 DEF r
<1>9. Carries(e, q, U, U \ {x})
  BY <1>1, <1>7 DEF Carries
<1>10. TracesShape(q, log)
  <2>1. Distinct(q.traces) /\ Distinct(q.cache)
        /\ \A i \in DOMAIN q.traces, j \in DOMAIN q.cache : q.traces[i].id # q.cache[j].id
    BY <1>1, <1>4 DEF TracesShape, Distinct
  <2>2. \A j \in DOMAIN q.traces :
         /\ OwnRefs(q.traces[j])
         /\ \A s \in q.traces[j].spans : InLog(log, s) /\ TraceOf(log, s) = q.traces[j].id
    <3> TAKE j \in DOMAIN q.traces
    <3>1. CASE j = k
      <4>1. OwnRefs(q.traces[k])
        BY <1>1, <1>2, GrownRefs DEF TracesShape
      <4>2. QED
        BY <1>1, <1>3, <3>1, <4>1 DEF TracesShape, Next1
    <3>2. CASE j # k
      BY <1>1, <1>2, <3>2 DEF TracesShape
    <3>3. QED
      BY <3>1, <3>2
  <2>3. QED
    BY <2>1, <2>2 DEF TracesShape
<1>11. OutShape(q, log)
  BY <1>1 DEF OutShape
<1>12. Referred(q)
  <2>1. \A r : r[1] \in Partition /\ HasEntry(e.parts, r) => HasEntry(q.parts, r)
    BY <1>5, EntryOffsets
  <2>2. Key(x) \in Partition \X Nat /\ Key(x)[1] \in Partition
    BY <1>1, GrownFacts
  <2>3. HasEntry(q.parts, Key(x))
    BY <2>1, <2>2 DEF Next1
  <2>4. \A j \in DOMAIN e.traces : \A r \in e.traces[j].refs : HasEntry(q.parts, r)
    BY <1>1, <2>1, EngineParts DEF EngineSound, EngineSoundAt, Referred
  <2>5. \A j \in DOMAIN e.out : \A r \in e.out[j].refs : HasEntry(q.parts, r)
    BY <1>1, <2>1, EngineParts DEF EngineSound, EngineSoundAt, Referred
  <2>6. QED
    BY <1>1, <1>2, <1>3, <2>3, <2>4, <2>5 DEF Referred
<1>13. Decided(q, log, forgotten)
  BY <1>1, <1>7 DEF EngineSound, EngineSoundAt, Decided, Cached
<1>14. ~X => Once(q, U \ {x}, P)
  BY <1>7 DEF EngineSound, EngineSoundAt, Once, Next1
<1>15. EngineSound(q, U \ {x}, P, D, X)
  BY <1>1, <1>6, <1>8, <1>9, <1>10, <1>11, <1>12, <1>13, <1>14, SoundStep
<1>16. Ids(q.traces) = Ids(e.traces)
  BY <1>1, <1>4 DEF Ids
<1>17. QED
  BY <1>6, <1>15, <1>16

-----------------------------------------------------------------------------
(* A span of a trace that was decided. *)

(* The span x joins the outputs l of late spans. *)
JoinsLate(e, q, l, x) ==
    /\ q \in Engine /\ q.traces = e.traces /\ q.cache = e.cache /\ q.parts = e.parts
    /\ q.dropped = e.dropped /\ q.forgot = e.forgot
    /\ DOMAIN q.out = DOMAIN e.out
    /\ \A k \in DOMAIN e.out :
         /\ q.out[k].refs = e.out[k].refs /\ q.out[k].late = e.out[k].late
         /\ e.out[k].late = l => q.out[k].spans = e.out[k].spans \cup {x}
         /\ e.out[k].late # l => q.out[k].spans = e.out[k].spans

LEMMA LateJoinEffect ==
  ASSUME NEW e \in Engine, NEW id \in Trace, NEW p \in Partition, NEW o \in Nat, NEW i \in Nat,
         \E k \in DOMAIN e.out : e.out[k].late = <<id, p, o>>, NEW q, q = late(e, id, p, o, i)
  PROVE  JoinsLate(e, q, <<id, p, o>>, <<p, o, i>>)
<1> DEFINE x == <<p, o, i>>
           l == <<id, p, o>>
           G(t) == [t EXCEPT !.spans = @ \cup {x}]
           O == [k \in DOMAIN e.out |-> IF e.out[k].late = l THEN G(e.out[k]) ELSE e.out[k]]
<1>1. q = [e EXCEPT !.out = O]
  BY DEF late
<1>2. x \in Span
  BY DEF Span
<1>3. e.out \in Seq(OutRec) /\ DOMAIN e.out = 1..Len(e.out) /\ Len(e.out) \in Nat
  BY EngineType
<1> HIDE DEF x, l
<1>4. \A k \in DOMAIN e.out :
        /\ G(e.out[k]) \in OutRec /\ G(e.out[k]).late = e.out[k].late /\ G(e.out[k]).refs = e.out[k].refs
        /\ G(e.out[k]).spans = e.out[k].spans \cup {x}
  <2> TAKE k \in DOMAIN e.out
  <2>1. e.out[k] \in OutRec
    BY <1>3
  <2> DEFINE t == e.out[k]
             S == t.spans \cup {x}
  <2> HIDE DEF t
  <2>2. t \in OutRec
    BY <2>1 DEF t
  <2>3. S \in SUBSET Span
    BY <1>2, <2>2 DEF OutRec
  <2>4. G(t) = [t EXCEPT !.spans = S]
    BY <2>2 DEF OutRec
  <2> HIDE DEF S, G
  <2>5. G(t) \in OutRec /\ G(t).late = t.late /\ G(t).refs = t.refs /\ G(t).spans = S
    BY <2>2, <2>3, <2>4 DEF OutRec
  <2>6. QED
    BY <2>5 DEF S, t
<1> HIDE DEF G
<1>5. /\ DOMAIN O = DOMAIN e.out
      /\ \A k \in DOMAIN e.out : /\ O[k] \in OutRec
                                 /\ O[k].refs = e.out[k].refs /\ O[k].late = e.out[k].late
                                 /\ O[k].spans = IF e.out[k].late = l THEN e.out[k].spans \cup {x} ELSE e.out[k].spans
  <2>1. \A k \in DOMAIN e.out : e.out[k] \in OutRec
    BY <1>3
  <2>2. QED
    BY <1>4, <2>1
<1>6. O \in Seq(OutRec)
  <2>1. O \in [1..Len(e.out) -> OutRec]
    BY <1>3, <1>5
  <2>2. QED
    BY <1>3, <2>1, SeqDef
<1> HIDE DEF O
<1>7. /\ q \in Engine /\ q.out = O /\ q.traces = e.traces /\ q.cache = e.cache /\ q.parts = e.parts
      /\ q.dropped = e.dropped /\ q.forgot = e.forgot
  BY <1>1, <1>6 DEF Engine, OutRec
<1>8. QED
  BY <1>5, <1>7 DEF x, l, JoinsLate

LEMMA LateJoinSound ==
  ASSUME NEW e, NEW U, NEW P, NEW D, NEW X, EngineSound(e, U, P, D, X), NEW id \in Trace,
         NEW p \in Partition, NEW o \in Nat, NEW i \in Nat, Next1(e, U, <<p, o, i>>), TraceOf(log, <<p, o, i>>) = id,
         Cached(e, id, TRUE), \E k \in DOMAIN e.out : e.out[k].late = <<id, p, o>>, NEW q, q = late(e, id, p, o, i)
  PROVE  EngineSound(q, U \ {<<p, o, i>>}, P, D, X) /\ Keeps(e, q)
<1> DEFINE x == <<p, o, i>>
           l == <<id, p, o>>
<1>1. e \in Engine /\ TracesShape(e, log) /\ OutShape(e, log)
  BY DEF EngineSound, EngineSoundAt
<1>a. JoinsLate(e, q, l, x)
  BY <1>1, LateJoinEffect
<1>3. Key(x) = <<p, o>> /\ l # <<>> /\ l[2] = p /\ l[3] = o
  BY DEF Key
<1>4. Next1(e, U, x) /\ TraceOf(log, x) = id
  OBVIOUS
<1>5. PICK n \in DOMAIN e.out : e.out[n].late = l
  OBVIOUS
<1> HIDE DEF x, l
<1>2. /\ q \in Engine /\ q.traces = e.traces /\ q.cache = e.cache /\ q.parts = e.parts
      /\ q.dropped = e.dropped /\ q.forgot = e.forgot /\ DOMAIN q.out = DOMAIN e.out
      /\ \A k \in DOMAIN e.out : /\ q.out[k].refs = e.out[k].refs /\ q.out[k].late = e.out[k].late
                                 /\ e.out[k].late = l => q.out[k].spans = e.out[k].spans \cup {x}
                                 /\ e.out[k].late # l => q.out[k].spans = e.out[k].spans
  BY <1>a DEF JoinsLate
<1>6. Keeps(e, q)
  BY <1>2 DEF Keeps, SameEntries, Remembers
<1>7. \A s : (InTraces(q, s) <=> InTraces(e, s)) /\ (InOut(q, s) <=> InOut(e, s) \/ s = x)
  BY <1>2, <1>5 DEF InTraces, InOut
<1>8. \A r : Users(q, r) = Users(e, r)
  <2> TAKE r
  <2>1. Count(q.out, r) = Count(e.out, r)
    BY <1>2, CountSame
  <2>2. QED
    BY <1>2, <2>1 DEF Users
<1>9. Balanced(e, q)
  BY <1>2, <1>8 DEF Balanced
<1>10. Carries(e, q, U, U \ {x})
  BY <1>2, <1>7 DEF Carries
<1>11. TracesShape(q, log)
  BY <1>1, <1>2 DEF TracesShape
<1>12. OutShape(q, log)
  <2> SUFFICES ASSUME NEW k \in DOMAIN e.out
               PROVE  /\ OwnRefs(q.out[k])
                      /\ \A s \in q.out[k].spans : InLog(log, s)
                      /\ q.out[k].late # <<>> => <<q.out[k].late[2], q.out[k].late[3]>> \in q.out[k].refs
    BY <1>2 DEF OutShape
  <2>1. /\ OwnRefs(e.out[k])
        /\ \A s \in e.out[k].spans : InLog(log, s)
        /\ e.out[k].late # <<>> => <<e.out[k].late[2], e.out[k].late[3]>> \in e.out[k].refs
    BY <1>1 DEF OutShape
  <2>2. CASE e.out[k].late = l
    <3>1. Key(x) \in e.out[k].refs
      BY <1>3, <2>1, <2>2
    <3>2. OwnRefs(q.out[k])
      BY <1>2, <2>1, <2>2, <3>1 DEF OwnRefs
    <3>3. QED
      BY <1>2, <1>4, <2>1, <2>2, <3>2 DEF Next1
  <2>3. CASE e.out[k].late # l
    BY <1>2, <2>1, <2>3 DEF OwnRefs
  <2>4. QED
    BY <2>2, <2>3
<1>13. Referred(q)
  BY <1>2 DEF EngineSound, EngineSoundAt, Referred
<1>14. Decided(q, log, forgotten)
  <2>1. Cached(q, id, TRUE) /\ \A t, b : Cached(q, t, b) <=> Cached(e, t, b)
    BY <1>2 DEF Cached
  <2>2. \A s \in Span : InOut(q, s) => TraceOf(log, s) \in forgotten \cup q.forgot \/ Cached(q, TraceOf(log, s), TRUE)
    BY <1>2, <1>4, <1>7, <2>1 DEF EngineSound, EngineSoundAt, Decided
  <2>3. QED
    BY <1>2, <2>1, <2>2 DEF EngineSound, EngineSoundAt, Decided
<1>15. ~X => Once(q, U \ {x}, P)
  BY <1>4, <1>7 DEF EngineSound, EngineSoundAt, Once, Next1
<1>16. QED
  BY <1>2, <1>6, <1>9, <1>10, <1>11, <1>12, <1>13, <1>14, <1>15, SoundStep DEF x

(* The span x is the first of the output l of late spans. *)
AddsLate(e, q, l, x, y) ==
    /\ y \in OutRec /\ y.late = l /\ y.spans = {x} /\ y.refs = {Key(x)}
    /\ q \in Engine /\ q.traces = e.traces /\ q.cache = e.cache
    /\ q.dropped = e.dropped /\ q.forgot = e.forgot
    /\ q.out = Append(e.out, y)
    /\ ReferTo(e.parts, q.parts, {Key(x)}, 1)

LEMMA LateNewEffect ==
  ASSUME NEW e \in Engine, NEW id \in Trace, NEW p \in Partition, NEW o \in Nat, NEW i \in Nat,
         ~ \E k \in DOMAIN e.out : e.out[k].late = <<id, p, o>>, NEW q, q = late(e, id, p, o, i)
  PROVE  \E y : AddsLate(e, q, <<id, p, o>>, <<p, o, i>>, y)
<1> DEFINE y == [late |-> <<id, p, o>>, spans |-> {<<p, o, i>>}, refs |-> {<<p, o>>}]
           Q == Refer(e.parts, {<<p, o>>}, 1)
           O == Append(e.out, y)
<1>1. e.out \in Seq(OutRec) /\ e.parts \in [Partition -> Part]
  BY EngineType
<1>2. y \in OutRec /\ y.late = <<id, p, o>> /\ y.spans = {<<p, o, i>>} /\ y.refs = {<<p, o>>}
  BY DEF OutRec, Span
<1>3. ReferTo(e.parts, Q, {<<p, o>>}, 1)
  BY <1>1, ReferFacts
<1>4. Q \in [Partition -> Part]
  BY <1>3 DEF ReferTo
<1>5. q = [e EXCEPT !.out = O, !.parts = Q]
  BY DEF late
<1> HIDE DEF y, Q
<1>6. O \in Seq(OutRec)
  BY <1>1, <1>2
<1> HIDE DEF O
<1>7. /\ q \in Engine /\ q.out = O /\ q.parts = Q /\ q.traces = e.traces /\ q.cache = e.cache
      /\ q.dropped = e.dropped /\ q.forgot = e.forgot
  BY <1>4, <1>5, <1>6 DEF Engine, OutRec
<1>8. Key(<<p, o, i>>) = <<p, o>>
  BY DEF Key
<1>9. AddsLate(e, q, <<id, p, o>>, <<p, o, i>>, y)
  BY <1>2, <1>3, <1>7, <1>8 DEF O, AddsLate
<1>10. QED
  BY <1>9

LEMMA LateNewSound ==
  ASSUME NEW e, NEW U, NEW P, NEW D, NEW X, EngineSound(e, U, P, D, X), NEW id \in Trace,
         NEW p \in Partition, NEW o \in Nat, NEW i \in Nat, Next1(e, U, <<p, o, i>>), TraceOf(log, <<p, o, i>>) = id,
         Cached(e, id, TRUE), ~ \E k \in DOMAIN e.out : e.out[k].late = <<id, p, o>>, NEW q, q = late(e, id, p, o, i)
  PROVE  EngineSound(q, U \ {<<p, o, i>>}, P, D, X) /\ Keeps(e, q)
<1> DEFINE x == <<p, o, i>>
<1>1. e \in Engine /\ TracesShape(e, log) /\ OutShape(e, log) /\ e.out \in Seq(OutRec)
  BY EngineType DEF EngineSound, EngineSoundAt
<1>2. Key(x) = <<p, o>> /\ Next1(e, U, x) /\ TraceOf(log, x) = id /\ Key(x)[1] = p
  BY DEF Key
<1>a. PICK y : AddsLate(e, q, <<id, p, o>>, x, y)
  BY <1>1, LateNewEffect
<1> HIDE DEF x
<1>3. /\ y \in OutRec /\ q \in Engine /\ q.traces = e.traces /\ q.cache = e.cache
      /\ q.dropped = e.dropped /\ q.forgot = e.forgot
      /\ q.out = Append(e.out, y)
      /\ y.late = <<id, p, o>> /\ y.spans = {x} /\ y.refs = {Key(x)}
      /\ ReferTo(e.parts, q.parts, {Key(x)}, 1)
  BY <1>a DEF AddsLate
<1>4. <<y.late[2], y.late[3]>> = Key(x)
  BY <1>2, <1>3
<1> HIDE DEF x
<1>5. /\ DOMAIN q.out = DOMAIN e.out \cup {Len(e.out) + 1} /\ q.out[Len(e.out) + 1] = y
      /\ \A k \in DOMAIN e.out : q.out[k] = e.out[k]
  BY <1>1, <1>3
<1>6. SameEntries(e, q) /\ Keeps(e, q)
  <2>1. SameEntries(e, q)
    BY <1>3 DEF ReferTo, SameEntries
  <2>2. QED
    BY <1>3, <2>1 DEF Keeps, Remembers
<1>7. \A s : (InTraces(q, s) <=> InTraces(e, s)) /\ (InOut(q, s) <=> InOut(e, s) \/ s = x)
  BY <1>3, <1>5 DEF InTraces, InOut
<1>8. Balanced(e, q)
  <2> SUFFICES ASSUME NEW a \in Partition, NEW j \in DOMAIN e.parts[a].entries
               PROVE  LET r == <<a, e.parts[a].entries[j].offset>>
                      IN  q.parts[a].entries[j].refs - Users(q, r) = e.parts[a].entries[j].refs - Users(e, r)
    BY DEF Balanced
  <2> DEFINE r == <<a, e.parts[a].entries[j].offset>>
  <2>1. q.parts[a].entries[j].refs = e.parts[a].entries[j].refs + (IF r \in {Key(x)} THEN 1 ELSE 0)
    BY <1>3 DEF ReferTo
  <2>2. e.parts[a].entries[j].refs \in Int
    BY <1>1, EngineParts
  <2> HIDE DEF r
  <2>3. Count(q.out, r) = Count(e.out, r) + (IF r \in {Key(x)} THEN 1 ELSE 0)
    BY <1>1, <1>3, CountAppend
  <2>4. Count(e.out, r) \in Nat /\ Count(e.traces, r) \in Nat
    BY <1>1, UsersNat
  <2>5. q.parts[a].entries[j].refs - Users(q, r) = e.parts[a].entries[j].refs - Users(e, r)
    BY <1>3, <2>1, <2>2, <2>3, <2>4 DEF Users
  <2>6. QED
    BY <2>5 DEF r
<1>9. Carries(e, q, U, U \ {x})
  BY <1>3, <1>7 DEF Carries
<1>10. TracesShape(q, log)
  BY <1>1, <1>3 DEF TracesShape
<1>11. OutShape(q, log)
  <2>1. OwnRefs(y) /\ \A s \in y.spans : InLog(log, s)
    BY <1>2, <1>3 DEF OwnRefs, Next1
  <2>2. <<y.late[2], y.late[3]>> \in y.refs
    BY <1>3, <1>4
  <2> SUFFICES ASSUME NEW k \in DOMAIN q.out
               PROVE  /\ OwnRefs(q.out[k])
                      /\ \A s \in q.out[k].spans : InLog(log, s)
                      /\ q.out[k].late # <<>> => <<q.out[k].late[2], q.out[k].late[3]>> \in q.out[k].refs
    BY DEF OutShape
  <2>3. CASE k \in DOMAIN e.out
    BY <1>1, <1>5, <2>3 DEF OutShape
  <2>4. CASE k = Len(e.out) + 1
    BY <1>5, <2>1, <2>2, <2>4
  <2>5. QED
    BY <1>5, <2>3, <2>4
<1>12. Referred(q)
  <2>1. \A r : r[1] \in Partition /\ HasEntry(e.parts, r) => HasEntry(q.parts, r)
    BY <1>6, EntryOffsets
  <2>2. HasEntry(q.parts, Key(x))
    BY <1>2, <2>1 DEF Next1
  <2>3. \A j \in DOMAIN e.traces : \A r \in e.traces[j].refs : HasEntry(q.parts, r)
    BY <1>1, <2>1, EngineParts DEF EngineSound, EngineSoundAt, Referred
  <2>4. \A j \in DOMAIN e.out : \A r \in e.out[j].refs : HasEntry(q.parts, r)
    BY <1>1, <2>1, EngineParts DEF EngineSound, EngineSoundAt, Referred
  <2>5. QED
    BY <1>3, <1>5, <2>2, <2>3, <2>4 DEF Referred
<1>13. Decided(q, log, forgotten)
  <2>1. Cached(q, id, TRUE) /\ \A t, b : Cached(q, t, b) <=> Cached(e, t, b)
    BY <1>3 DEF Cached
  <2>2. \A s \in Span : InOut(q, s) => TraceOf(log, s) \in forgotten \cup q.forgot \/ Cached(q, TraceOf(log, s), TRUE)
    BY <1>2, <1>3, <1>7, <2>1 DEF EngineSound, EngineSoundAt, Decided
  <2>3. QED
    BY <1>3, <2>1, <2>2 DEF EngineSound, EngineSoundAt, Decided
<1>14. ~X => Once(q, U \ {x}, P)
  BY <1>2, <1>7 DEF EngineSound, EngineSoundAt, Once, Next1
<1>15. QED
  BY <1>3, <1>6, <1>8, <1>9, <1>10, <1>11, <1>12, <1>13, <1>14, SoundStep DEF x

LEMMA DropSound ==
  ASSUME NEW e, NEW U, NEW P, NEW D, NEW X, EngineSound(e, U, P, D, X), NEW x \in Span,
         Next1(e, U, x), Cached(e, TraceOf(log, x), FALSE), NEW q, q = [e EXCEPT !.dropped = @ \cup {x}]
  PROVE  EngineSound(q, U \ {x}, P, D, X) /\ Keeps(e, q)
<1>1. e \in Engine /\ e.dropped \in SUBSET Span
  BY EngineType DEF EngineSound, EngineSoundAt
<1>2. e.dropped \cup {x} \in SUBSET Span
  BY <1>1
<1> DEFINE S == e.dropped \cup {x}
<1>3. q = [e EXCEPT !.dropped = S]
  BY <1>1 DEF Engine
<1> HIDE DEF S
<1>4. /\ q \in Engine /\ q.out = e.out /\ q.traces = e.traces /\ q.cache = e.cache /\ q.parts = e.parts
      /\ q.dropped = S /\ q.forgot = e.forgot
  BY <1>1, <1>2, <1>3 DEF Engine, S
<1>5. q.dropped = e.dropped \cup {x}
  BY <1>4 DEF S
<1>6. Keeps(e, q)
  BY <1>4, <1>5 DEF Keeps, SameEntries, Remembers
<1>7. \A s : (InTraces(q, s) <=> InTraces(e, s)) /\ (InOut(q, s) <=> InOut(e, s))
  BY <1>4 DEF InTraces, InOut
<1>8. Balanced(e, q)
  BY <1>4 DEF Balanced, Users
<1>9. Carries(e, q, U, U \ {x})
  BY <1>5, <1>7 DEF Carries
<1>10. TracesShape(q, log) /\ OutShape(q, log) /\ Referred(q)
  BY <1>4 DEF EngineSound, EngineSoundAt, TracesShape, OutShape, Referred
<1>11. Decided(q, log, forgotten)
  <2>1. \A t, b : Cached(q, t, b) <=> Cached(e, t, b)
    BY <1>4 DEF Cached
  <2>2. QED
    BY <1>4, <1>5, <1>7, <2>1 DEF EngineSound, EngineSoundAt, Decided, Next1
<1>12. ~X => Once(q, U \ {x}, P)
  BY <1>7 DEF EngineSound, EngineSoundAt, Once
<1>13. QED
  BY <1>4, <1>6, <1>8, <1>9, <1>10, <1>11, <1>12, SoundStep

-----------------------------------------------------------------------------
(* The traces of a set are decided. *)

(* The engines of decideEach, after the first k traces. *)
DecidesAll(e, D, keep, f) ==
    f = [k \in 0..Len(e.traces) |->
           IF k = 0 THEN e
           ELSE IF e.traces[k].id \in D THEN decide(f[k - 1], e.traces[k].id, keep) ELSE f[k - 1]]

LEMMA DecidesAllExists ==
  ASSUME NEW e, NEW D, NEW keep, Len(e.traces) \in Nat
  PROVE  \E f : DecidesAll(e, D, keep, f)
<1> DEFINE N == Len(e.traces)
           G(k, v) == IF e.traces[k].id \in D THEN decide(v, e.traces[k].id, keep) ELSE v
           Ex(n) == \E f : f = [k \in 0..n |-> IF k = 0 THEN e ELSE G(k, f[k - 1])]
           S == {n \in Nat : Ex(n)}
<1> HIDE DEF G
<1>1. 0 \in S
  <2>1. [k \in 0..0 |-> e] = [k \in 0..0 |-> IF k = 0 THEN e ELSE G(k, [j \in 0..0 |-> e][k - 1])]
    OBVIOUS
  <2>2. QED
    BY <2>1
<1>2. \A n \in Nat : n \in S => n + 1 \in S
  <2> SUFFICES ASSUME NEW n \in Nat, Ex(n) PROVE Ex(n + 1)
    <3> HIDE DEF Ex
    <3>1. QED
      OBVIOUS
  <2>0. PICK f : f = [k \in 0..n |-> IF k = 0 THEN e ELSE G(k, f[k - 1])]
    OBVIOUS
  <2> DEFINE g == [k \in 0..(n + 1) |-> IF k = n + 1 THEN G(n + 1, f[n]) ELSE f[k]]
  <2>1. \A k \in 0..(n + 1) : g[k] = IF k = 0 THEN e ELSE G(k, g[k - 1])
    <3> TAKE k \in 0..(n + 1)
    <3>1. CASE k = n + 1
      <4>1. k - 1 = n /\ n \in 0..(n + 1) /\ n # n + 1 /\ k # 0
        BY <3>1
      <4>2. g[k - 1] = f[n]
        BY <4>1
      <4>3. QED
        BY <3>1, <4>1, <4>2
    <3>2. CASE k \in 0..n
      <4>1. g[k] = f[k] /\ f[k] = IF k = 0 THEN e ELSE G(k, f[k - 1])
        BY <2>0, <3>2
      <4>2. k # 0 => k - 1 \in 0..(n + 1) /\ k - 1 # n + 1
        BY <3>2
      <4>3. k # 0 => g[k - 1] = f[k - 1]
        BY <4>2
      <4>4. QED
        BY <4>1, <4>3
    <3>3. QED
      BY <3>1, <3>2
  <2>2. g = [k \in 0..(n + 1) |-> g[k]]
    OBVIOUS
  <2> HIDE DEF g
  <2>3. g = [k \in 0..(n + 1) |-> IF k = 0 THEN e ELSE G(k, g[k - 1])]
    BY <2>1, <2>2
  <2>4. QED
    BY <2>3
<1> HIDE DEF S, Ex
<1>3. N \in S
  BY <1>1, <1>2, SetInduction
<1>4. PICK f : f = [k \in 0..N |-> IF k = 0 THEN e ELSE G(k, f[k - 1])]
  BY <1>3 DEF S, Ex
<1>5. DecidesAll(e, D, keep, f)
  BY <1>4 DEF DecidesAll, G
<1>6. QED
  BY <1>5

LEMMA DecideEachIs ==
  ASSUME NEW e, NEW D, NEW keep, Len(e.traces) \in Nat
  PROVE  \E f : /\ decideEach(e, D, keep) = f[Len(e.traces)]
                /\ f[0] = e
                /\ \A k \in 1..Len(e.traces) :
                     /\ e.traces[k].id \in D => f[k] = decide(f[k - 1], e.traces[k].id, keep)
                     /\ e.traces[k].id \notin D => f[k] = f[k - 1]
<1> DEFINE f == CHOOSE f : DecidesAll(e, D, keep, f)
<1>1. DecidesAll(e, D, keep, f)
  BY DecidesAllExists
<1>2. decideEach(e, D, keep) = f[Len(e.traces)]
  BY DEF decideEach, DecidesAll
<1> HIDE DEF f
<1>3. f[0] = e /\ \A k \in 1..Len(e.traces) :
        f[k] = IF e.traces[k].id \in D THEN decide(f[k - 1], e.traces[k].id, keep) ELSE f[k - 1]
  BY <1>1 DEF DecidesAll
<1>4. QED
  BY <1>2, <1>3

(* q has the traces of e, except for those of D that are among the first k. *)
Leaves(e, q, D, k) ==
    /\ \A j \in DOMAIN e.traces : (e.traces[j].id \notin D \/ j > k) => \E i \in DOMAIN q.traces : q.traces[i] = e.traces[j]
    /\ \A i \in DOMAIN q.traces : \E j \in DOMAIN e.traces : q.traces[i] = e.traces[j] /\ (e.traces[j].id \notin D \/ j > k)

(* q has the traces of e other than id. *)
LeavesBut(e, q, id) ==
    /\ \A i \in DOMAIN q.traces : q.traces[i].id # id /\ \E j \in DOMAIN e.traces : q.traces[i] = e.traces[j]
    /\ \A j \in DOMAIN e.traces : e.traces[j].id # id => \E i \in DOMAIN q.traces : q.traces[i] = e.traces[j]

LEMMA DecideSoundly ==
  ASSUME NEW e, NEW U, NEW P, NEW D, NEW X, EngineSound(e, U, P, D, X), NEW id \in Ids(e.traces), NEW keep \in Verdicts,
         NEW q, q = decide(e, id, keep)
  PROVE  EngineSound(q, U, P, D, X) /\ Keeps(e, q) /\ Known(q) \subseteq Known(e) /\ LeavesBut(e, q, id)
<1>1. e \in Engine /\ TracesShape(e, log) /\ e.traces \in Seq(TraceRec)
  BY EngineType DEF EngineSound, EngineSoundAt
<1>2. Decides(e, q, id, keep[id])
  BY <1>1, DecideEffect DEF TracesShape
<1>3. keep[id] \in BOOLEAN
  <2>1. id \in Trace
    BY <1>1, EngineParts DEF Ids
  <2>2. QED
    BY <2>1 DEF Verdicts
<1> DEFINE b == keep[id]
<1> HIDE DEF b
<1>4. EngineSound(q, U, P, D, X) /\ Keeps(e, q)
  BY <1>1, <1>2, <1>3, DecideSound, DecideKeeps DEF b
<1>5. q.traces = Without(e.traces, id) /\ CacheMoves(e, q, {[id |-> id, keep |-> b]})
  BY <1>2 DEF Decides, b
<1>6. /\ \A i \in DOMAIN q.traces : q.traces[i].id # id /\ \E j \in DOMAIN e.traces : q.traces[i] = e.traces[j]
      /\ \A j \in DOMAIN e.traces : e.traces[j].id # id => \E i \in DOMAIN q.traces : q.traces[i] = e.traces[j]
  BY <1>1, <1>5, WithoutElems DEF TracesShape
<1>7. Ids(q.traces) \subseteq Ids(e.traces)
  BY <1>6 DEF Ids
<1>8. Ids(q.cache) \subseteq Ids(e.cache) \cup {id}
  <2> DEFINE n == [id |-> id, keep |-> b]
  <2>1. n.id = id
    OBVIOUS
  <2>2. \A c \in DOMAIN q.cache : q.cache[c] = n \/ \E d \in DOMAIN e.cache : e.cache[d] = q.cache[c]
    BY <1>5 DEF CacheMoves
  <2> HIDE DEF n
  <2>3. QED
    BY <2>1, <2>2 DEF Ids
<1>9. QED
  BY <1>4, <1>6, <1>7, <1>8 DEF Known, LeavesBut

LEMMA DecideEachSound ==
  ASSUME NEW e, NEW U, NEW P, NEW G, NEW X, EngineSound(e, U, P, G, X), NEW D, NEW keep \in Verdicts,
         NEW q, q = decideEach(e, D, keep)
  PROVE  /\ EngineSound(q, U, P, G, X) /\ Keeps(e, q) /\ Known(q) \subseteq Known(e)
         /\ \A i \in DOMAIN q.traces : q.traces[i].id \notin D /\ \E j \in DOMAIN e.traces : q.traces[i] = e.traces[j]
<1>1. e \in Engine /\ e.traces \in Seq(TraceRec) /\ Len(e.traces) \in Nat /\ DOMAIN e.traces = 1..Len(e.traces)
      /\ Distinct(e.traces)
  BY EngineType DEF EngineSound, EngineSoundAt, TracesShape
<1>2. PICK f : /\ q = f[Len(e.traces)]
               /\ f[0] = e
               /\ \A k \in 1..Len(e.traces) :
                    /\ e.traces[k].id \in D => f[k] = decide(f[k - 1], e.traces[k].id, keep)
                    /\ e.traces[k].id \notin D => f[k] = f[k - 1]
  BY <1>1, DecideEachIs
<1> DEFINE Ok(k) == /\ EngineSound(f[k], U, P, G, X) /\ Keeps(e, f[k]) /\ Known(f[k]) \subseteq Known(e)
                    /\ Leaves(e, f[k], D, k)
           S == {k \in Nat : k <= Len(e.traces) => Ok(k)}
<1>3. 0 \in S
  <2>1. Leaves(e, f[0], D, 0)
    BY <1>1, <1>2 DEF Leaves
  <2>2. Ok(0)
    BY <1>2, <2>1, KeepsSame
  <2>3. QED
    BY <2>2
<1>4. \A n \in Nat : n \in S => n + 1 \in S
  <2> SUFFICES ASSUME NEW n \in Nat, n + 1 <= Len(e.traces), Ok(n) PROVE Ok(n + 1)
    BY <1>1
  <2> DEFINE k == n + 1
             id == e.traces[k].id
  <2>1. k \in DOMAIN e.traces /\ k \in 1..Len(e.traces) /\ k - 1 = n /\ k > n
    BY <1>1
  <2>2. CASE id \notin D
    <3>1. f[k] = f[n]
      BY <1>2, <2>1, <2>2
    <3>2. Leaves(e, f[n], D, k)
      <4>1. \A j \in DOMAIN e.traces : (e.traces[j].id \notin D \/ j > k) => (e.traces[j].id \notin D \/ j > n)
        BY <1>1, <2>1
      <4>2. \A j \in DOMAIN e.traces : (e.traces[j].id \notin D \/ j > n) => (e.traces[j].id \notin D \/ j > k)
        BY <1>1, <2>1, <2>2
      <4>3. QED
        BY <4>1, <4>2 DEF Leaves
    <3>3. QED
      BY <3>1, <3>2
  <2>3. CASE id \in D
    <3>1. f[k] = decide(f[n], id, keep)
      BY <1>2, <2>1, <2>3
    <3>2. id \in Ids(f[n].traces)
      BY <2>1 DEF Leaves, Ids
    <3> HIDE DEF k, id
    <3>3. /\ EngineSound(f[k], U, P, G, X) /\ Keeps(f[n], f[k]) /\ Known(f[k]) \subseteq Known(f[n])
          /\ \A i \in DOMAIN f[k].traces : f[k].traces[i].id # id /\ \E j \in DOMAIN f[n].traces : f[k].traces[i] = f[n].traces[j]
          /\ \A j \in DOMAIN f[n].traces : f[n].traces[j].id # id => \E i \in DOMAIN f[k].traces : f[k].traces[i] = f[n].traces[j]
      <4>1. EngineSound(f[n], U, P, G, X)
        OBVIOUS
      <4> HIDE DEF Ok
      <4>2. EngineSound(f[k], U, P, G, X) /\ Keeps(f[n], f[k]) /\ Known(f[k]) \subseteq Known(f[n]) /\ LeavesBut(f[n], f[k], id)
        BY <3>1, <3>2, <4>1, DecideSoundly
      <4>3. QED
        BY <4>2 DEF LeavesBut
    <3>4. Keeps(e, f[k])
      BY <3>3, KeepsTransitive
    <3>5. Leaves(e, f[k], D, k)
      <4>1. \A j \in DOMAIN e.traces : (e.traces[j].id \notin D \/ j > k) => j # k /\ (e.traces[j].id \notin D \/ j > n)
        BY <1>1, <2>1, <2>3 DEF id, k
      <4>2. \A j \in DOMAIN e.traces : j # k => e.traces[j].id # id
        BY <1>1, <2>1 DEF Distinct, id
      <4>3. \A j \in DOMAIN e.traces : (e.traces[j].id \notin D \/ j > k) => \E i \in DOMAIN f[k].traces : f[k].traces[i] = e.traces[j]
        <5> TAKE j \in DOMAIN e.traces
        <5> HAVE e.traces[j].id \notin D \/ j > k
        <5>1. PICK i \in DOMAIN f[n].traces : f[n].traces[i] = e.traces[j]
          BY <4>1 DEF Leaves
        <5>2. f[n].traces[i].id # id
          BY <4>1, <4>2, <5>1
        <5>3. QED
          BY <3>3, <5>1, <5>2
      <4>4. \A i \in DOMAIN f[k].traces : \E j \in DOMAIN e.traces : f[k].traces[i] = e.traces[j] /\ (e.traces[j].id \notin D \/ j > k)
        <5> TAKE i \in DOMAIN f[k].traces
        <5>1. PICK a \in DOMAIN f[n].traces : f[k].traces[i] = f[n].traces[a] /\ f[k].traces[i].id # id
          BY <3>3
        <5>2. PICK j \in DOMAIN e.traces : f[n].traces[a] = e.traces[j] /\ (e.traces[j].id \notin D \/ j > n)
          BY DEF Leaves
        <5>3. j # k
          BY <5>1, <5>2 DEF id
        <5>4. j > n => j > k
          BY <1>1, <2>1, <5>3
        <5>5. QED
          BY <5>1, <5>2, <5>4
      <4>5. QED
        BY <4>3, <4>4 DEF Leaves
    <3>6. QED
      BY <3>3, <3>4, <3>5 DEF k
  <2>4. QED
    BY <2>2, <2>3
<1> HIDE DEF Ok, S
<1>5. Len(e.traces) \in S
  BY <1>1, <1>3, <1>4, SetInduction
<1>6. Ok(Len(e.traces))
  BY <1>1, <1>5 DEF S
<1>7. EngineSound(q, U, P, G, X) /\ Keeps(e, q) /\ Known(q) \subseteq Known(e) /\ Leaves(e, q, D, Len(e.traces))
  BY <1>2, <1>6 DEF Ok
<1>8. \A i \in DOMAIN q.traces : q.traces[i].id \notin D /\ \E j \in DOMAIN e.traces : q.traces[i] = e.traces[j]
  BY <1>1, <1>7 DEF Leaves
<1>9. QED
  BY <1>7, <1>8

-----------------------------------------------------------------------------
(* addSpan. *)

LEMMA FullSound ==
  ASSUME NEW e, NEW U, NEW P, NEW D, NEW X, EngineSound(e, U, P, D, X), NEW id \in Ids(e.traces), NEW keep \in Verdicts,
         NEW q, q = full(e, id, keep)
  PROVE  EngineSound(q, U, P, D, X) /\ Keeps(e, q)
<1>1. CASE q = e
  BY <1>1, KeepsSame
<1>2. CASE q = decide(e, id, keep)
  BY <1>2, DecideSoundly
<1>3. QED
  BY <1>1, <1>2 DEF full

LEMMA NewTraceSound ==
  ASSUME NEW e, NEW U, NEW P, NEW D, NEW X, EngineSound(e, U, P, D, X), NEW id \in Trace, id \notin Known(e),
         NEW keep \in Verdicts, NEW q, q = newTrace(e, id, keep)
  PROVE  EngineSound(q, U, P, D, X) /\ Keeps(e, q) /\ id \in Ids(q.traces)
<1> DEFINE I == {e.traces[k].id : k \in 1..1}
<1>1. PICK r : q = EmptyTrace(r, id) /\ (r = e \/ r = decideEach(e, I, keep))
  BY DEF newTrace, decideFirst, EmptyTrace
<1> HIDE DEF I
<1>2. EngineSound(r, U, P, D, X) /\ Keeps(e, r) /\ Known(r) \subseteq Known(e)
  <2>1. CASE r = e
    BY <2>1, KeepsSame
  <2>2. CASE r = decideEach(e, I, keep)
    BY <2>2, DecideEachSound
  <2>3. QED
    BY <1>1, <2>1, <2>2
<1>3. id \notin Known(r)
  BY <1>2
<1>4. EngineSound(q, U, P, D, X) /\ Keeps(r, q) /\ id \in Ids(q.traces)
  BY <1>1, <1>2, <1>3, EmptySound
<1>5. QED
  BY <1>2, <1>4, KeepsTransitive

LEMMA Next1Kept ==
  ASSUME NEW e, NEW q, NEW U, NEW x \in Span, Next1(e, U, x), Keeps(e, q)
  PROVE  Next1(q, U, x)
<1>1. Key(x)[1] \in Partition
  BY DEF Key, Span
<1>2. QED
  BY <1>1, EntryOffsets DEF Next1, Keeps

LEMMA JoinSound ==
  ASSUME NEW e, NEW U, NEW P, NEW D, NEW X, EngineSound(e, U, P, D, X),
         NEW p \in Partition, NEW o \in Nat, NEW i \in Nat, Next1(e, U, <<p, o, i>>),
         TraceOf(log, <<p, o, i>>) \in Ids(e.traces), NEW keep \in Verdicts, NEW q,
         q = full(appendSpan(e, TraceOf(log, <<p, o, i>>), p, o, i), TraceOf(log, <<p, o, i>>), keep)
  PROVE  EngineSound(q, U \ {<<p, o, i>>}, P, D, X) /\ Keeps(e, q)
<1> DEFINE x == <<p, o, i>>
           id == TraceOf(log, x)
           a == appendSpan(e, id, p, o, i)
<1>1. PICK k \in DOMAIN e.traces : e.traces[k].id = id
  BY DEF Ids
<1>2. e \in Engine /\ Distinct(e.traces) /\ x \in Span
  BY DEF EngineSound, EngineSoundAt, TracesShape, Span
<1>3. Appends(e, a, k, x)
  BY <1>1, <1>2, AppendEffect
<1>4. Next1(e, U, x) /\ id \in Ids(e.traces) /\ q = full(a, id, keep)
  OBVIOUS
<1> HIDE DEF x, a
<1>5. EngineSound(a, U \ {x}, P, D, X) /\ Keeps(e, a) /\ Ids(a.traces) = Ids(e.traces)
  BY <1>1, <1>2, <1>3, <1>4, AppendSound
<1> HIDE DEF id
<1>6. EngineSound(q, U \ {x}, P, D, X) /\ Keeps(a, q)
  BY <1>4, <1>5, FullSound
<1>7. QED
  BY <1>5, <1>6, KeepsTransitive DEF x

LEMMA LateSound ==
  ASSUME NEW e, NEW U, NEW P, NEW D, NEW X, EngineSound(e, U, P, D, X),
         NEW p \in Partition, NEW o \in Nat, NEW i \in Nat, Next1(e, U, <<p, o, i>>),
         NEW id \in Ids(e.cache), id = TraceOf(log, <<p, o, i>>), NEW q,
         q = IF ById(e.cache, id).keep THEN late(e, id, p, o, i)
                                       ELSE [e EXCEPT !.dropped = @ \cup {<<p, o, i>>}]
  PROVE  EngineSound(q, U \ {<<p, o, i>>}, P, D, X) /\ Keeps(e, q)
<1>1. e \in Engine /\ e.cache \in Seq(CacheRec) /\ <<p, o, i>> \in Span
  BY EngineType DEF EngineSound, EngineSoundAt, Span
<1>2. Index(e.cache, id) \in DOMAIN e.cache /\ ById(e.cache, id) = e.cache[Index(e.cache, id)] /\ ById(e.cache, id).id = id
  BY <1>1, IndexFacts DEF ById
<1>3. id \in Trace /\ ById(e.cache, id).keep \in BOOLEAN
  <2>1. ById(e.cache, id) \in CacheRec
    BY <1>1, <1>2
  <2>2. QED
    BY <1>2, <2>1 DEF CacheRec
<1>4. Cached(e, id, ById(e.cache, id).keep)
  BY <1>2 DEF Cached
<1>5. CASE ById(e.cache, id).keep
  <2>1. q = late(e, id, p, o, i) /\ Cached(e, id, TRUE)
    BY <1>3, <1>4, <1>5
  <2>2. CASE \E k \in DOMAIN e.out : e.out[k].late = <<id, p, o>>
    BY <1>3, <2>1, <2>2, LateJoinSound
  <2>3. CASE ~ \E k \in DOMAIN e.out : e.out[k].late = <<id, p, o>>
    BY <1>3, <2>1, <2>3, LateNewSound
  <2>4. QED
    BY <2>2, <2>3
<1>6. CASE ~ById(e.cache, id).keep
  <2> DEFINE x == <<p, o, i>>
  <2>1. q = [e EXCEPT !.dropped = @ \cup {x}] /\ Cached(e, TraceOf(log, x), FALSE) /\ Next1(e, U, x) /\ x \in Span
    BY <1>1, <1>3, <1>4, <1>6
  <2> HIDE DEF x
  <2>2. QED
    BY <2>1, DropSound DEF x
<1>7. QED
  BY <1>3, <1>5, <1>6

LEMMA AddSpanSound ==
  ASSUME NEW e, NEW U, NEW P, NEW D, NEW X, EngineSound(e, U, P, D, X),
         NEW p \in Partition, NEW o \in Nat, NEW i \in Nat, Next1(e, U, <<p, o, i>>),
         NEW id \in Trace, id = TraceOf(log, <<p, o, i>>), NEW keep \in Verdicts, NEW q,
         q = addSpan(e, id, p, o, i, keep)
  PROVE  EngineSound(q, U \ {<<p, o, i>>}, P, D, X) /\ Keeps(e, q)
<1>1. CASE id \in Ids(e.traces)
  <2>1. q = full(appendSpan(e, id, p, o, i), id, keep)
    BY <1>1 DEF addSpan
  <2>2. QED
    BY <1>1, <2>1, JoinSound
<1>2. CASE id \notin Ids(e.traces) /\ id \in Ids(e.cache)
  <2>1. q = IF ById(e.cache, id).keep THEN late(e, id, p, o, i)
                                      ELSE [e EXCEPT !.dropped = @ \cup {<<p, o, i>>}]
    BY <1>2 DEF addSpan
  <2>2. QED
    BY <1>2, <2>1, LateSound
<1>3. CASE id \notin Ids(e.traces) /\ id \notin Ids(e.cache)
  <2> DEFINE n == newTrace(e, id, keep)
  <2>1. q = full(appendSpan(n, id, p, o, i), id, keep)
    BY <1>3 DEF addSpan
  <2>2. id \notin Known(e)
    BY <1>3 DEF Known
  <2>3. EngineSound(n, U, P, D, X) /\ Keeps(e, n) /\ id \in Ids(n.traces)
    BY <2>2, NewTraceSound
  <2> HIDE DEF n
  <2>4. Next1(n, U, <<p, o, i>>)
    <3>1. <<p, o, i>> \in Span
      BY DEF Span
    <3>2. QED
      BY <2>3, <3>1, Next1Kept
  <2>5. EngineSound(q, U \ {<<p, o, i>>}, P, D, X) /\ Keeps(n, q)
    BY <2>1, <2>3, <2>4, JoinSound
  <2>6. QED
    BY <2>3, <2>5, KeepsTransitive
<1>4. QED
  BY <1>1, <1>2, <1>3

-----------------------------------------------------------------------------
(* The spans of a record. *)

AddsAll(e, p, o, keep, f) ==
    f = [i \in 0..Len(Rec(p, o)) |-> IF i = 0 THEN e ELSE addSpan(f[i - 1], Rec(p, o)[i], p, o, i, keep)]

LEMMA AddsAllExists ==
  ASSUME NEW e, NEW p, NEW o, NEW keep, Len(Rec(p, o)) \in Nat
  PROVE  \E f : AddsAll(e, p, o, keep, f)
<1> DEFINE N == Len(Rec(p, o))
           G(k, v) == addSpan(v, Rec(p, o)[k], p, o, k, keep)
           Ex(n) == \E f : f = [k \in 0..n |-> IF k = 0 THEN e ELSE G(k, f[k - 1])]
           S == {n \in Nat : Ex(n)}
<1> HIDE DEF G
<1>1. 0 \in S
  <2>1. [k \in 0..0 |-> e] = [k \in 0..0 |-> IF k = 0 THEN e ELSE G(k, [j \in 0..0 |-> e][k - 1])]
    OBVIOUS
  <2>2. QED
    BY <2>1
<1>2. \A n \in Nat : n \in S => n + 1 \in S
  <2> SUFFICES ASSUME NEW n \in Nat, Ex(n) PROVE Ex(n + 1)
    <3> HIDE DEF Ex
    <3>1. QED
      OBVIOUS
  <2>0. PICK f : f = [k \in 0..n |-> IF k = 0 THEN e ELSE G(k, f[k - 1])]
    OBVIOUS
  <2> DEFINE g == [k \in 0..(n + 1) |-> IF k = n + 1 THEN G(n + 1, f[n]) ELSE f[k]]
  <2>1. \A k \in 0..(n + 1) : g[k] = IF k = 0 THEN e ELSE G(k, g[k - 1])
    <3> TAKE k \in 0..(n + 1)
    <3>1. CASE k = n + 1
      <4>1. k - 1 = n /\ n \in 0..(n + 1) /\ n # n + 1 /\ k # 0
        BY <3>1
      <4>2. g[k - 1] = f[n]
        BY <4>1
      <4>3. QED
        BY <3>1, <4>1, <4>2
    <3>2. CASE k \in 0..n
      <4>1. g[k] = f[k] /\ f[k] = IF k = 0 THEN e ELSE G(k, f[k - 1])
        BY <2>0, <3>2
      <4>2. k # 0 => k - 1 \in 0..(n + 1) /\ k - 1 # n + 1
        BY <3>2
      <4>3. k # 0 => g[k - 1] = f[k - 1]
        BY <4>2
      <4>4. QED
        BY <4>1, <4>3
    <3>3. QED
      BY <3>1, <3>2
  <2>2. g = [k \in 0..(n + 1) |-> g[k]]
    OBVIOUS
  <2> HIDE DEF g
  <2>3. g = [k \in 0..(n + 1) |-> IF k = 0 THEN e ELSE G(k, g[k - 1])]
    BY <2>1, <2>2
  <2>4. QED
    BY <2>3
<1> HIDE DEF S, Ex
<1>3. N \in S
  BY <1>1, <1>2, SetInduction
<1>4. PICK f : f = [k \in 0..N |-> IF k = 0 THEN e ELSE G(k, f[k - 1])]
  BY <1>3 DEF S, Ex
<1>5. AddsAll(e, p, o, keep, f)
  BY <1>4 DEF AddsAll, G
<1>6. QED
  BY <1>5

LEMMA AddSpansIs ==
  ASSUME NEW e, NEW p, NEW o, NEW keep, Len(Rec(p, o)) \in Nat
  PROVE  \E f : /\ addSpans(e, p, o, keep) = f[Len(Rec(p, o))]
                /\ f[0] = e
                /\ \A i \in 1..Len(Rec(p, o)) : f[i] = addSpan(f[i - 1], Rec(p, o)[i], p, o, i, keep)
<1> DEFINE f == CHOOSE f : AddsAll(e, p, o, keep, f)
<1>1. AddsAll(e, p, o, keep, f)
  BY AddsAllExists
<1>2. addSpans(e, p, o, keep) = f[Len(Rec(p, o))]
  BY DEF addSpans, AddsAll
<1> HIDE DEF f
<1>3. f[0] = e /\ \A i \in 1..Len(Rec(p, o)) : f[i] = addSpan(f[i - 1], Rec(p, o)[i], p, o, i, keep)
  BY <1>1 DEF AddsAll
<1>4. QED
  BY <1>2, <1>3

LEMMA AddSpansSound ==
  ASSUME NEW e, NEW P, NEW D, NEW X, NEW p \in Partition, NEW o \in Nat, NEW keep \in Verdicts,
         log \in [Partition -> Seq(Record)], o < End(p), HasEntry(e.parts, <<p, o>>),
         EngineSound(e, SpansOf(p, o), P, D, X), NEW q, q = addSpans(e, p, o, keep)
  PROVE  EngineSound(q, {}, P, D, X) /\ Keeps(e, q)
<1> DEFINE r == Rec(p, o)
           U(k) == {<<p, o, i>> : i \in (k + 1)..Len(r)}
<1>1. r \in Seq(Trace) /\ Len(r) \in Nat /\ DOMAIN r = 1..Len(r) /\ \A i \in DOMAIN r : r[i] \in Trace
  <2>1. log[p] \in Seq(Record) /\ o + 1 \in DOMAIN log[p]
    BY DEF End
  <2>2. r \in Record
    BY <2>1 DEF Rec
  <2>3. r \in Seq(Trace)
    BY <2>2, SamplingAssumption
  <2> HIDE DEF r
  <2>4. QED
    BY <2>3
<1>2. PICK f : /\ q = f[Len(r)]
               /\ f[0] = e
               /\ \A i \in 1..Len(r) : f[i] = addSpan(f[i - 1], r[i], p, o, i, keep)
  BY <1>1, AddSpansIs
<1> DEFINE Ok(k) == EngineSound(f[k], U(k), P, D, X) /\ Keeps(e, f[k])
           S == {k \in Nat : k <= Len(r) => Ok(k)}
<1>3. 0 \in S
  <2>1. U(0) = SpansOf(p, o)
    BY <1>1 DEF SpansOf
  <2>2. Ok(0)
    BY <1>2, <2>1, KeepsSame
  <2>3. QED
    BY <2>2
<1>4. \A n \in Nat : n \in S => n + 1 \in S
  <2> SUFFICES ASSUME NEW n \in Nat, n + 1 <= Len(r), Ok(n) PROVE Ok(n + 1)
    <3> HIDE DEF Ok, r
    <3>1. QED
      BY <1>1
  <2> DEFINE k == n + 1
             x == <<p, o, k>>
  <2>1. k \in 1..Len(r) /\ k - 1 = n /\ k \in Nat
    <3> HIDE DEF Ok, U, r
    <3>1. QED
      BY <1>1
  <2>2. f[k] = addSpan(f[n], r[k], p, o, k, keep)
    BY <1>2, <2>1
  <2>3. U(k) = U(n) \ {x} /\ x \in U(n)
    BY <1>1, <2>1
  <2>4. InLog(log, x) /\ TraceOf(log, x) = r[k] /\ x \in Span /\ Key(x) = <<p, o>> /\ r[k] \in Trace
    BY <1>1, <2>1 DEF InLog, TraceOf, Span, Key, Rec, End
  <2>5. HasEntry(f[n].parts, <<p, o>>)
    <3>1. <<p, o>>[1] \in Partition
      OBVIOUS
    <3>2. SameEntries(e, f[n])
      BY DEF Keeps
    <3>3. QED
      BY <3>1, <3>2, EntryOffsets
  <2> HIDE DEF U, k, r
  <2>6. Next1(f[n], U(n), x)
    BY <2>3, <2>4, <2>5 DEF Next1
  <2>7. EngineSound(f[k], U(n) \ {x}, P, D, X) /\ Keeps(f[n], f[k])
    BY <2>1, <2>2, <2>4, <2>6, AddSpanSound
  <2>8. Keeps(e, f[k])
    BY <2>7, KeepsTransitive
  <2>9. QED
    BY <2>3, <2>7, <2>8 DEF k
<1> HIDE DEF Ok, S
<1>5. Len(r) \in S
  BY <1>1, <1>3, <1>4, SetInduction
<1>6. Ok(Len(r))
  BY <1>1, <1>5 DEF S
<1>7. U(Len(r)) = {}
  BY <1>1
<1>8. QED
  BY <1>2, <1>6, <1>7 DEF Ok

-----------------------------------------------------------------------------
(* Add: the record gets its entry, then its spans. *)

(* What is referred to has an entry, of a record that was read. *)
LEMMA NoUser ==
  ASSUME NEW e \in Engine, Referred(e), NEW r, ~HasEntry(e.parts, r)
  PROVE  /\ \A k \in DOMAIN e.traces : r \notin e.traces[k].refs
         /\ \A k \in DOMAIN e.out : r \notin e.out[k].refs
         /\ Users(e, r) = 0
<1>1. /\ \A k \in DOMAIN e.traces : r \notin e.traces[k].refs
      /\ \A k \in DOMAIN e.out : r \notin e.out[k].refs
  BY DEF Referred
<1>2. e.traces \in Seq(TraceRec) /\ e.out \in Seq(OutRec)
  BY EngineType
<1>3. Count(e.traces, r) = 0 /\ Count(e.out, r) = 0
  BY <1>1, <1>2, CountFinite
<1>4. QED
  BY <1>1, <1>3 DEF Users

(* A span that is held keeps its record's entry. *)
LEMMA HeldEntry ==
  ASSUME NEW e, TracesShape(e, log), OutShape(e, log), Referred(e), NEW x, InTraces(e, x) \/ InOut(e, x)
  PROVE  HasEntry(e.parts, Key(x)) /\ InLog(log, x) /\ x \in Span
<1>1. CASE InTraces(e, x)
  <2>1. PICK k \in DOMAIN e.traces : x \in e.traces[k].spans
    BY <1>1 DEF InTraces
  <2>2. Key(x) \in e.traces[k].refs /\ InLog(log, x)
    BY <2>1 DEF TracesShape, OwnRefs
  <2>3. QED
    BY <2>2 DEF Referred, InLog
<1>2. CASE InOut(e, x)
  <2>1. PICK k \in DOMAIN e.out : x \in e.out[k].spans
    BY <1>2 DEF InOut
  <2>2. Key(x) \in e.out[k].refs /\ InLog(log, x)
    BY <2>1 DEF OutShape, OwnRefs
  <2>3. QED
    BY <2>2 DEF Referred, InLog
<1>3. QED
  BY <1>1, <1>2

(* The record at o of p was read, the decisions are remembered. *)
Reads(e, q, p, o) ==
    /\ Remembers(e, q) /\ e.dropped \subseteq q.dropped
    /\ \A a \in Partition : a # p =>
         /\ q.parts[a].lastSeen = e.parts[a].lastSeen /\ q.parts[a].committed = e.parts[a].committed
         /\ DOMAIN q.parts[a].entries = DOMAIN e.parts[a].entries
         /\ \A i \in DOMAIN e.parts[a].entries : q.parts[a].entries[i].offset = e.parts[a].entries[i].offset
    /\ q.parts[p].lastSeen = o
    /\ q.parts[p].committed = IF e.parts[p].lastSeen < 0 THEN o ELSE e.parts[p].committed
    /\ \A r : r[1] \in Partition /\ (HasEntry(e.parts, r) \/ r = <<p, o>>) => HasEntry(q.parts, r)

LEMMA ReadsKept ==
  ASSUME NEW e, NEW q, NEW n, NEW p \in Partition, NEW o, Reads(e, q, p, o), Keeps(q, n)
  PROVE  Reads(e, n, p, o)
<1>1. Remembers(e, n)
  <2>1. \A d \in DOMAIN e.cache : e.cache[d].id \in n.forgot \/ \E c \in DOMAIN n.cache : n.cache[c] = e.cache[d]
    <3> TAKE d \in DOMAIN e.cache
    <3>1. e.cache[d].id \in q.forgot \/ \E c \in DOMAIN q.cache : q.cache[c] = e.cache[d]
      BY DEF Reads, Remembers
    <3>2. QED
      BY <3>1 DEF Keeps, Remembers
  <2>2. QED
    BY <2>1 DEF Keeps, Reads, Remembers
<1>2. \A r : r[1] \in Partition /\ (HasEntry(e.parts, r) \/ r = <<p, o>>) => HasEntry(n.parts, r)
  BY EntryOffsets DEF Reads, Keeps
<1>3. QED
  BY <1>1, <1>2 DEF Reads, Keeps, SameEntries

(* The entry of the record at o of p is added to e. *)
Seen(e, q, p, o) ==
    /\ q \in Engine
    /\ q.traces = e.traces /\ q.cache = e.cache /\ q.out = e.out /\ q.dropped = e.dropped /\ q.forgot = e.forgot
    /\ \A a \in Partition : a # p => q.parts[a] = e.parts[a]
    /\ q.parts[p].lastSeen = o
    /\ q.parts[p].committed = IF e.parts[p].lastSeen < 0 THEN o ELSE e.parts[p].committed
    /\ DOMAIN q.parts[p].entries = DOMAIN e.parts[p].entries \cup {Len(e.parts[p].entries) + 1}
    /\ \A i \in DOMAIN e.parts[p].entries : q.parts[p].entries[i] = e.parts[p].entries[i]
    /\ q.parts[p].entries[Len(e.parts[p].entries) + 1].offset = o
    /\ q.parts[p].entries[Len(e.parts[p].entries) + 1].refs = 0

LEMMA SeenEffect ==
  ASSUME NEW e \in Engine, NEW p \in Partition, NEW o \in Nat, NEW q, q = [e EXCEPT !.parts[p] = seen(@, o)]
  PROVE  Seen(e, q, p, o)
<1> DEFINE es == e.parts[p].entries
           x == [offset |-> o, refs |-> 0]
           n == seen(e.parts[p], o)
           ps == [e.parts EXCEPT ![p] = n]
<1>1. e.parts \in [Partition -> Part] /\ es \in Seq(Entry) /\ e.parts[p].committed \in Int
  BY EngineType, EngineParts
<1>2. x \in Entry /\ x.offset = o /\ x.refs = 0
  BY DEF Entry
<1>3. n.entries = Append(es, x) /\ n.lastSeen = o /\ n.committed = IF e.parts[p].lastSeen < 0 THEN o ELSE e.parts[p].committed
  BY DEF seen
<1> DEFINE a == Append(es, x)
           c == IF e.parts[p].lastSeen < 0 THEN o ELSE e.parts[p].committed
<1>4. n = [entries |-> a, lastSeen |-> o, committed |-> c]
  BY DEF seen
<1>5. q = [e EXCEPT !.parts = ps]
  BY <1>1 DEF Engine
<1>6. c \in Int
  BY <1>1
<1> HIDE DEF x, es, n, c
<1>7. a \in Seq(Entry) /\ DOMAIN a = DOMAIN es \cup {Len(es) + 1} /\ a[Len(es) + 1] = x
      /\ \A i \in DOMAIN es : a[i] = es[i]
  BY <1>1, <1>2
<1> HIDE DEF a
<1>8. n \in Part
  BY <1>4, <1>6, <1>7 DEF Part
<1>9. ps \in [Partition -> Part] /\ ps[p] = n /\ \A b \in Partition : b # p => ps[b] = e.parts[b]
  BY <1>1, <1>8
<1> HIDE DEF ps
<1>10. /\ q \in Engine /\ q.parts = ps
       /\ q.traces = e.traces /\ q.cache = e.cache /\ q.out = e.out /\ q.dropped = e.dropped /\ q.forgot = e.forgot
  BY <1>5, <1>9 DEF Engine
<1>11. n.entries = a /\ n.lastSeen = o /\ n.committed = c
  BY <1>4
<1>12. QED
  BY <1>2, <1>7, <1>9, <1>10, <1>11 DEF Seen, es, c

LEMMA SeenReads ==
  ASSUME NEW e \in Engine, NEW p \in Partition, NEW o \in Nat, NEW q, Seen(e, q, p, o)
  PROVE  Reads(e, q, p, o)
<1>1. Remembers(e, q) /\ e.dropped \subseteq q.dropped
  BY DEF Seen, Remembers
<1>2. \A r : r[1] \in Partition /\ (HasEntry(e.parts, r) \/ r = <<p, o>>) => HasEntry(q.parts, r)
  <2> SUFFICES ASSUME NEW r, r[1] \in Partition, HasEntry(e.parts, r) \/ r = <<p, o>> PROVE HasEntry(q.parts, r)
    OBVIOUS
  <2>1. CASE r = <<p, o>>
    <3>1. r[1] = p /\ r[2] = o
      BY <2>1
    <3>2. QED
      BY <3>1 DEF Seen, HasEntry
  <2>2. CASE HasEntry(e.parts, r) /\ r[1] = p
    BY <2>2 DEF Seen, HasEntry
  <2>3. CASE HasEntry(e.parts, r) /\ r[1] # p
    BY <2>3 DEF Seen, HasEntry
  <2>4. QED
    BY <2>1, <2>2, <2>3
<1>3. QED
  BY <1>1, <1>2 DEF Reads, Seen

LEMMA SeenSound ==
  ASSUME NEW e, NEW P, NEW D, NEW X, EngineSound(e, {}, P, D, X), NEW p \in Partition, NEW o \in Nat,
         log \in [Partition -> Seq(Record)], o > e.parts[p].lastSeen, ~X => SpansOf(p, o) \cap P = {}, NEW q, Seen(e, q, p, o)
  PROVE  EngineSound(q, SpansOf(p, o), P, D, X)
<1> DEFINE new == Len(e.parts[p].entries) + 1
           U == SpansOf(p, o)
<1>1. e \in Engine /\ q \in Engine /\ TracesShape(e, log) /\ OutShape(e, log) /\ Referred(e) /\ Ordered(e)
  BY DEF EngineSound, EngineSoundAt, Seen
<1>2. e.parts[p].entries \in Seq(Entry) /\ e.parts[p].lastSeen \in Int
      /\ \A i \in DOMAIN e.parts[p].entries : e.parts[p].entries[i].offset \in Nat
  BY <1>1, EngineParts
<1>3. q.traces = e.traces /\ q.cache = e.cache /\ q.out = e.out /\ q.dropped = e.dropped /\ q.forgot = e.forgot
  BY DEF Seen
<1>4. Reads(e, q, p, o)
  BY <1>1, SeenReads
<1>5. ~HasEntry(e.parts, <<p, o>>)
  <2> SUFFICES ASSUME HasEntry(e.parts, <<p, o>>) PROVE FALSE
    OBVIOUS
  <2>1. PICK i \in DOMAIN e.parts[p].entries : e.parts[p].entries[i].offset = o
    BY DEF HasEntry
  <2>2. o <= e.parts[p].lastSeen
    BY <1>1, <2>1 DEF Ordered
  <2>3. QED
    BY <1>2, <2>2
<1>6. Users(e, <<p, o>>) = 0
  BY <1>1, <1>5, NoUser
<1>7. \A r : Users(q, r) = Users(e, r)
  BY <1>3 DEF Users
<1>8. \A x : (InTraces(q, x) <=> InTraces(e, x)) /\ (InOut(q, x) <=> InOut(e, x))
  BY <1>3 DEF InTraces, InOut
<1>9. TracesShape(q, log) /\ OutShape(q, log)
  BY <1>1, <1>3 DEF TracesShape, OutShape
<1>10. Referred(q)
  <2>1. \A r : r[1] \in Partition /\ HasEntry(e.parts, r) => HasEntry(q.parts, r)
    BY <1>4 DEF Reads
  <2>2. \A j \in DOMAIN e.traces : \A r \in e.traces[j].refs : HasEntry(q.parts, r)
    BY <1>1, <2>1, EngineParts DEF Referred
  <2>3. \A j \in DOMAIN e.out : \A r \in e.out[j].refs : HasEntry(q.parts, r)
    BY <1>1, <2>1, EngineParts DEF Referred
  <2>4. QED
    BY <1>3, <2>2, <2>3 DEF Referred
<1>11. ASSUME NEW a \in Partition, NEW i \in DOMAIN q.parts[a].entries
       PROVE  \/ i \in DOMAIN e.parts[a].entries /\ q.parts[a].entries[i] = e.parts[a].entries[i]
              \/ a = p /\ i = new /\ q.parts[a].entries[i].offset = o /\ q.parts[a].entries[i].refs = 0
  BY DEF Seen
<1>12. Counted(q, GivenUp(D))
  <2> SUFFICES ASSUME NEW a \in Partition, NEW i \in DOMAIN q.parts[a].entries
               PROVE  LET x == q.parts[a].entries[i]
                          r == <<a, x.offset>>
                      IN  x.refs >= Users(q, r) /\ (x.refs = Users(q, r) \/ r \in GivenUp(D))
    BY DEF Counted
  <2>1. CASE i \in DOMAIN e.parts[a].entries /\ q.parts[a].entries[i] = e.parts[a].entries[i]
    BY <1>7, <2>1 DEF EngineSound, EngineSoundAt, Counted
  <2>2. CASE a = p /\ i = new /\ q.parts[a].entries[i].offset = o /\ q.parts[a].entries[i].refs = 0
    BY <1>6, <1>7, <2>2
  <2>3. QED
    BY <1>11, <2>1, <2>2
<1>13. Ordered(q)
  <2> SUFFICES ASSUME NEW a \in Partition
               PROVE  /\ \A i, j \in DOMAIN q.parts[a].entries : i < j => q.parts[a].entries[i].offset < q.parts[a].entries[j].offset
                      /\ \A i \in DOMAIN q.parts[a].entries : q.parts[a].entries[i].offset <= q.parts[a].lastSeen
    BY DEF Ordered
  <2>1. CASE a # p
    <3>1. q.parts[a] = e.parts[a]
      BY <2>1 DEF Seen
    <3>2. QED
      BY <1>1, <3>1 DEF Ordered
  <2>2. CASE a = p
    <3>1. \A i \in DOMAIN e.parts[p].entries : e.parts[p].entries[i].offset < o
      BY <1>1, <1>2, SMTT(30) DEF Ordered
    <3>2. q.parts[p].lastSeen = o /\ DOMAIN q.parts[p].entries = DOMAIN e.parts[p].entries \cup {new}
      BY DEF Seen
    <3>3. \A i \in DOMAIN e.parts[p].entries : i < new
      BY <1>2
    <3>4. \A i \in DOMAIN q.parts[p].entries : q.parts[p].entries[i].offset <= o
      <4> TAKE i \in DOMAIN q.parts[p].entries
      <4>1. CASE i \in DOMAIN e.parts[p].entries /\ q.parts[p].entries[i] = e.parts[p].entries[i]
        BY <1>2, <3>1, <4>1
      <4>2. CASE q.parts[p].entries[i].offset = o
        BY <4>2
      <4>3. QED
        BY <1>11, <4>1, <4>2
    <3>5. \A i, j \in DOMAIN q.parts[p].entries : i < j => q.parts[p].entries[i].offset < q.parts[p].entries[j].offset
      <4> TAKE i, j \in DOMAIN q.parts[p].entries
      <4> HAVE i < j
      <4>1. i \in DOMAIN e.parts[p].entries
        BY <1>2, <3>2, <3>3
      <4>2. q.parts[p].entries[i] = e.parts[p].entries[i]
        BY <4>1 DEF Seen
      <4>3. CASE j \in DOMAIN e.parts[p].entries
        BY <1>1, <4>1, <4>2, <4>3 DEF Ordered, Seen
      <4>4. CASE j = new
        BY <3>1, <4>1, <4>2, <4>4 DEF Seen
      <4>5. QED
        BY <3>2, <4>3, <4>4
    <3>6. QED
      BY <2>2, <3>2, <3>4, <3>5
  <2>3. QED
    BY <2>1, <2>2
<1>14. Settles(q, log, P \cup dropped, U)
  <2> SUFFICES ASSUME NEW a \in Partition, NEW i \in DOMAIN q.parts[a].entries
               PROVE  LET x == q.parts[a].entries[i]
                          r == <<a, x.offset>>
                      IN  \/ x.refs > Users(q, r)
                          \/ \A s \in Span : InLog(log, s) /\ Key(s) = r =>
                               s \in P \cup dropped \/ s \in q.dropped \/ s \in U \/ InTraces(q, s) \/ InOut(q, s)
    BY DEF Settles
  <2>1. CASE i \in DOMAIN e.parts[a].entries /\ q.parts[a].entries[i] = e.parts[a].entries[i]
    <3> DEFINE r == <<a, e.parts[a].entries[i].offset>>
    <3>1. \/ e.parts[a].entries[i].refs > Users(e, r)
          \/ \A s \in Span : InLog(log, s) /\ Key(s) = r =>
               s \in P \cup dropped \/ s \in e.dropped \/ s \in {} \/ InTraces(e, s) \/ InOut(e, s)
      BY <2>1 DEF EngineSound, EngineSoundAt, Settles
    <3> HIDE DEF U
    <3>2. QED
      BY <1>3, <1>7, <1>8, <2>1, <3>1
  <2>2. CASE a = p /\ i = new /\ q.parts[a].entries[i].offset = o /\ q.parts[a].entries[i].refs = 0
    <3>1. \A s \in Span : InLog(log, s) /\ Key(s) = <<p, o>> => s \in U
      <4> SUFFICES ASSUME NEW s \in Span, InLog(log, s), Key(s) = <<p, o>> PROVE s \in U
        OBVIOUS
      <4>1. s = <<p, o, s[3]>> /\ s[1] = p /\ s[2] = o
        BY DEF Span, Key
      <4>2. s[3] \in DOMAIN Rec(p, o)
        BY <4>1 DEF InLog, Rec
      <4>3. QED
        BY <4>1, <4>2 DEF SpansOf
    <3>2. QED
      BY <2>2, <3>1
  <2>3. QED
    BY <1>11, <2>1, <2>2
<1>15. Decided(q, log, forgotten)
  BY <1>3, <1>8 DEF EngineSound, EngineSoundAt, Decided, Cached
<1>16. ~X => Once(q, U, P)
  <2> SUFFICES ASSUME ~X PROVE Once(q, U, P)
    OBVIOUS
  <2>1. Once(e, {}, P)
    BY DEF EngineSound, EngineSoundAt
  <2>2. \A x : InTraces(e, x) \/ InOut(e, x) => x \notin U
    <3> SUFFICES ASSUME NEW x, InTraces(e, x) \/ InOut(e, x), x \in U PROVE FALSE
      OBVIOUS
    <3>1. HasEntry(e.parts, Key(x))
      BY <1>1, HeldEntry
    <3>2. Key(x) = <<p, o>>
      BY DEF Key, SpansOf
    <3>3. QED
      BY <1>5, <3>1, <3>2
  <2> HIDE DEF U
  <2>3. U \cap P = {}
    BY DEF U
  <2>4. QED
    BY <1>8, <2>1, <2>2, <2>3 DEF Once
<1>17. QED
  BY <1>1, <1>9, <1>10, <1>12, <1>13, <1>14, <1>15, <1>16 DEF EngineSound, EngineSoundAt

LEMMA AddSound ==
  ASSUME NEW e, NEW P, NEW D, NEW X, EngineSound(e, {}, P, D, X), NEW p \in Partition, NEW o \in Nat,
         NEW keep \in Verdicts, log \in [Partition -> Seq(Record)], o > e.parts[p].lastSeen, o < End(p),
         ~X => SpansOf(p, o) \cap P = {}, NEW q, q = Add(e, p, o, keep)
  PROVE  EngineSound(q, {}, P, D, X) /\ Reads(e, q, p, o)
<1> DEFINE n == [e EXCEPT !.parts[p] = seen(@, o)]
           a == addSpans(n, p, o, keep)
           D1 == {a.traces[k].id : k \in 1..Excess(a)}
<1>1. e \in Engine /\ e.parts[p].lastSeen \in Int
  BY EngineParts DEF EngineSound, EngineSoundAt
<1>2. q = decideEach(a, D1, keep)
  BY <1>1 DEF Add, decideFirst
<1>3. Seen(e, n, p, o)
  BY <1>1, SeenEffect
<1> HIDE DEF n
<1>4. EngineSound(n, SpansOf(p, o), P, D, X) /\ Reads(e, n, p, o)
  BY <1>1, <1>3, SeenSound, SeenReads
<1>5. HasEntry(n.parts, <<p, o>>)
  <2>1. <<p, o>>[1] \in Partition
    OBVIOUS
  <2>2. QED
    BY <1>4, <2>1 DEF Reads
<1>6. EngineSound(a, {}, P, D, X) /\ Keeps(n, a)
  BY <1>4, <1>5, AddSpansSound
<1> HIDE DEF a, D1
<1>7. EngineSound(q, {}, P, D, X) /\ Keeps(a, q)
  BY <1>2, <1>6, DecideEachSound
<1>8. Keeps(n, q)
  BY <1>6, <1>7, KeepsTransitive
<1>9. QED
  BY <1>4, <1>7, <1>8, ReadsKept

-----------------------------------------------------------------------------
(* What becomes of the outputs. *)

LEMMA SpansAre ==
  ASSUME NEW e, NEW x
  PROVE  x \in Spans(e.out) <=> InOut(e, x)
BY DEF Spans, InOut

(* More spans are in the topic, more outputs are given up. *)
LEMMA SoundLater ==
  ASSUME NEW e, NEW U, NEW P, NEW D, NEW X, EngineSound(e, U, P, D, X),
         NEW Q, P \subseteq Q, NEW E, D \subseteq E, NEW Y, X => Y,
         ~Y => \A x : InTraces(e, x) \/ InOut(e, x) \/ x \in U => x \notin Q
  PROVE  EngineSound(e, U, Q, E, Y)
<1>1. GivenUp(D) \subseteq GivenUp(E)
  BY DEF GivenUp
<1>2. Counted(e, GivenUp(E))
  BY <1>1 DEF EngineSound, EngineSoundAt, Counted
<1>3. Settles(e, log, Q \cup dropped, U)
  BY DEF EngineSound, EngineSoundAt, Settles
<1>4. ~Y => Once(e, U, Q)
  BY DEF EngineSound, EngineSoundAt, Once
<1>5. QED
  BY <1>2, <1>3, <1>4 DEF EngineSound, EngineSoundAt

(* The spans of U reach the topic. *)
LEMMA SoundWritten ==
  ASSUME NEW e, NEW U, NEW P, NEW D, NEW X, EngineSound(e, U, P, D, X)
  PROVE  EngineSound(e, {}, P \cup U, D, X)
<1>1. Settles(e, log, (P \cup U) \cup dropped, {})
  BY DEF EngineSound, EngineSoundAt, Settles
<1>2. ~X => Once(e, {}, P \cup U)
  BY DEF EngineSound, EngineSoundAt, Once
<1>3. QED
  BY <1>1, <1>2 DEF EngineSound, EngineSoundAt

Releases(e, q) ==
    /\ q \in Engine /\ q.out = <<>>
    /\ q.traces = e.traces /\ q.cache = e.cache /\ q.dropped = e.dropped /\ q.forgot = e.forgot
    /\ SameEntries(e, q)
    /\ \A p \in Partition : \A i \in DOMAIN e.parts[p].entries :
         q.parts[p].entries[i].refs = e.parts[p].entries[i].refs - Count(e.out, <<p, e.parts[p].entries[i].offset>>)

LEMMA ReleaseEffect ==
  ASSUME NEW e \in Engine
  PROVE  Releases(e, Release(e))
<1> DEFINE q == Release(e)
           es(p) == [i \in DOMAIN e.parts[p].entries |->
                       [offset |-> e.parts[p].entries[i].offset,
                        refs |-> e.parts[p].entries[i].refs - Count(e.out, <<p, e.parts[p].entries[i].offset>>)]]
           ps == [p \in Partition |-> [e.parts[p] EXCEPT !.entries = es(p)]]
<1>1. q = [e EXCEPT !.out = <<>>, !.parts = ps]
  BY DEF Release
<1>2. ASSUME NEW p \in Partition
      PROVE  /\ es(p) \in Seq(Entry) /\ DOMAIN es(p) = DOMAIN e.parts[p].entries
             /\ \A i \in DOMAIN e.parts[p].entries :
                  /\ es(p)[i].offset = e.parts[p].entries[i].offset
                  /\ es(p)[i].refs = e.parts[p].entries[i].refs - Count(e.out, <<p, e.parts[p].entries[i].offset>>)
  <2>1. e.parts[p].entries \in Seq(Entry)
        /\ \A i \in DOMAIN e.parts[p].entries : e.parts[p].entries[i].offset \in Nat /\ e.parts[p].entries[i].refs \in Int
    BY EngineParts
  <2>2. \A r : Count(e.out, r) \in Nat
    BY UsersNat
  <2>3. \A i \in DOMAIN e.parts[p].entries :
                  /\ es(p)[i] \in Entry
                  /\ es(p)[i].offset = e.parts[p].entries[i].offset
                  /\ es(p)[i].refs = e.parts[p].entries[i].refs - Count(e.out, <<p, e.parts[p].entries[i].offset>>)
    BY <2>1, <2>2, SMTT(30) DEF Entry
  <2>4. DOMAIN e.parts[p].entries = 1..Len(e.parts[p].entries) /\ Len(e.parts[p].entries) \in Nat
    BY <2>1
  <2>5. es(p) \in [1..Len(e.parts[p].entries) -> Entry]
    BY <2>3, <2>4
  <2>6. es(p) \in Seq(Entry)
    BY <2>4, <2>5, SeqDef
  <2>7. QED
    BY <2>3, <2>6
<1> HIDE DEF es
<1>3. ASSUME NEW p \in Partition
      PROVE  ps[p] \in Part /\ ps[p].entries = es(p) /\ ps[p].lastSeen = e.parts[p].lastSeen
             /\ ps[p].committed = e.parts[p].committed
  <2>1. e.parts[p] \in Part
    BY EngineParts
  <2>2. QED
    BY <1>2, <2>1 DEF Part
<1>4. ps \in [Partition -> Part]
  <2>1. ps = [p \in Partition |-> ps[p]]
    OBVIOUS
  <2> HIDE DEF ps
  <2>2. QED
    BY <1>3, <2>1
<1> HIDE DEF ps, q
<1>5. <<>> \in Seq(OutRec)
  OBVIOUS
<1>6. /\ q \in Engine /\ q.out = <<>> /\ q.parts = ps
      /\ q.traces = e.traces /\ q.cache = e.cache /\ q.dropped = e.dropped /\ q.forgot = e.forgot
  BY <1>1, <1>4, <1>5 DEF Engine, OutRec
<1>7. SameEntries(e, q)
  BY <1>2, <1>3, <1>6 DEF SameEntries
<1>8. QED
  BY <1>2, <1>3, <1>6, <1>7 DEF Releases, q

LEMMA NoOutput ==
  ASSUME NEW q, q.out = <<>>
  PROVE  (\A r : Count(q.out, r) = 0) /\ (\A x : ~InOut(q, x)) /\ OutShape(q, log)
<1>1. DOMAIN q.out = {}
  OBVIOUS
<1>2. \A r : {i \in DOMAIN q.out : r \in q.out[i].refs} = {}
  BY <1>1
<1>3. \A r : Count(q.out, r) = 0
  BY <1>2, FS_EmptySet DEF Count
<1>4. QED
  BY <1>1, <1>3 DEF InOut, OutShape

LEMMA ReleaseSound ==
  ASSUME NEW e, NEW P, NEW D, NEW X, EngineSound(e, {}, P, D, X), NEW q, Releases(e, q)
  PROVE  EngineSound(q, {}, P \cup Spans(e.out), D, X) /\ Keeps(e, q)
<1> DEFINE V == Spans(e.out)
<1>1. e \in Engine /\ q \in Engine /\ q.out = <<>>
      /\ q.traces = e.traces /\ q.cache = e.cache /\ q.dropped = e.dropped /\ q.forgot = e.forgot
      /\ SameEntries(e, q)
  BY DEF EngineSound, EngineSoundAt, Releases
<1>2. (\A r : Count(q.out, r) = 0) /\ (\A x : ~InOut(q, x)) /\ OutShape(q, log)
  BY <1>1, NoOutput
<1>3. \A x : x \in V <=> InOut(e, x)
  BY SpansAre
<1>4. \A x : InTraces(q, x) <=> InTraces(e, x)
  BY <1>1 DEF InTraces
<1> HIDE DEF V
<1>5. Keeps(e, q)
  BY <1>1 DEF Keeps, Remembers
<1>6. Balanced(e, q)
  <2> SUFFICES ASSUME NEW p \in Partition, NEW i \in DOMAIN e.parts[p].entries
               PROVE  LET r == <<p, e.parts[p].entries[i].offset>>
                      IN  q.parts[p].entries[i].refs - Users(q, r) = e.parts[p].entries[i].refs - Users(e, r)
    BY DEF Balanced
  <2> DEFINE r == <<p, e.parts[p].entries[i].offset>>
  <2>1. q.parts[p].entries[i].refs = e.parts[p].entries[i].refs - Count(e.out, r)
    BY DEF Releases
  <2>2. e.parts[p].entries[i].refs \in Int
    BY <1>1, EngineParts
  <2> HIDE DEF r
  <2>3. Count(e.out, r) \in Nat /\ Count(e.traces, r) \in Nat
    BY <1>1, UsersNat
  <2>4. Users(q, r) = Count(e.traces, r) /\ Users(e, r) = Count(e.traces, r) + Count(e.out, r)
    BY <1>1, <1>2, <2>3 DEF Users
  <2>5. q.parts[p].entries[i].refs - Users(q, r) = e.parts[p].entries[i].refs - Users(e, r)
    BY <2>1, <2>2, <2>3, <2>4
  <2>6. QED
    BY <2>5 DEF r
<1>7. Carries(e, q, {}, V)
  BY <1>1, <1>3, <1>4 DEF Carries
<1>8. TracesShape(q, log)
  BY <1>1 DEF EngineSound, EngineSoundAt, TracesShape
<1>9. Referred(q)
  <2>1. \A r : r[1] \in Partition /\ HasEntry(e.parts, r) => HasEntry(q.parts, r)
    BY <1>1, EntryOffsets
  <2>2. \A j \in DOMAIN e.traces : \A r \in e.traces[j].refs : HasEntry(q.parts, r)
    BY <1>1, <2>1, EngineParts DEF EngineSound, EngineSoundAt, Referred
  <2>3. DOMAIN q.out = {}
    BY <1>1
  <2>4. QED
    BY <1>1, <2>2, <2>3 DEF Referred
<1>10. Decided(q, log, forgotten)
  BY <1>1, <1>2 DEF EngineSound, EngineSoundAt, Decided, Cached
<1>11. ~X => Once(q, V, P)
  BY <1>2, <1>3, <1>4 DEF EngineSound, EngineSoundAt, Once
<1>12. EngineSound(q, V, P, D, X)
  BY <1>1, <1>2, <1>5, <1>6, <1>7, <1>8, <1>9, <1>10, <1>11, SoundStep
<1>13. EngineSound(q, {}, P \cup V, D, X)
  BY <1>12, SoundWritten
<1>14. QED
  BY <1>5, <1>13 DEF V

(* The outputs are given up, their records keep their counts. *)
GiveUp(e) == [e EXCEPT !.out = <<>>]

LEMMA GiveUpSound ==
  ASSUME NEW e, NEW P, NEW D, NEW X, EngineSound(e, {}, P, D, X), NEW q, q = GiveUp(e)
  PROVE  EngineSound(q, {}, P, D \cup Spans(e.out), TRUE) /\ Keeps(e, q) /\ q.out = <<>> /\ q.traces = e.traces
<1>1. e \in Engine
  BY DEF EngineSound, EngineSoundAt
<1>2. q \in Engine /\ q.out = <<>> /\ q.traces = e.traces /\ q.cache = e.cache /\ q.parts = e.parts
      /\ q.dropped = e.dropped /\ q.forgot = e.forgot
  <2>1. <<>> \in Seq(OutRec) /\ q = [e EXCEPT !.out = <<>>]
    BY DEF GiveUp
  <2>2. QED
    BY <1>1, <2>1 DEF Engine, OutRec
<1>3. (\A r : Count(q.out, r) = 0) /\ (\A x : ~InOut(q, x)) /\ OutShape(q, log)
  BY <1>2, NoOutput
<1>4. \A x : InTraces(q, x) <=> InTraces(e, x)
  BY <1>2 DEF InTraces
<1>5. Keeps(e, q)
  BY <1>2 DEF Keeps, SameEntries, Remembers
<1>6. TracesShape(q, log) /\ Ordered(q)
  BY <1>2 DEF EngineSound, EngineSoundAt, TracesShape, Ordered
<1>7. Referred(q)
  <2>1. DOMAIN q.out = {}
    BY <1>2
  <2>2. QED
    BY <1>2, <2>1 DEF EngineSound, EngineSoundAt, Referred
<1>8. Decided(q, log, forgotten)
  BY <1>2, <1>3 DEF EngineSound, EngineSoundAt, Decided, Cached
<1>9. \A r : /\ Count(e.out, r) \in Nat /\ Count(e.traces, r) \in Nat
             /\ Users(q, r) = Count(e.traces, r) /\ Users(e, r) = Count(e.traces, r) + Count(e.out, r)
  BY <1>1, <1>2, <1>3, UsersNat DEF Users
<1>10. \A r : Count(e.out, r) # 0 => \E x : InOut(e, x) /\ Key(x) = r
  <2> SUFFICES ASSUME NEW r, Count(e.out, r) # 0 PROVE \E x : InOut(e, x) /\ Key(x) = r
    OBVIOUS
  <2>1. e.out \in Seq(OutRec)
    BY <1>1, EngineType
  <2>2. PICK k \in DOMAIN e.out : r \in e.out[k].refs
    BY <2>1, CountFinite
  <2>3. PICK x \in e.out[k].spans : Key(x) = r
    BY <2>2 DEF EngineSound, EngineSoundAt, OutShape, OwnRefs
  <2>4. QED
    BY <2>3 DEF InOut
<1>11. Counted(q, GivenUp(D \cup Spans(e.out)))
  <2> SUFFICES ASSUME NEW p \in Partition, NEW i \in DOMAIN e.parts[p].entries
               PROVE  LET x == e.parts[p].entries[i]
                          r == <<p, x.offset>>
                      IN  x.refs >= Users(q, r) /\ (x.refs = Users(q, r) \/ r \in GivenUp(D \cup Spans(e.out)))
    BY <1>2 DEF Counted
  <2> DEFINE r == <<p, e.parts[p].entries[i].offset>>
             c == e.parts[p].entries[i].refs
  <2>1. c >= Users(e, r) /\ (c = Users(e, r) \/ r \in GivenUp(D)) /\ c \in Int
    BY <1>1, EngineParts DEF EngineSound, EngineSoundAt, Counted
  <2> HIDE DEF r, c
  <2>2. c >= Users(q, r)
    BY <1>9, <2>1
  <2>3. CASE Count(e.out, r) = 0
    <3>1. c = Users(q, r) \/ r \in GivenUp(D)
      BY <1>9, <2>1, <2>3
    <3>2. QED
      BY <2>2, <3>1 DEF GivenUp, r, c
  <2>4. CASE Count(e.out, r) # 0
    <3>1. PICK x : x \in Spans(e.out) /\ Key(x) = r
      BY <1>10, <2>4, SpansAre
    <3>2. r \in GivenUp(D \cup Spans(e.out))
      BY <3>1 DEF GivenUp
    <3>3. QED
      BY <2>2, <3>2 DEF r, c
  <2>5. QED
    BY <2>3, <2>4
<1>12. Settles(q, log, P \cup dropped, {})
  <2> SUFFICES ASSUME NEW p \in Partition, NEW i \in DOMAIN e.parts[p].entries
               PROVE  LET x == e.parts[p].entries[i]
                          r == <<p, x.offset>>
                      IN  \/ x.refs > Users(q, r)
                          \/ \A s \in Span : InLog(log, s) /\ Key(s) = r =>
                               s \in P \cup dropped \/ s \in q.dropped \/ s \in {} \/ InTraces(q, s) \/ InOut(q, s)
    BY <1>2 DEF Settles
  <2> DEFINE r == <<p, e.parts[p].entries[i].offset>>
             c == e.parts[p].entries[i].refs
  <2>1. c >= Users(e, r) /\ c \in Int
    BY <1>1, EngineParts DEF EngineSound, EngineSoundAt, Counted
  <2>2. \/ c > Users(e, r)
        \/ \A s \in Span : InLog(log, s) /\ Key(s) = r =>
             s \in P \cup dropped \/ s \in e.dropped \/ s \in {} \/ InTraces(e, s) \/ InOut(e, s)
    BY DEF EngineSound, EngineSoundAt, Settles
  <2> HIDE DEF r, c
  <2>3. CASE c > Users(e, r) \/ Count(e.out, r) # 0
    <3>1. c > Users(q, r)
      BY <1>9, <2>1, <2>3
    <3>2. QED
      BY <3>1 DEF r, c
  <2>4. CASE Count(e.out, r) = 0 /\ ~(c > Users(e, r))
    <3>1. \A s : InOut(e, s) => Key(s) # r
      <4> SUFFICES ASSUME NEW s, InOut(e, s), Key(s) = r PROVE FALSE
        OBVIOUS
      <4>1. PICK k \in DOMAIN e.out : s \in e.out[k].spans
        BY DEF InOut
      <4>2. r \in e.out[k].refs
        BY <4>1 DEF EngineSound, EngineSoundAt, OutShape, OwnRefs
      <4>3. e.out \in Seq(OutRec)
        BY <1>1, EngineType
      <4>4. QED
        BY <2>4, <4>2, <4>3, CountFinite
    <3>2. \A s \in Span : InLog(log, s) /\ Key(s) = r =>
             s \in P \cup dropped \/ s \in q.dropped \/ s \in {} \/ InTraces(q, s) \/ InOut(q, s)
      BY <1>2, <1>4, <2>2, <2>4, <3>1
    <3>3. QED
      BY <3>2 DEF r
  <2>5. QED
    BY <2>3, <2>4
<1>13. QED
  BY <1>2, <1>3, <1>5, <1>6, <1>7, <1>8, <1>11, <1>12 DEF EngineSound, EngineSoundAt

(* A process that ends forgets what it knew. *)
LEMMA EndedSound ==
  ASSUME NEW e, NEW P, NEW D, NEW X, EngineSound(e, {}, P, D, X), NEW q, q = Ended(e)
  PROVE  EngineSound(q, {}, P, D, X) /\ Remembers(e, q) /\ e.dropped \subseteq q.dropped /\ q.parts = NewEngine.parts
<1>1. e \in Engine /\ e.dropped \in SUBSET Span /\ e.forgot \in SUBSET Trace /\ e.cache \in Seq(CacheRec)
  BY EngineType DEF EngineSound, EngineSoundAt
<1>2. Known(e) \in SUBSET Trace
  <2>1. \A c \in DOMAIN e.cache : e.cache[c] \in CacheRec
    BY <1>1
  <2>2. QED
    BY <1>1, <2>1, EngineParts DEF Known, Ids, CacheRec
<1>3. NewPart \in Part
  BY DEF NewPart, Part
<1> DEFINE n == [p \in Partition |-> NewPart]
<1>4. q = [traces |-> <<>>, cache |-> <<>>, out |-> <<>>, parts |-> n,
           dropped |-> e.dropped, forgot |-> e.forgot \cup Known(e)]
  BY DEF Ended, NewEngine
<1>5. n \in [Partition -> Part] /\ n = NewEngine.parts
  BY <1>3 DEF NewEngine
<1>6. \A p \in Partition : n[p].entries = <<>>
  BY DEF NewPart
<1> HIDE DEF n
<1>7. q.traces = <<>> /\ q.cache = <<>> /\ q.out = <<>> /\ q.parts = n /\ q.dropped = e.dropped /\ q.forgot = e.forgot \cup Known(e)
  BY <1>4
<1>8. q \in Engine
  <2>1. <<>> \in Seq(TraceRec) /\ <<>> \in Seq(CacheRec) /\ <<>> \in Seq(OutRec)
    OBVIOUS
  <2>2. e.forgot \cup Known(e) \in SUBSET Trace
    BY <1>1, <1>2
  <2>3. QED
    BY <1>1, <1>4, <1>5, <2>1, <2>2 DEF Engine, TraceRec, CacheRec, OutRec
<1>9. DOMAIN q.traces = {} /\ DOMAIN q.cache = {} /\ DOMAIN q.out = {}
      /\ \A p \in Partition : DOMAIN q.parts[p].entries = {}
  BY <1>6, <1>7
<1>10. TracesShape(q, log) /\ OutShape(q, log) /\ Referred(q) /\ Counted(q, GivenUp(D)) /\ Ordered(q)
       /\ Settles(q, log, P \cup dropped, {})
  BY <1>9 DEF TracesShape, OutShape, Referred, Counted, Ordered, Settles, Distinct
<1>11. \A t, b : Cached(e, t, b) => t \in q.forgot
  BY <1>7 DEF Cached, Known, Ids
<1>12. Decided(q, log, forgotten)
  <2>1. \A x : ~InOut(q, x)
    BY <1>9 DEF InOut
  <2>2. QED
    BY <1>7, <1>11, <2>1 DEF EngineSound, EngineSoundAt, Decided
<1>13. Once(q, {}, P)
  BY <1>9 DEF Once, InTraces, InOut
<1>14. Remembers(e, q)
  BY <1>7 DEF Remembers, Known, Ids
<1>15. QED
  BY <1>5, <1>7, <1>8, <1>10, <1>12, <1>13, <1>14 DEF EngineSound, EngineSoundAt

-----------------------------------------------------------------------------
(* CommitOffsets. *)

LEMMA SettledFacts ==
  ASSUME NEW ps \in Part
  PROVE  /\ Settled(ps) \in 0..Len(ps.entries) /\ Len(ps.entries) \in Nat /\ DOMAIN ps.entries = 1..Len(ps.entries)
         /\ \A i \in DOMAIN ps.entries : i <= Settled(ps) => ~(ps.entries[i].refs > 0)
         /\ Settled(ps) < Len(ps.entries) => ps.entries[Settled(ps) + 1].refs > 0
<1> DEFINE held == {i \in DOMAIN ps.entries : ps.entries[i].refs > 0}
<1>1. Len(ps.entries) \in Nat /\ DOMAIN ps.entries = 1..Len(ps.entries)
  BY DEF Part
<1>2. CASE held = {}
  <2>1. Settled(ps) = Len(ps.entries)
    BY <1>2 DEF Settled
  <2>2. QED
    BY <1>1, <1>2, <2>1
<1>3. CASE held # {}
  <2>1. PICK k \in held : \A j \in held : k <= j
    <3>1. held \subseteq Nat
      BY <1>1
    <3> HIDE DEF held
    <3>2. QED
      BY <1>3, <3>1, LeastMember
  <2> DEFINE c == CHOOSE i \in held : \A j \in held : i <= j
  <2>2. c \in held /\ \A j \in held : c <= j
    BY <2>1
  <2>3. Settled(ps) = c - 1
    BY <1>3 DEF Settled
  <2> HIDE DEF c
  <2>4. QED
    BY <1>1, <2>2, <2>3
<1>4. QED
  BY <1>2, <1>3

(* A record that is not held back is handled, and nothing refers to it. *)
LEMMA SettledHandled ==
  ASSUME NEW e, NEW P, NEW D, NEW X, EngineSound(e, {}, P, D, X), NEW p \in Partition, NEW i \in DOMAIN e.parts[p].entries,
         ~(e.parts[p].entries[i].refs > 0), NEW r, r = <<p, e.parts[p].entries[i].offset>>
  PROVE  /\ Users(e, r) = 0
         /\ \A k \in DOMAIN e.traces : r \notin e.traces[k].refs
         /\ \A k \in DOMAIN e.out : r \notin e.out[k].refs
         /\ \A s \in Span : InLog(log, s) /\ Key(s) = r => s \in P \cup dropped \cup e.dropped
<1> DEFINE c == e.parts[p].entries[i].refs
<1>1. e \in Engine /\ c \in Int
  BY EngineParts DEF EngineSound, EngineSoundAt
<1>2. Users(e, r) \in Nat /\ Count(e.traces, r) \in Nat /\ Count(e.out, r) \in Nat
  BY <1>1, UsersNat
<1>3. c >= Users(e, r)
  BY DEF EngineSound, EngineSoundAt, Counted
<1>4. \/ c > Users(e, r)
      \/ \A s \in Span : InLog(log, s) /\ Key(s) = r =>
           s \in P \cup dropped \/ s \in e.dropped \/ s \in {} \/ InTraces(e, s) \/ InOut(e, s)
  BY DEF EngineSound, EngineSoundAt, Settles
<1>5. ~(c > 0)
  OBVIOUS
<1> HIDE DEF c
<1>6. Users(e, r) = 0 /\ ~(c > Users(e, r))
  BY <1>1, <1>2, <1>3, <1>5
<1>7. Count(e.traces, r) = 0 /\ Count(e.out, r) = 0
  BY <1>2, <1>6 DEF Users
<1>8. e.traces \in Seq(TraceRec) /\ e.out \in Seq(OutRec)
  BY <1>1, EngineType
<1>9. (\A k \in DOMAIN e.traces : r \notin e.traces[k].refs) /\ (\A k \in DOMAIN e.out : r \notin e.out[k].refs)
  BY <1>7, <1>8, CountFinite
<1>10. \A s : Key(s) = r => ~InTraces(e, s) /\ ~InOut(e, s)
  <2> SUFFICES ASSUME NEW s, Key(s) = r PROVE ~InTraces(e, s) /\ ~InOut(e, s)
    OBVIOUS
  <2>1. ~InTraces(e, s)
    BY <1>9 DEF EngineSound, EngineSoundAt, TracesShape, OwnRefs, InTraces
  <2>2. ~InOut(e, s)
    BY <1>9 DEF EngineSound, EngineSoundAt, OutShape, OwnRefs, InOut
  <2>3. QED
    BY <2>1, <2>2
<1>11. QED
  BY <1>4, <1>6, <1>9, <1>10

LEMMA NextFacts ==
  ASSUME NEW e \in Engine, Ordered(e), NEW p \in Partition
  PROVE  LET ps == e.parts[p] IN
         /\ nextOffset(ps) \in Int /\ nextOffset(ps) <= ps.lastSeen + 1
         /\ \A i \in DOMAIN ps.entries : ps.entries[i].offset < nextOffset(ps) => i <= Settled(ps)
         /\ ps.lastSeen >= 0 => nextOffset(ps) \in Nat
         /\ Settled(ps) = Len(ps.entries) => nextOffset(ps) = ps.lastSeen + 1
<1> DEFINE ps == e.parts[p]
           n == Settled(ps)
<1>1. ps \in Part /\ ps.lastSeen \in Int /\ \A i \in DOMAIN ps.entries : ps.entries[i].offset \in Nat
  BY EngineParts
<1>2. n \in 0..Len(ps.entries) /\ Len(ps.entries) \in Nat /\ DOMAIN ps.entries = 1..Len(ps.entries)
  BY <1>1, SettledFacts
<1>3. /\ \A i, j \in DOMAIN ps.entries : i < j => ps.entries[i].offset < ps.entries[j].offset
      /\ \A i \in DOMAIN ps.entries : ps.entries[i].offset <= ps.lastSeen
  BY DEF Ordered
<1>4. nextOffset(ps) = IF n < Len(ps.entries) THEN ps.entries[n + 1].offset ELSE ps.lastSeen + 1
  BY DEF nextOffset
<1> HIDE DEF ps, n
<1>5. CASE n < Len(ps.entries)
  <2>1. n + 1 \in DOMAIN ps.entries /\ nextOffset(ps) = ps.entries[n + 1].offset
    BY <1>2, <1>4, <1>5
  <2>2. nextOffset(ps) \in Nat /\ nextOffset(ps) <= ps.lastSeen
    BY <1>1, <1>3, <2>1
  <2>3. \A i \in DOMAIN ps.entries : ps.entries[i].offset < nextOffset(ps) => i <= n
    <3> SUFFICES ASSUME NEW i \in DOMAIN ps.entries, ps.entries[i].offset < nextOffset(ps), i > n PROVE FALSE
      BY <1>2
    <3>1. i = n + 1 \/ n + 1 < i
      BY <1>2
    <3>2. nextOffset(ps) <= ps.entries[i].offset
      BY <1>1, <1>3, <2>1, <3>1
    <3>3. QED
      BY <1>1, <2>2, <3>2
  <2>4. QED
    BY <1>1, <1>2, <1>5, <2>2, <2>3 DEF ps, n
<1>6. CASE n = Len(ps.entries)
  <2>1. nextOffset(ps) = ps.lastSeen + 1
    BY <1>2, <1>4, <1>6
  <2>2. QED
    BY <1>1, <1>2, <1>6, <2>1 DEF ps, n
<1>7. QED
  BY <1>2, <1>5, <1>6

Commits(e, q, Q) ==
    /\ q \in Engine
    /\ q.traces = e.traces /\ q.cache = e.cache /\ q.out = e.out /\ q.dropped = e.dropped /\ q.forgot = e.forgot
    /\ \A p \in Partition : p \notin Q => q.parts[p] = e.parts[p]
    /\ \A p \in Partition : p \in Q =>
         /\ q.parts[p].lastSeen = e.parts[p].lastSeen
         /\ q.parts[p].committed = IF p \in Advanced(e, Q) THEN nextOffset(e.parts[p]) ELSE e.parts[p].committed
         /\ DOMAIN q.parts[p].entries = 1..(Len(e.parts[p].entries) - Settled(e.parts[p]))
         /\ \A i \in DOMAIN q.parts[p].entries :
              /\ i + Settled(e.parts[p]) \in DOMAIN e.parts[p].entries
              /\ q.parts[p].entries[i] = e.parts[p].entries[i + Settled(e.parts[p])]

LEMMA CommitEffect ==
  ASSUME NEW e \in Engine, Ordered(e), NEW Q, NEW q, q = CommitOffsets(e, Q)
  PROVE  Commits(e, q, Q)
<1> DEFINE es(p) == SubSeq(e.parts[p].entries, Settled(e.parts[p]) + 1, Len(e.parts[p].entries))
           c(p) == IF p \in Advanced(e, Q) THEN nextOffset(e.parts[p]) ELSE e.parts[p].committed
           ps == [p \in Partition |-> IF p \in Q THEN [e.parts[p] EXCEPT !.entries = es(p), !.committed = c(p)]
                                                 ELSE e.parts[p]]
<1>1. q = [e EXCEPT !.parts = ps]
  <2> DEFINE f(p) == [e.parts[p] EXCEPT !.entries = SubSeq(@, Settled(e.parts[p]) + 1, Len(@)),
                                        !.committed = IF p \in Advanced(e, Q) THEN nextOffset(e.parts[p]) ELSE @]
  <2>1. q = [e EXCEPT !.parts = [p \in Partition |-> IF p \in Q THEN f(p) ELSE e.parts[p]]]
    BY DEF CommitOffsets
  <2>2. \A p \in Partition : f(p) = [e.parts[p] EXCEPT !.entries = es(p), !.committed = c(p)]
    <3> TAKE p \in Partition
    <3>1. e.parts[p] \in Part
      BY EngineParts
    <3>2. QED
      BY <3>1 DEF Part
  <2> HIDE DEF f, es, c
  <2>3. QED
    BY <2>1, <2>2
<1>2. ASSUME NEW p \in Partition
      PROVE  /\ es(p) \in Seq(Entry) /\ c(p) \in Int
             /\ DOMAIN es(p) = 1..(Len(e.parts[p].entries) - Settled(e.parts[p]))
             /\ \A i \in DOMAIN es(p) : /\ i + Settled(e.parts[p]) \in DOMAIN e.parts[p].entries
                                        /\ es(p)[i] = e.parts[p].entries[i + Settled(e.parts[p])]
  <2>1. e.parts[p] \in Part /\ e.parts[p].entries \in Seq(Entry) /\ e.parts[p].committed \in Int
    BY EngineParts
  <2>2. nextOffset(e.parts[p]) \in Int
    BY NextFacts
  <2> DEFINE n == Settled(e.parts[p])
             s == e.parts[p].entries
  <2>3. n \in 0..Len(s) /\ Len(s) \in Nat
    BY <2>1, SettledFacts
  <2>4. s \in Seq(Entry) /\ es(p) = SubSeq(s, n + 1, Len(s))
    BY <2>1
  <2> HIDE DEF n, s
  <2>5. /\ SubSeq(s, n + 1, Len(s)) \in Seq(Entry)
        /\ DOMAIN SubSeq(s, n + 1, Len(s)) = 1..(Len(s) - n)
        /\ \A i \in 1..(Len(s) - n) : i + n \in DOMAIN s /\ SubSeq(s, n + 1, Len(s))[i] = s[i + n]
    BY <2>3, <2>4
  <2> HIDE DEF es
  <2>6. QED
    BY <2>1, <2>2, <2>4, <2>5 DEF n, s
<1> HIDE DEF es, c
<1>3. ASSUME NEW p \in Partition
      PROVE  /\ ps[p] \in Part
             /\ p \notin Q => ps[p] = e.parts[p]
             /\ p \in Q => ps[p].entries = es(p) /\ ps[p].lastSeen = e.parts[p].lastSeen /\ ps[p].committed = c(p)
  <2>1. e.parts[p] \in Part
    BY EngineParts
  <2>2. CASE p \in Q
    BY <1>2, <2>1, <2>2 DEF Part
  <2>3. CASE p \notin Q
    BY <2>1, <2>3
  <2>4. QED
    BY <2>2, <2>3
<1>4. ps \in [Partition -> Part]
  <2>1. ps = [p \in Partition |-> ps[p]]
    OBVIOUS
  <2> HIDE DEF ps
  <2>2. QED
    BY <1>3, <2>1
<1> HIDE DEF ps
<1>5. /\ q \in Engine /\ q.parts = ps
      /\ q.traces = e.traces /\ q.cache = e.cache /\ q.out = e.out /\ q.dropped = e.dropped /\ q.forgot = e.forgot
  BY <1>1, <1>4 DEF Engine
<1>6. QED
  BY <1>2, <1>3, <1>5 DEF Commits, c

(* The entries of q are entries of e; e's others are not referred to. *)
Trims(e, q) ==
    /\ q \in Engine
    /\ q.traces = e.traces /\ q.cache = e.cache /\ q.out = e.out /\ q.dropped = e.dropped /\ q.forgot = e.forgot
    /\ \A p \in Partition : \A i \in DOMAIN q.parts[p].entries :
         \E k \in DOMAIN e.parts[p].entries : q.parts[p].entries[i] = e.parts[p].entries[k]
    /\ \A r \in Partition \X Nat : HasEntry(e.parts, r) =>
         \/ HasEntry(q.parts, r)
         \/ /\ \A k \in DOMAIN e.traces : r \notin e.traces[k].refs
            /\ \A k \in DOMAIN e.out : r \notin e.out[k].refs

LEMMA TrimSound ==
  ASSUME NEW e, NEW P, NEW D, NEW X, EngineSound(e, {}, P, D, X), NEW q, Trims(e, q), Ordered(q)
  PROVE  EngineSound(q, {}, P, D, X) /\ Remembers(e, q) /\ e.dropped \subseteq q.dropped
<1>1. e \in Engine /\ q \in Engine
      /\ q.traces = e.traces /\ q.cache = e.cache /\ q.out = e.out /\ q.dropped = e.dropped /\ q.forgot = e.forgot
  BY DEF EngineSound, EngineSoundAt, Trims
<1>2. TracesShape(q, log) /\ OutShape(q, log) /\ Decided(q, log, forgotten)
  BY <1>1 DEF EngineSound, EngineSoundAt, TracesShape, OutShape, Decided, InOut, Cached
<1>3. Referred(q)
  <2>1. \A j \in DOMAIN e.traces : \A r \in e.traces[j].refs : HasEntry(q.parts, r)
    BY <1>1, EngineParts DEF EngineSound, EngineSoundAt, Referred, Trims
  <2>2. \A j \in DOMAIN e.out : \A r \in e.out[j].refs : HasEntry(q.parts, r)
    BY <1>1, EngineParts DEF EngineSound, EngineSoundAt, Referred, Trims
  <2>3. QED
    BY <1>1, <2>1, <2>2 DEF Referred
<1>4. \A r : Users(q, r) = Users(e, r)
  BY <1>1 DEF Users
<1>5. Counted(q, GivenUp(D))
  BY <1>4 DEF EngineSound, EngineSoundAt, Counted, Trims
<1>6. Settles(q, log, P \cup dropped, {})
  <2> SUFFICES ASSUME NEW p \in Partition, NEW i \in DOMAIN q.parts[p].entries
               PROVE  LET x == q.parts[p].entries[i]
                          r == <<p, x.offset>>
                      IN  \/ x.refs > Users(q, r)
                          \/ \A s \in Span : InLog(log, s) /\ Key(s) = r =>
                               s \in P \cup dropped \/ s \in q.dropped \/ s \in {} \/ InTraces(q, s) \/ InOut(q, s)
    BY DEF Settles
  <2>1. PICK k \in DOMAIN e.parts[p].entries : q.parts[p].entries[i] = e.parts[p].entries[k]
    BY DEF Trims
  <2> DEFINE r == <<p, e.parts[p].entries[k].offset>>
  <2>2. \/ e.parts[p].entries[k].refs > Users(e, r)
        \/ \A s \in Span : InLog(log, s) /\ Key(s) = r =>
             s \in P \cup dropped \/ s \in e.dropped \/ s \in {} \/ InTraces(e, s) \/ InOut(e, s)
    BY DEF EngineSound, EngineSoundAt, Settles
  <2>3. \A x : (InTraces(q, x) <=> InTraces(e, x)) /\ (InOut(q, x) <=> InOut(e, x))
    BY <1>1 DEF InTraces, InOut
  <2>4. QED
    BY <1>1, <1>4, <2>1, <2>2, <2>3
<1>7. ~X => Once(q, {}, P)
  BY <1>1 DEF EngineSound, EngineSoundAt, Once, InTraces, InOut
<1>8. Remembers(e, q)
  BY <1>1 DEF Remembers
<1>9. QED
  BY <1>1, <1>2, <1>3, <1>5, <1>6, <1>7, <1>8 DEF EngineSound, EngineSoundAt

LEMMA CommitSound ==
  ASSUME NEW e, NEW P, NEW D, NEW X, EngineSound(e, {}, P, D, X), NEW Q, NEW q, Commits(e, q, Q)
  PROVE  EngineSound(q, {}, P, D, X) /\ Remembers(e, q) /\ e.dropped \subseteq q.dropped
<1>1. e \in Engine /\ Ordered(e) /\ q \in Engine
  BY DEF EngineSound, EngineSoundAt, Commits
<1>2. \A p \in Partition : \A i \in DOMAIN q.parts[p].entries :
        \E k \in DOMAIN e.parts[p].entries : q.parts[p].entries[i] = e.parts[p].entries[k]
  <2> TAKE p \in Partition
  <2>1. CASE p \in Q
    BY <2>1 DEF Commits
  <2>2. CASE p \notin Q
    BY <2>2 DEF Commits
  <2>3. QED
    BY <2>1, <2>2
<1>3. ASSUME NEW r \in Partition \X Nat, HasEntry(e.parts, r)
      PROVE  \/ HasEntry(q.parts, r)
             \/ /\ \A k \in DOMAIN e.traces : r \notin e.traces[k].refs
                /\ \A k \in DOMAIN e.out : r \notin e.out[k].refs
  <2> DEFINE p == r[1]
             n == Settled(e.parts[p])
  <2>1. PICK i \in DOMAIN e.parts[p].entries : e.parts[p].entries[i].offset = r[2]
    BY <1>3 DEF HasEntry
  <2>2. p \in Partition /\ r = <<p, e.parts[p].entries[i].offset>>
    BY <2>1
  <2>3. n \in 0..Len(e.parts[p].entries) /\ Len(e.parts[p].entries) \in Nat /\ DOMAIN e.parts[p].entries = 1..Len(e.parts[p].entries)
        /\ \A j \in DOMAIN e.parts[p].entries : j <= n => ~(e.parts[p].entries[j].refs > 0)
    BY <1>1, <2>2, EngineParts, SettledFacts
  <2>4. CASE p \notin Q
    <3>1. q.parts[p] = e.parts[p]
      BY <2>2, <2>4 DEF Commits
    <3>2. QED
      BY <1>3, <3>1 DEF HasEntry
  <2>5. CASE i <= n
    <3>1. ~(e.parts[p].entries[i].refs > 0)
      BY <2>1, <2>3, <2>5
    <3> HIDE DEF p, n
    <3>2. QED
      BY <2>1, <2>2, <3>1, SettledHandled
  <2>6. CASE p \in Q /\ i > n
    <3>1. i - n \in 1..(Len(e.parts[p].entries) - n) /\ (i - n) + n = i
      BY <2>1, <2>3, <2>6
    <3>2. i - n \in DOMAIN q.parts[p].entries
      BY <2>2, <2>6, <3>1 DEF Commits
    <3>3. q.parts[p].entries[i - n] = e.parts[p].entries[i]
      BY <2>2, <2>6, <3>1, <3>2 DEF Commits
    <3>4. QED
      BY <2>1, <3>2, <3>3 DEF HasEntry
  <2>7. QED
    BY <2>1, <2>3, <2>4, <2>5, <2>6
<1>4. Trims(e, q)
  BY <1>2, <1>3 DEF Trims, Commits
<1>5. Ordered(q)
  <2> SUFFICES ASSUME NEW p \in Partition
               PROVE  /\ \A i, j \in DOMAIN q.parts[p].entries : i < j => q.parts[p].entries[i].offset < q.parts[p].entries[j].offset
                      /\ \A i \in DOMAIN q.parts[p].entries : q.parts[p].entries[i].offset <= q.parts[p].lastSeen
    BY DEF Ordered
  <2>1. CASE p \notin Q
    <3>1. q.parts[p] = e.parts[p]
      BY <2>1 DEF Commits
    <3>2. QED
      BY <1>1, <3>1 DEF Ordered
  <2>2. CASE p \in Q
    <3> DEFINE n == Settled(e.parts[p])
    <3>1. n \in Nat /\ Len(e.parts[p].entries) \in Nat
      BY <1>1, EngineParts, SettledFacts
    <3>2. /\ q.parts[p].lastSeen = e.parts[p].lastSeen
          /\ DOMAIN q.parts[p].entries = 1..(Len(e.parts[p].entries) - n)
          /\ \A i \in DOMAIN q.parts[p].entries : i + n \in DOMAIN e.parts[p].entries /\ q.parts[p].entries[i] = e.parts[p].entries[i + n]
      BY <2>2 DEF Commits
    <3>3. \A i, j \in DOMAIN q.parts[p].entries : i < j => i + n < j + n
      BY <3>1, <3>2
    <3> HIDE DEF n
    <3>4. QED
      BY <1>1, <3>2, <3>3 DEF Ordered
  <2>3. QED
    BY <2>1, <2>2
<1>6. QED
  BY <1>4, <1>5, TrimSound

-----------------------------------------------------------------------------
(* DropPartitions and DecidePartitions. *)

(* No trace or output of e has a span of the partitions Q. *)
FreeOf(e, Q) ==
    /\ \A k \in DOMAIN e.traces : \A r \in e.traces[k].refs : r[1] \notin Q
    /\ \A k \in DOMAIN e.out : \A r \in e.out[k].refs : r[1] \notin Q

LEMMA DropPartsSound ==
  ASSUME NEW e, NEW P, NEW D, NEW X, EngineSound(e, {}, P, D, X), NEW Q, FreeOf(e, Q), NEW q, q = DropPartitions(e, Q)
  PROVE  /\ EngineSound(q, {}, P, D, X) /\ Remembers(e, q) /\ e.dropped \subseteq q.dropped
         /\ \A p \in Partition : q.parts[p] = IF p \in Q THEN NewPart ELSE e.parts[p]
<1> DEFINE ps == [p \in Partition |-> IF p \in Q THEN NewPart ELSE e.parts[p]]
<1>1. e \in Engine /\ Ordered(e) /\ e.parts \in [Partition -> Part]
  BY EngineType DEF EngineSound, EngineSoundAt
<1>2. NewPart \in Part /\ NewPart.entries = <<>>
  BY DEF NewPart, Part
<1>3. q = [e EXCEPT !.parts = ps]
  BY DEF DropPartitions
<1>4. ps \in [Partition -> Part] /\ \A p \in Partition : ps[p] = IF p \in Q THEN NewPart ELSE e.parts[p]
  BY <1>1, <1>2
<1> HIDE DEF ps
<1>5. /\ q \in Engine /\ q.parts = ps
      /\ q.traces = e.traces /\ q.cache = e.cache /\ q.out = e.out /\ q.dropped = e.dropped /\ q.forgot = e.forgot
  BY <1>1, <1>3, <1>4 DEF Engine
<1>6. \A p \in Partition : p \in Q => DOMAIN q.parts[p].entries = {}
  BY <1>2, <1>4, <1>5
<1>7. Trims(e, q)
  <2>1. \A r \in Partition \X Nat : HasEntry(e.parts, r) =>
         \/ HasEntry(q.parts, r)
         \/ /\ \A k \in DOMAIN e.traces : r \notin e.traces[k].refs
            /\ \A k \in DOMAIN e.out : r \notin e.out[k].refs
    <3> TAKE r \in Partition \X Nat
    <3> HAVE HasEntry(e.parts, r)
    <3>1. CASE r[1] \in Q
      BY <3>1 DEF FreeOf
    <3>2. CASE r[1] \notin Q
      <4>1. q.parts[r[1]] = e.parts[r[1]]
        BY <1>4, <1>5, <3>2
      <4>2. QED
        BY <4>1 DEF HasEntry
    <3>3. QED
      BY <3>1, <3>2
  <2>2. \A p \in Partition : \A i \in DOMAIN q.parts[p].entries :
         \E k \in DOMAIN e.parts[p].entries : q.parts[p].entries[i] = e.parts[p].entries[k]
    BY <1>4, <1>5, <1>6
  <2>3. QED
    BY <1>5, <2>1, <2>2 DEF Trims
<1>8. Ordered(q)
  BY <1>1, <1>4, <1>5, <1>6 DEF Ordered
<1>9. EngineSound(q, {}, P, D, X) /\ Remembers(e, q) /\ e.dropped \subseteq q.dropped
  BY <1>7, <1>8, TrimSound
<1>10. QED
  BY <1>4, <1>5, <1>9

LEMMA DecidePartsSound ==
  ASSUME NEW e, NEW P, NEW D, NEW X, EngineSound(e, {}, P, D, X), NEW Q, NEW keep \in Verdicts,
         NEW q, q = DecidePartitions(e, Q, keep)
  PROVE  /\ EngineSound(q, {}, P, D, X) /\ Keeps(e, q)
         /\ \A k \in DOMAIN q.traces : \A r \in q.traces[k].refs : r[1] \notin Q
<1> DEFINE en == UNION {Entries(e.parts, p) : p \in Q}
           due == {k \in DOMAIN e.traces : e.traces[k].refs \cap en # {}}
           I == {e.traces[k].id : k \in due}
<1>1. q = decideEach(e, I, keep)
  BY DEF DecidePartitions
<1>2. e \in Engine /\ Referred(e)
  BY DEF EngineSound, EngineSoundAt
<1>3. EngineSound(q, {}, P, D, X) /\ Keeps(e, q)
  <2> HIDE DEF I
  <2>1. QED
    BY <1>1, DecideEachSound
<1>4. \A i \in DOMAIN q.traces : q.traces[i].id \notin I /\ \E j \in DOMAIN e.traces : q.traces[i] = e.traces[j]
  <2> HIDE DEF I
  <2>1. QED
    BY <1>1, DecideEachSound
<1>5. ASSUME NEW k \in DOMAIN q.traces, NEW r \in q.traces[k].refs, r[1] \in Q PROVE FALSE
  <2>1. PICK j \in DOMAIN e.traces : q.traces[k] = e.traces[j]
    BY <1>4
  <2>2. HasEntry(e.parts, r) /\ r \in Partition \X Nat
    BY <1>2, <2>1, EngineParts DEF Referred
  <2>3. r \in Entries(e.parts, r[1])
    <3>1. PICK i \in DOMAIN e.parts[r[1]].entries : e.parts[r[1]].entries[i].offset = r[2]
      BY <2>2 DEF HasEntry
    <3>2. r = <<r[1], r[2]>>
      BY <2>2
    <3>3. QED
      BY <3>1, <3>2 DEF Entries
  <2>4. r \in en
    BY <1>5, <2>3
  <2>5. j \in due
    BY <2>1, <2>4
  <2>6. q.traces[k].id \in I
    BY <2>1, <2>5
  <2>7. QED
    BY <1>4, <2>6
<1>6. QED
  BY <1>3, <1>5

-----------------------------------------------------------------------------
(* A step of a member's engine. *)

LEMMA TypeFacts ==
  ASSUME IInv
  PROVE  /\ log \in [Partition -> Seq(Record)] /\ committed \in [Partition -> Nat]
         /\ owner \in [Partition -> Member \cup {NoMember}] /\ pos \in [Member -> [Partition -> Nat]]
         /\ lost \in [Member -> SUBSET Partition] /\ gone \in [Member -> SUBSET Partition]
         /\ eng \in [Member -> Engine] /\ produced \subseteq Span /\ dropped \subseteq Span /\ discarded \subseteq Span
         /\ dups \subseteq produced /\ forgotten \subseteq Trace /\ excused \in BOOLEAN
         /\ \A p \in Partition : Len(log[p]) \in Nat
BY DEF IInv, TypeOK, GroupTypeOK

LEMMA MemberFacts ==
  ASSUME IInv, NEW m \in Member
  PROVE  /\ EngineSound(eng[m], {}, produced, discarded, excused)
         /\ eng[m] \in Engine /\ eng[m].dropped = {} /\ eng[m].forgot = {}
         /\ \A p \in Partition : ReadSound(m, p)
         /\ lost[m] # {} => excused /\ \A p \in Partition : owner[p] # m
BY DEF IInv, MembersSound, EngineSound, EngineSoundAt

(* Only a member that fetches a partition has entries of it. *)
LEMMA EntryFetched ==
  ASSUME IInv, NEW m \in Member, NEW p \in Partition, NEW o, HasEntry(eng[m].parts, <<p, o>>)
  PROVE  /\ owner[p] = m \/ p \in lost[m]
         /\ ~excused => owner[p] = m
         /\ eng[m].parts[p].lastSeen = pos[m][p] - 1 /\ o < pos[m][p] /\ o < Len(log[p])
<1>1. ReadSound(m, p) /\ eng[m] \in Engine /\ Ordered(eng[m])
  BY MemberFacts DEF EngineSound, EngineSoundAt
<1>2. PICK i \in DOMAIN eng[m].parts[p].entries : eng[m].parts[p].entries[i].offset = o
  BY DEF HasEntry
<1>3. owner[p] = m \/ p \in lost[m]
  <2> SUFFICES ASSUME ~(owner[p] = m \/ p \in lost[m]) PROVE FALSE
    OBVIOUS
  <2>1. eng[m].parts[p] = NewPart
    BY <1>1 DEF ReadSound, ReadOk
  <2>2. DOMAIN eng[m].parts[p].entries = {}
    BY <2>1 DEF NewPart
  <2>3. QED
    BY <1>2, <2>2
<1>4. o \in Nat /\ eng[m].parts[p].lastSeen \in Int /\ o <= eng[m].parts[p].lastSeen
  BY <1>1, <1>2, EngineParts DEF Ordered
<1>5. pos[m][p] \in Nat /\ Len(log[p]) \in Nat
  BY TypeFacts
<1>6. eng[m].parts[p].lastSeen = pos[m][p] - 1 /\ pos[m][p] <= Len(log[p])
  BY <1>1, <1>3, <1>4 DEF ReadSound, ReadOk
<1>7. ~excused => owner[p] = m
  BY <1>3, MemberFacts
<1>8. QED
  BY <1>3, <1>4, <1>5, <1>6, <1>7

LEMMA KeyOf ==
  ASSUME NEW x \in Span
  PROVE  Key(x) = <<x[1], x[2]>> /\ x[1] \in Partition /\ x[2] \in Nat /\ Key(x) \in Partition \X Nat
BY DEF Key, Span

(* Without a fault, two members do not hold spans of one record. *)
LEMMA Apart ==
  ASSUME IInv, ~excused, NEW m \in Member, NEW k \in Member, m # k, NEW x,
         InTraces(eng[k], x) \/ InOut(eng[k], x), HasEntry(eng[m].parts, Key(x))
  PROVE  FALSE
<1>1. HasEntry(eng[k].parts, Key(x)) /\ x \in Span
  BY MemberFacts, HeldEntry DEF EngineSound, EngineSoundAt
<1>2. Key(x) = <<x[1], x[2]>> /\ x[1] \in Partition
  BY <1>1, KeyOf
<1>3. HasEntry(eng[k].parts, <<x[1], x[2]>>) /\ HasEntry(eng[m].parts, <<x[1], x[2]>>)
  BY <1>1, <1>2
<1>4. owner[x[1]] = k
  BY <1>2, <1>3, EntryFetched
<1>5. owner[x[1]] = m
  BY <1>2, <1>3, EntryFetched
<1>6. QED
  BY <1>4, <1>5

(* The engine after SetEngine, in the state after it. *)
AfterSet(e, q, P, D, X, F, Z) ==
    /\ EngineSoundAt(q, {}, P, D, X, log, F, Z) /\ q.dropped = {} /\ q.forgot = {}
    /\ q.traces = e.traces /\ q.cache = e.cache /\ q.parts = e.parts /\ q.out = e.out

LEMMA SetEngineSound ==
  ASSUME NEW e, NEW P, NEW D, NEW X, EngineSound(e, {}, P, D, X),
         NEW F, F = dropped \cup e.dropped, NEW Z, forgotten \cup e.forgot \subseteq Z,
         NEW q, q = [e EXCEPT !.dropped = {}, !.forgot = {}]
  PROVE  AfterSet(e, q, P, D, X, F, Z)
<1>1. e \in Engine
  BY DEF EngineSound, EngineSoundAt
<1>2. /\ q \in Engine /\ q.dropped = {} /\ q.forgot = {}
      /\ q.traces = e.traces /\ q.cache = e.cache /\ q.parts = e.parts /\ q.out = e.out
  BY <1>1 DEF Engine
<1>3. TracesShape(q, log) /\ OutShape(q, log) /\ Referred(q) /\ Ordered(q)
  BY <1>2 DEF EngineSound, EngineSoundAt, TracesShape, OutShape, Referred, Ordered
<1>4. \A r : Users(q, r) = Users(e, r)
  BY <1>2 DEF Users
<1>5. Counted(q, GivenUp(D))
  BY <1>2, <1>4 DEF EngineSound, EngineSoundAt, Counted
<1>6. \A x : (InTraces(q, x) <=> InTraces(e, x)) /\ (InOut(q, x) <=> InOut(e, x))
  BY <1>2 DEF InTraces, InOut
<1>7. Settles(q, log, P \cup F, {})
  <2> SUFFICES ASSUME NEW p \in Partition, NEW i \in DOMAIN e.parts[p].entries
               PROVE  LET x == e.parts[p].entries[i]
                          r == <<p, x.offset>>
                      IN  \/ x.refs > Users(q, r)
                          \/ \A s \in Span : InLog(log, s) /\ Key(s) = r =>
                               s \in P \cup F \/ s \in q.dropped \/ s \in {} \/ InTraces(q, s) \/ InOut(q, s)
    BY <1>2 DEF Settles
  <2> DEFINE r == <<p, e.parts[p].entries[i].offset>>
  <2>1. \/ e.parts[p].entries[i].refs > Users(e, r)
        \/ \A s \in Span : InLog(log, s) /\ Key(s) = r =>
             s \in P \cup dropped \/ s \in e.dropped \/ s \in {} \/ InTraces(e, s) \/ InOut(e, s)
    BY DEF EngineSound, EngineSoundAt, Settles
  <2>2. QED
    BY <1>4, <1>6, <2>1
<1>8. Decided(q, log, Z)
  BY <1>2, <1>6 DEF EngineSound, EngineSoundAt, Decided, Cached
<1>9. ~X => Once(q, {}, P)
  BY <1>6 DEF EngineSound, EngineSoundAt, Once
<1>10. QED
  BY <1>2, <1>3, <1>5, <1>7, <1>8, <1>9 DEF EngineSoundAt, AfterSet

(* The engine of a member that takes no part in the step. *)
LEMMA OtherSound ==
  ASSUME NEW e, NEW P, NEW D, NEW X, EngineSound(e, {}, P, D, X),
         NEW Q, P \subseteq Q, NEW E, D \subseteq E, NEW Y, X => Y,
         ~Y => \A x : InTraces(e, x) \/ InOut(e, x) => x \notin Q,
         NEW F, dropped \subseteq F, NEW Z, forgotten \subseteq Z
  PROVE  EngineSoundAt(e, {}, Q, E, Y, log, F, Z)
<1>1. EngineSound(e, {}, Q, E, Y)
  BY SoundLater
<1>2. Settles(e, log, Q \cup F, {})
  BY <1>1 DEF EngineSound, EngineSoundAt, Settles
<1>3. Decided(e, log, Z)
  BY <1>1 DEF EngineSound, EngineSoundAt, Decided
<1>4. QED
  BY <1>1, <1>2, <1>3 DEF EngineSound, EngineSoundAt

(* A span whose kept decision is in e, or forgotten. *)
KeptIn(e, x) == TraceOf(log, x) \in forgotten \cup e.forgot \/ Cached(e, TraceOf(log, x), TRUE)

LEMMA KeptLater ==
  ASSUME NEW e, NEW q, Remembers(e, q), NEW x, KeptIn(e, x)
  PROVE  KeptIn(q, x)
BY CachedKept DEF KeptIn, Remembers

(***************************************************************************)
(* What a step of m does when its engine becomes e: the spans it writes    *)
(* are of records that m has an entry of, and were decided.                *)
(***************************************************************************)
EngineStep(m, e) ==
    /\ SetEngine(m, e) /\ log' = log
    /\ EngineSound(e, {}, produced', discarded', excused')
    /\ Remembers(eng[m], e)
    /\ produced \subseteq produced' /\ discarded \subseteq discarded' /\ (excused => excused')
    /\ \A x \in produced' : x \in produced \/
         (x \in Span /\ InLog(log, x) /\ HasEntry(eng[m].parts, Key(x)) /\ KeptIn(e, x))

LEMMA EngineStepSound ==
  ASSUME IInv, NEW m \in Member, NEW e, EngineStep(m, e)
  PROVE  /\ \A k \in Member :
              /\ EngineSoundAt(eng'[k], {}, produced', discarded', excused', log', dropped', forgotten')
              /\ eng'[k].dropped = {} /\ eng'[k].forgot = {}
         /\ eng' \in [Member -> Engine] /\ eng'[m].parts = e.parts /\ \A k \in Member : k # m => eng'[k] = eng[k]
         /\ VerdictsSound'
         /\ dropped' = dropped \cup e.dropped /\ dropped' \subseteq Span /\ forgotten' \subseteq Trace /\ produced' \subseteq Span
         /\ \A x \in produced' \cup dropped' : InLog(log', x)
<1> DEFINE q == [e EXCEPT !.dropped = {}, !.forgot = {}]
<1>1. /\ eng' = [eng EXCEPT ![m] = q] /\ dropped' = dropped \cup e.dropped
      /\ forgotten' = forgotten \cup e.forgot \cup (Known(e) \cap UNION {Known(eng[k]) : k \in Member \ {m}})
      /\ log' = log
  BY DEF EngineStep, SetEngine
<1>2. /\ EngineSoundAt(q, {}, produced', discarded', excused', log, dropped', forgotten')
      /\ q.dropped = {} /\ q.forgot = {} /\ q.traces = e.traces /\ q.cache = e.cache /\ q.parts = e.parts /\ q.out = e.out
  <2>1. forgotten \cup e.forgot \subseteq forgotten'
    BY <1>1
  <2>2. q = [e EXCEPT !.dropped = {}, !.forgot = {}]
    OBVIOUS
  <2> HIDE DEF q
  <2>3. EngineSound(e, {}, produced', discarded', excused')
    BY DEF EngineStep
  <2>4. dropped' = dropped \cup e.dropped
    BY <1>1
  <2>5. AfterSet(e, q, produced', discarded', excused', dropped', forgotten')
    BY <2>1, <2>2, <2>3, <2>4, SetEngineSound
  <2>6. QED
    BY <2>5 DEF AfterSet
<1> HIDE DEF q
<1>3. eng \in [Member -> Engine] /\ q \in Engine /\ e \in Engine
  BY <1>2, TypeFacts DEF EngineSoundAt, EngineStep, EngineSound
<1>4. eng'[m] = q /\ (\A k \in Member : k # m => eng'[k] = eng[k]) /\ eng' \in [Member -> Engine]
  BY <1>1, <1>3
<1>5. ASSUME NEW k \in Member, k # m
      PROVE  EngineSoundAt(eng[k], {}, produced', discarded', excused', log, dropped', forgotten')
  <2>1. EngineSound(eng[k], {}, produced, discarded, excused)
    BY MemberFacts
  <2>2. ~excused' => \A x : InTraces(eng[k], x) \/ InOut(eng[k], x) => x \notin produced'
    <3> SUFFICES ASSUME ~excused', NEW x, InTraces(eng[k], x) \/ InOut(eng[k], x), x \in produced' PROVE FALSE
      OBVIOUS
    <3>1. ~excused
      BY DEF EngineStep
    <3>2. x \in Span
      BY <2>1, HeldEntry DEF EngineSound, EngineSoundAt
    <3>3. x \notin produced
      BY <2>1, <3>1, <3>2 DEF EngineSound, EngineSoundAt, Once
    <3>4. HasEntry(eng[m].parts, Key(x))
      BY <3>3 DEF EngineStep
    <3>5. QED
      BY <1>5, <3>1, <3>4, Apart
  <2>3. dropped \subseteq dropped' /\ forgotten \subseteq forgotten'
    BY <1>1
  <2>4. QED
    BY <2>1, <2>2, <2>3, OtherSound DEF EngineStep
<1>6. \A k \in Member :
        /\ EngineSoundAt(eng'[k], {}, produced', discarded', excused', log', dropped', forgotten')
        /\ eng'[k].dropped = {} /\ eng'[k].forgot = {}
  <2> TAKE k \in Member
  <2>1. CASE k = m
    BY <1>1, <1>2, <1>4, <2>1
  <2>2. CASE k # m
    BY <1>1, <1>4, <1>5, <2>2, MemberFacts
  <2>3. QED
    BY <2>1, <2>2
<1>7. forgotten' \subseteq Trace
  <2>1. e.forgot \subseteq Trace /\ e.cache \in Seq(CacheRec)
    BY <1>3, EngineType
  <2>2. Known(e) \subseteq Trace
    <3>1. \A c \in DOMAIN e.cache : e.cache[c] \in CacheRec
      BY <2>1
    <3>2. QED
      BY <1>3, <3>1, EngineParts DEF Known, Ids, CacheRec
  <2>3. QED
    BY <1>1, <2>1, <2>2, TypeFacts
<1>8. /\ \A x \in produced' : x \in Span /\ InLog(log, x)
      /\ \A x \in dropped' : x \in Span /\ InLog(log, x)
  <2>1. \A x \in produced \cup dropped : InLog(log, x)
    BY DEF IInv, TopicSound
  <2>2. \A x \in e.dropped : InLog(log, x)
    BY DEF EngineStep, EngineSound, EngineSoundAt, Decided
  <2>3. \A x : InLog(log, x) => x \in Span
    BY DEF InLog
  <2>4. QED
    BY <1>1, <2>1, <2>2, <2>3 DEF EngineStep
<1>9. ASSUME NEW k \in Member, NEW t, NEW b, Cached(eng[k], t, b)
      PROVE  t \in forgotten' \/ \E j \in Member : Cached(eng'[j], t, b)
  <2>1. CASE k # m
    <3>1. Cached(eng'[k], t, b)
      BY <1>4, <1>9, <2>1
    <3>2. QED
      BY <3>1
  <2>2. CASE k = m
    <3>1. t \in e.forgot \/ Cached(e, t, b)
      BY <1>9, <2>2, CachedKept DEF EngineStep
    <3>2. Cached(e, t, b) => Cached(eng'[m], t, b)
      BY <1>2, <1>4 DEF Cached
    <3>3. QED
      BY <1>1, <3>1, <3>2
  <2>3. QED
    BY <2>1, <2>2
<1>10. \A t, b : Cached(e, t, b) => \E j \in Member : Cached(eng'[j], t, b)
  BY <1>2, <1>4 DEF Cached
<1>11. \A x \in produced' : TraceOf(log', x) \in forgotten' \/ \E j \in Member : Cached(eng'[j], TraceOf(log', x), TRUE)
  <2> TAKE x \in produced'
  <2> DEFINE t == TraceOf(log, x)
  <2>0. t = TraceOf(log', x)
    BY <1>1
  <2> HIDE DEF t
  <2>1. CASE x \in produced
    <3>1. t \in forgotten \/ \E k \in Member : Cached(eng[k], t, TRUE)
      BY <2>1 DEF IInv, VerdictsSound, t
    <3>2. t \in forgotten' \/ \E j \in Member : Cached(eng'[j], t, TRUE)
      BY <1>1, <1>9, <3>1
    <3>3. QED
      BY <2>0, <3>2
  <2>2. CASE KeptIn(e, x)
    <3>1. t \in forgotten \cup e.forgot \/ Cached(e, t, TRUE)
      BY <2>2 DEF KeptIn, t
    <3>2. t \in forgotten' \/ \E j \in Member : Cached(eng'[j], t, TRUE)
      BY <1>1, <1>10, <3>1
    <3>3. QED
      BY <2>0, <3>2
  <2>3. QED
    BY <2>1, <2>2 DEF EngineStep
<1>12. \A x \in dropped' : TraceOf(log', x) \in forgotten' \/ \E j \in Member : Cached(eng'[j], TraceOf(log', x), FALSE)
  <2> TAKE x \in dropped'
  <2> DEFINE t == TraceOf(log, x)
  <2>0. t = TraceOf(log', x)
    BY <1>1
  <2>1. CASE x \in dropped
    <3>1. t \in forgotten \/ \E k \in Member : Cached(eng[k], t, FALSE)
      BY <2>1 DEF IInv, VerdictsSound
    <3> HIDE DEF t
    <3>2. t \in forgotten' \/ \E j \in Member : Cached(eng'[j], t, FALSE)
      BY <1>1, <1>9, <3>1
    <3>3. QED
      BY <2>0, <3>2
  <2>2. CASE x \in e.dropped
    <3>1. t \in forgotten \cup e.forgot \/ Cached(e, t, FALSE)
      BY <2>2 DEF EngineStep, EngineSound, EngineSoundAt, Decided
    <3> HIDE DEF t
    <3>2. t \in forgotten' \/ \E j \in Member : Cached(eng'[j], t, FALSE)
      BY <1>1, <1>10, <3>1
    <3>3. QED
      BY <2>0, <3>2
  <2>3. QED
    BY <1>1, <2>1, <2>2
<1>13. \A j, k \in Member : j # k => Known(eng'[j]) \cap Known(eng'[k]) \subseteq forgotten'
  <2>1. Known(eng'[m]) = Known(e)
    BY <1>2, <1>4 DEF Known
  <2>2. \A k \in Member : k # m => Known(e) \cap Known(eng'[k]) \subseteq forgotten'
    <3> TAKE k \in Member
    <3> HAVE k # m
    <3>1. Known(eng'[k]) \subseteq UNION {Known(eng[i]) : i \in Member \ {m}}
      BY <1>4
    <3>2. QED
      BY <1>1, <3>1
  <2>3. \A j, k \in Member : j # k /\ j # m /\ k # m => Known(eng'[j]) \cap Known(eng'[k]) \subseteq forgotten'
    <3> SUFFICES ASSUME NEW j \in Member, NEW k \in Member, j # k, j # m, k # m
                 PROVE  Known(eng'[j]) \cap Known(eng'[k]) \subseteq forgotten'
      OBVIOUS
    <3>1. eng'[j] = eng[j] /\ eng'[k] = eng[k]
      BY <1>4
    <3>2. Known(eng[j]) \cap Known(eng[k]) \subseteq forgotten
      BY DEF IInv, VerdictsSound
    <3>3. QED
      BY <1>1, <3>1, <3>2
  <2>4. QED
    BY <2>1, <2>2, <2>3
<1>14. VerdictsSound'
  BY <1>11, <1>12, <1>13 DEF VerdictsSound
<1>15. QED
  BY <1>1, <1>2, <1>4, <1>6, <1>7, <1>8, <1>14


-----------------------------------------------------------------------------
(* What a member's positions are to its engine. *)

LEMMA HandledLater ==
  ASSUME NEW L, NEW F, NEW G, F \subseteq G, NEW p, NEW o, HandledIn(L, F, p, o)
  PROVE  HandledIn(L, G, p, o)
BY DEF HandledIn

(* More spans are handled, perhaps after a fault. *)
LEMMA ReadLater ==
  ASSUME NEW ps, NEW p, NEW f, NEW w, NEW n, NEW c, NEW X, NEW L, NEW F, ReadOk(ps, p, f, w, n, c, X, L, F),
         NEW Y, X => Y, NEW G, F \subseteq G
  PROVE  ReadOk(ps, p, f, w, n, c, Y, L, G)
<1>1. \A o : HandledIn(L, F, p, o) => HandledIn(L, G, p, o)
  BY HandledLater
<1>2. QED
  BY <1>1 DEF ReadOk

LEMMA ReadMore ==
  ASSUME NEW ps, NEW p, NEW f, NEW w, NEW n, NEW c, NEW X, NEW L, NEW F, ReadOk(ps, p, f, w, n, c, X, L, F),
         NEW G, F \subseteq G
  PROVE  ReadOk(ps, p, f, w, n, c, X, L, G)
BY HandledLater DEF ReadOk

(* The entries are the same, with other counts. *)
SamePart(a, b) ==
    /\ b.lastSeen = a.lastSeen /\ b.committed = a.committed /\ DOMAIN b.entries = DOMAIN a.entries
    /\ \A i \in DOMAIN a.entries : b.entries[i].offset = a.entries[i].offset

LEMMA NewPartKept ==
  ASSUME NEW b \in Part, SamePart(NewPart, b)
  PROVE  b = NewPart
<1>1. b.lastSeen = -1 /\ b.committed = -1 /\ DOMAIN b.entries = {}
  BY DEF NewPart, SamePart
<1>2. b.entries \in Seq(Entry) /\ DOMAIN b.entries = 1..Len(b.entries) /\ Len(b.entries) \in Nat
  BY DEF Part
<1>3. Len(b.entries) # 0 => 1 \in DOMAIN b.entries
  BY <1>2
<1>4. b.entries = <<>>
  BY <1>1, <1>2, <1>3
<1>5. b = [entries |-> b.entries, lastSeen |-> b.lastSeen, committed |-> b.committed]
  BY DEF Part
<1>6. QED
  BY <1>1, <1>4, <1>5 DEF NewPart

LEMMA ReadKept ==
  ASSUME NEW a, NEW b \in Part, SamePart(a, b), NEW p,
         NEW f, NEW w, NEW n, NEW c, NEW X, NEW L, NEW F, ReadOk(a, p, f, w, n, c, X, L, F)
  PROVE  ReadOk(b, p, f, w, n, c, X, L, F)
<1>1. /\ b.lastSeen = a.lastSeen /\ b.committed = a.committed /\ DOMAIN b.entries = DOMAIN a.entries
      /\ \A i \in DOMAIN a.entries : b.entries[i].offset = a.entries[i].offset
  BY DEF SamePart
<1>3. \A o : Listed(a, o) => Listed(b, o)
  BY <1>1 DEF Listed
<1>4. a = NewPart => b = NewPart
  BY NewPartKept
<1>5. QED
  BY <1>1, <1>3, <1>4 DEF ReadOk

(* The state of the group, of the histories and of the control points has its type. *)
OuterOK ==
    /\ GroupTypeOK
    /\ pc \in [Member -> {"poll", "add", "mid", "flush", "final", "exit", "down"}]
    /\ cancelled \subseteq Member
    /\ dups \subseteq produced /\ discarded \subseteq Span
    /\ excused \in BOOLEAN
    /\ revokes \in 0..MaxRevokes
    /\ faults \in 0..MaxFaults

(* The members other than m keep their partitions. *)
Bystanders(m) ==
    \A k \in Member : k # m =>
        /\ lost'[k] = lost[k] /\ pos'[k] = pos[k]
        /\ \A p \in Partition : (owner'[p] = k <=> owner[p] = k) /\ (owner[p] = k => committed'[p] = committed[p])

(* The positions of m fit its engine e after the step. *)
Reading(m, e) ==
    /\ \A p \in Partition :
         ReadOk(e.parts[p], p, owner'[p] = m \/ p \in lost'[m], owner'[p] = m, pos'[m][p], committed'[p],
                excused', log, produced' \cup dropped')
    /\ lost'[m] # {} => excused' /\ \A p \in Partition : owner'[p] # m

(* What is committed is handled. *)
Committing ==
    \A p \in Partition :
        /\ committed[p] <= committed'[p]
        /\ committed'[p] = committed[p] \/
             /\ committed'[p] <= Len(log[p])
             /\ \A o \in 0..(committed'[p] - 1) : HandledIn(log, produced' \cup dropped', p, o)

Excusing ==
    /\ \A x \in discarded' : InLog(log, x)
    /\ dups' # {} \/ discarded' # {} => excused'
    /\ ~excused' => \A p \in Partition : Reach(p) <= Reach(p)'

(* Nothing written, decided, committed or logged is taken back. *)
Onward ==
    /\ produced \subseteq produced' /\ dropped \subseteq dropped'
    /\ \A p \in Partition :
         /\ committed[p] <= committed'[p]
         /\ Len(log[p]) <= Len(log'[p]) /\ \A i \in 1..Len(log[p]) : log'[p][i] = log[p][i]

LEMMA ReachIs ==
  ASSUME IInv, NEW p \in Partition
  PROVE  Reach(p) \in Nat
<1>1. committed[p] \in Nat /\ owner[p] \in Member \cup {NoMember} /\ pos \in [Member -> [Partition -> Nat]]
  BY TypeFacts
<1>2. QED
  BY <1>1 DEF Reach

LEMMA MemberStepSound ==
  ASSUME IInv, NEW m \in Member, NEW e, EngineStep(m, e), OuterOK', Bystanders(m), Reading(m, e), Committing, Excusing
  PROVE  IInv' /\ Onward
<1>1. /\ \A k \in Member :
            /\ EngineSoundAt(eng'[k], {}, produced', discarded', excused', log', dropped', forgotten')
            /\ eng'[k].dropped = {} /\ eng'[k].forgot = {}
      /\ eng' \in [Member -> Engine] /\ eng'[m].parts = e.parts /\ \A k \in Member : k # m => eng'[k] = eng[k]
      /\ VerdictsSound'
      /\ dropped' = dropped \cup e.dropped /\ dropped' \subseteq Span /\ forgotten' \subseteq Trace /\ produced' \subseteq Span
      /\ \A x \in produced' \cup dropped' : InLog(log', x)
  BY EngineStepSound
<1>2. log' = log /\ produced \subseteq produced' /\ (excused => excused')
  BY DEF EngineStep
<1>3. TypeOK'
  <2>1. \A k \in Member, p \in Partition : \A i \in DOMAIN eng'[k].parts[p].entries : eng'[k].parts[p].entries[i].refs \in Nat
    <3> TAKE k \in Member, p \in Partition
    <3> TAKE i \in DOMAIN eng'[k].parts[p].entries
    <3> DEFINE g == eng'[k]
               r == <<p, g.parts[p].entries[i].offset>>
               c == g.parts[p].entries[i].refs
    <3>1. g \in Engine /\ c >= Users(g, r)
      BY <1>1 DEF EngineSoundAt, Counted
    <3>2. c \in Int /\ Users(g, r) \in Nat
      BY <3>1, EngineParts, UsersNat
    <3> HIDE DEF g, r, c
    <3>3. c \in Nat
      BY <3>1, <3>2
    <3>4. QED
      BY <3>3 DEF g, c
  <2>2. QED
    BY <1>1, <2>1 DEF TypeOK, OuterOK
<1>4. MembersSound'
  <2>1. ASSUME NEW k \in Member, NEW p \in Partition PROVE ReadSound(k, p)'
    <3>1. CASE k = m
      BY <1>1, <1>2, <3>1 DEF ReadSound, Reading
    <3>2. CASE k # m
      <4>1. ReadOk(eng[k].parts[p], p, owner[p] = k \/ p \in lost[k], owner[p] = k, pos[k][p], committed[p],
                   excused, log, produced \cup dropped)
        BY MemberFacts DEF ReadSound
      <4>2. ReadOk(eng[k].parts[p], p, owner[p] = k \/ p \in lost[k], owner[p] = k, pos[k][p], committed[p],
                   excused', log, produced' \cup dropped')
        <5>1. produced \cup dropped \subseteq produced' \cup dropped'
          BY <1>1, <1>2
        <5> DEFINE f == owner[p] = k \/ p \in lost[k]
                   w == owner[p] = k
        <5>2. ReadOk(eng[k].parts[p], p, f, w, pos[k][p], committed[p], excused, log, produced \cup dropped)
          BY <4>1
        <5> HIDE DEF f, w
        <5>3. ReadOk(eng[k].parts[p], p, f, w, pos[k][p], committed[p], excused', log, produced' \cup dropped')
          BY <1>2, <5>1, <5>2, ReadLater
        <5>4. QED
          BY <5>3 DEF f, w
      <4>3. /\ eng'[k] = eng[k] /\ lost'[k] = lost[k] /\ pos'[k] = pos[k] /\ log' = log
            /\ (owner'[p] = k <=> owner[p] = k) /\ (owner[p] = k => committed'[p] = committed[p])
        BY <1>1, <1>2, <3>2 DEF Bystanders
      <4>4. ReadOk(eng'[k].parts[p], p, owner'[p] = k \/ p \in lost'[k], owner'[p] = k, pos'[k][p], committed'[p],
                   excused', log', produced' \cup dropped')
        BY <4>2, <4>3 DEF ReadOk
      <4>5. QED
        BY <4>4 DEF ReadSound
    <3>3. QED
      BY <3>1, <3>2
  <2>2. ASSUME NEW k \in Member PROVE lost'[k] # {} => excused' /\ \A p \in Partition : owner'[p] # k
    <3>1. CASE k = m
      BY <3>1 DEF Reading
    <3>2. CASE k # m
      BY <1>2, <3>2, MemberFacts DEF Bystanders
    <3>3. QED
      BY <3>1, <3>2
  <2>3. QED
    BY <1>1, <2>1, <2>2 DEF MembersSound
<1>5. TopicSound'
  <2>1. \A x \in produced' \cup dropped' \cup discarded' : InLog(log', x)
    BY <1>1, <1>2 DEF Excusing
  <2>2. \A p \in Partition : /\ committed'[p] <= Len(log'[p])
                             /\ \A o \in 0..(committed'[p] - 1) : HandledIn(log', produced' \cup dropped', p, o)
    <3> TAKE p \in Partition
    <3>1. CASE committed'[p] = committed[p]
      <4>1. committed[p] <= Len(log[p]) /\ \A o \in 0..(committed[p] - 1) : HandledIn(log, produced \cup dropped, p, o)
        BY DEF IInv, TopicSound
      <4>2. produced \cup dropped \subseteq produced' \cup dropped'
        BY <1>1, <1>2
      <4>3. \A o : HandledIn(log, produced \cup dropped, p, o) => HandledIn(log, produced' \cup dropped', p, o)
        BY <4>2, HandledLater
      <4>4. QED
        BY <1>2, <3>1, <4>1, <4>3
    <3>2. CASE committed'[p] # committed[p]
      BY <1>2, <3>2 DEF Committing
    <3>3. QED
      BY <3>1, <3>2
  <2>3. dups' # {} \/ discarded' # {} => excused'
    BY DEF Excusing
  <2>4. ~excused' => \A x \in produced' : x[2] < Reach(x[1])'
    <3> SUFFICES ASSUME ~excused', NEW x \in produced' PROVE x[2] < Reach(x[1])'
      OBVIOUS
    <3>1. x \in Span /\ x[1] \in Partition /\ x[2] \in Nat
      BY <1>1 DEF Span
    <3>2. x[2] < Reach(x[1])
      <4>1. CASE x \in produced
        BY <1>2, <4>1 DEF IInv, TopicSound
      <4>2. CASE HasEntry(eng[m].parts, Key(x))
        <5>1. HasEntry(eng[m].parts, <<x[1], x[2]>>)
          BY <4>2 DEF Key
        <5>2. owner[x[1]] = m /\ x[2] < pos[m][x[1]]
          BY <1>2, <3>1, <5>1, EntryFetched
        <5>3. m # NoMember
          BY GroupAssumption
        <5>4. QED
          BY <5>2, <5>3 DEF Reach
      <4>3. QED
        BY <4>1, <4>2 DEF EngineStep
    <3>3. Reach(x[1]) <= Reach(x[1])' /\ Reach(x[1]) \in Nat /\ Reach(x[1])' \in Nat
      <4>1. Reach(x[1])' \in Nat
        <5>1. committed' \in [Partition -> Nat] /\ owner' \in [Partition -> Member \cup {NoMember}]
              /\ pos' \in [Member -> [Partition -> Nat]]
          BY DEF OuterOK, GroupTypeOK
        <5>2. QED
          BY <3>1, <5>1 DEF Reach
      <4>2. QED
        BY <3>1, <4>1, ReachIs DEF Excusing
    <3>4. QED
      BY <3>1, <3>2, <3>3
  <2>5. QED
    BY <2>1, <2>2, <2>3, <2>4 DEF TopicSound
<1>6. Onward
  BY <1>1, <1>2, TypeFacts DEF Onward, Committing
<1>7. QED
  BY <1>1, <1>3, <1>4, <1>5, <1>6 DEF IInv

-----------------------------------------------------------------------------
(* Steps that write and commit nothing. *)

(* Only the engine of m moves, and keeps its entries. *)
Quiet == /\ UNCHANGED <<groupVars, topicVars, excused>>

LEMMA EngineReads ==
  ASSUME IInv, NEW m \in Member, NEW e \in Engine, SameEntries(eng[m], e), NEW p \in Partition
  PROVE  ReadOk(e.parts[p], p, owner[p] = m \/ p \in lost[m], owner[p] = m, pos[m][p], committed[p],
                excused, log, produced \cup dropped)
<1> DEFINE f == owner[p] = m \/ p \in lost[m]
           w == owner[p] = m
<1>1. ReadOk(eng[m].parts[p], p, f, w, pos[m][p], committed[p], excused, log, produced \cup dropped)
  BY MemberFacts DEF ReadSound
<1>2. SamePart(eng[m].parts[p], e.parts[p]) /\ e.parts[p] \in Part
  BY EngineParts DEF SameEntries, SamePart
<1> HIDE DEF f, w
<1>3. ReadOk(e.parts[p], p, f, w, pos[m][p], committed[p], excused, log, produced \cup dropped)
  BY <1>1, <1>2, ReadKept
<1>4. QED
  BY <1>3 DEF f, w

LEMMA SameReach ==
  ASSUME IInv, UNCHANGED <<owner, pos, committed>>
  PROVE  \A p \in Partition : Reach(p) <= Reach(p)'
<1> TAKE p \in Partition
<1>1. Reach(p)' = Reach(p)
  BY DEF Reach
<1>2. QED
  BY <1>1, ReachIs

LEMMA OldHistories ==
  ASSUME IInv
  PROVE  (\A x \in discarded : InLog(log, x)) /\ (dups # {} \/ discarded # {} => excused)
BY DEF IInv, TopicSound

LEMMA QuietStep ==
  ASSUME IInv, NEW m \in Member, NEW e, SetEngine(m, e), EngineSound(e, {}, produced, discarded, excused),
         Keeps(eng[m], e), Quiet, OuterOK'
  PROVE  IInv' /\ Onward
<1>1. /\ log' = log /\ committed' = committed /\ owner' = owner /\ pos' = pos /\ lost' = lost
      /\ produced' = produced /\ dups' = dups /\ discarded' = discarded /\ excused' = excused
  BY DEF Quiet, groupVars, topicVars
<1>2. EngineStep(m, e)
  BY <1>1 DEF EngineStep, Keeps
<1>3. Bystanders(m) /\ Committing
  BY <1>1, TypeFacts DEF Bystanders, Committing
<1>4. Reading(m, e)
  <2>1. \A p \in Partition :
         ReadOk(e.parts[p], p, owner'[p] = m \/ p \in lost'[m], owner'[p] = m, pos'[m][p], committed'[p],
                excused', log, produced' \cup dropped')
    <3> TAKE p \in Partition
    <3> DEFINE f == owner[p] = m \/ p \in lost[m]
               w == owner[p] = m
    <3>1. e \in Engine /\ SameEntries(eng[m], e)
      BY DEF EngineSound, EngineSoundAt, Keeps
    <3>2. ReadOk(e.parts[p], p, f, w, pos[m][p], committed[p], excused, log, produced \cup dropped)
      BY <3>1, EngineReads
    <3>3. produced \cup dropped \subseteq produced' \cup dropped'
      BY <1>1 DEF SetEngine
    <3> HIDE DEF f, w
    <3>4. ReadOk(e.parts[p], p, f, w, pos[m][p], committed[p], excused, log, produced' \cup dropped')
      BY <3>2, <3>3, ReadLater
    <3>5. QED
      BY <1>1, <3>4 DEF f, w
  <2>2. lost'[m] # {} => excused' /\ \A p \in Partition : owner'[p] # m
    BY <1>1, MemberFacts
  <2>3. QED
    BY <2>1, <2>2 DEF Reading
<1>5. Excusing
  BY <1>1, OldHistories, SameReach DEF Excusing
<1>6. QED
  BY <1>2, <1>3, <1>4, <1>5, MemberStepSound

LEMMA DecideFirstSound ==
  ASSUME NEW e, NEW P, NEW D, NEW X, EngineSound(e, {}, P, D, X), NEW n, NEW keep \in Verdicts, NEW q, q = decideFirst(e, n, keep)
  PROVE  EngineSound(q, {}, P, D, X) /\ Keeps(e, q)
<1> DEFINE I == {e.traces[k].id : k \in 1..n}
<1>1. q = decideEach(e, I, keep)
  BY DEF decideFirst
<1> HIDE DEF I
<1>2. QED
  BY <1>1, DecideEachSound

LEMMA TypeUnfold ==
  ASSUME IInv
  PROVE  OuterOK
BY DEF IInv, TypeOK, OuterOK

LEMMA TickSound ==
  ASSUME IInv, NEW m \in Member, NEW n, NEW k, Tick(m, n, k)
  PROVE  IInv' /\ Onward
<1>1. PICK keep \in Verdicts : LET e == decideFirst(eng[m], n, keep) IN
         /\ k \in 0..Len(e.cache)
         /\ SetEngine(m, popCache(e, k))
  BY DEF Tick
<1> DEFINE e == decideFirst(eng[m], n, keep)
           q == popCache(e, k)
<1>2. k \in 0..Len(e.cache) /\ SetEngine(m, q)
  BY <1>1
<1>3. EngineSound(e, {}, produced, discarded, excused) /\ Keeps(eng[m], e)
  BY MemberFacts, DecideFirstSound
<1> HIDE DEF e
<1>4. EngineSound(q, {}, produced, discarded, excused) /\ Keeps(e, q)
  BY <1>2, <1>3, PopSound
<1> HIDE DEF q
<1>5. Keeps(eng[m], q)
  BY <1>3, <1>4, KeepsTransitive
<1>6. Quiet /\ cancelled' = cancelled /\ revokes' = revokes /\ pc' = [pc EXCEPT ![m] = "flush"]
  BY DEF Tick, Quiet
<1>7. faults' \in 0..MaxFaults
  <2>1. CASE k > 0
    BY <2>1, SamplingAssumption, TypeUnfold DEF Tick, Fails, OuterOK
  <2>2. CASE ~(k > 0)
    BY <2>2, TypeUnfold DEF Tick, OuterOK
  <2>3. QED
    BY <2>1, <2>2
<1>8. OuterOK'
  BY <1>6, <1>7, TypeUnfold DEF OuterOK, GroupTypeOK, Quiet, groupVars, topicVars
<1>9. QED
  BY <1>2, <1>4, <1>5, <1>6, <1>8, QuietStep

LEMMA FlushCancelledSound ==
  ASSUME IInv, NEW m \in Member, FlushCancelled(m)
  PROVE  IInv' /\ Onward
<1>1. PICK keep \in Verdicts : SetEngine(m, decideFirst(eng[m], Len(eng[m].traces), keep))
  BY DEF FlushCancelled
<1> DEFINE q == decideFirst(eng[m], Len(eng[m].traces), keep)
<1>2. SetEngine(m, q)
  BY <1>1
<1>3. EngineSound(q, {}, produced, discarded, excused) /\ Keeps(eng[m], q)
  BY MemberFacts, DecideFirstSound
<1> HIDE DEF q
<1>4. Quiet
  BY DEF FlushCancelled, Quiet
<1>5. OuterOK'
  BY <1>4, TypeUnfold DEF FlushCancelled, OuterOK, GroupTypeOK, Quiet, groupVars, topicVars
<1>6. QED
  BY <1>2, <1>3, <1>4, <1>5, QuietStep

LEMMA AddRecordSound ==
  ASSUME IInv, NEW m \in Member, NEW p \in Partition, AddRecord(m, p)
  PROVE  IInv' /\ Onward
<1> DEFINE o == pos[m][p]
           g == eng[m]
<1>1. PICK keep \in Verdicts : LET e == Add(eng[m], p, pos[m][p], keep) IN
         /\ SetEngine(m, e)
         /\ pc' = [pc EXCEPT ![m] = IF Len(e.out) >= FlushOutputs THEN "mid" ELSE "add"]
  BY DEF AddRecord
<1> DEFINE e == Add(g, p, o, keep)
<1>2. SetEngine(m, e) /\ pc' = [pc EXCEPT ![m] = IF Len(e.out) >= FlushOutputs THEN "mid" ELSE "add"]
  BY <1>1
<1>3. /\ log' = log /\ committed' = committed /\ owner' = owner /\ lost' = lost /\ gone' = gone /\ cancelled' = cancelled
      /\ produced' = produced /\ dups' = dups /\ discarded' = discarded /\ excused' = excused
      /\ revokes' = revokes /\ faults' = faults
      /\ pos' = [pos EXCEPT ![m][p] = @ + 1] /\ o < End(p) /\ p \in Fetching(m)
  BY DEF AddRecord, topicVars
<1>4. o \in Nat /\ Len(log[p]) \in Nat /\ log \in [Partition -> Seq(Record)] /\ pos \in [Member -> [Partition -> Nat]]
  BY TypeFacts
<1>5. owner[p] = m \/ p \in lost[m]
  BY <1>3 DEF Fetching, Owned
<1>6. g \in Engine /\ g.parts[p].lastSeen \in Int /\ EngineSound(g, {}, produced, discarded, excused) /\ ReadSound(m, p)
  BY MemberFacts, EngineParts
<1>7. o > g.parts[p].lastSeen
  BY <1>4, <1>5, <1>6 DEF ReadSound, ReadOk
<1>8. ~excused => SpansOf(p, o) \cap produced = {}
  <2> SUFFICES ASSUME ~excused, NEW x \in SpansOf(p, o), x \in produced PROVE FALSE
    OBVIOUS
  <2>1. x[1] = p /\ x[2] = o
    BY DEF SpansOf
  <2>2. owner[p] = m /\ m # NoMember
    BY <1>5, MemberFacts, GroupAssumption
  <2>3. Reach(p) = o
    BY <2>2 DEF Reach
  <2>4. x[2] < Reach(x[1])
    BY DEF IInv, TopicSound
  <2>5. QED
    BY <1>4, <2>1, <2>3, <2>4
<1> HIDE DEF o, g
<1>9. EngineSound(e, {}, produced, discarded, excused) /\ Reads(g, e, p, o)
  BY <1>3, <1>4, <1>6, <1>7, <1>8, AddSound
<1> HIDE DEF e
<1>10. /\ pos'[m][p] = o + 1 /\ (\A a \in Partition : a # p => pos'[m][a] = pos[m][a]) /\ (\A k \in Member : k # m => pos'[k] = pos[k])
       /\ pos' \in [Member -> [Partition -> Nat]]
  BY <1>3, <1>4 DEF o
<1>11. EngineStep(m, e)
  BY <1>2, <1>3, <1>9 DEF EngineStep, Reads, g
<1>12. Bystanders(m) /\ Committing
  BY <1>3, <1>10, TypeFacts DEF Bystanders, Committing
<1>13. OuterOK'
  BY <1>2, <1>3, <1>10, TypeUnfold DEF OuterOK, GroupTypeOK
<1>14. Excusing
  <2>1. \A a \in Partition : Reach(a) <= Reach(a)'
    <3> TAKE a \in Partition
    <3>1. Reach(a) \in Nat
      BY ReachIs
    <3>2. CASE owner[a] = NoMember
      BY <1>3, <3>1, <3>2 DEF Reach
    <3>3. CASE owner[a] = m /\ owner[a] # NoMember /\ a = p
      BY <1>3, <1>4, <1>10, <3>1, <3>3 DEF Reach, o
    <3>4. CASE owner[a] # NoMember /\ ~(owner[a] = m /\ a = p)
      <4>1. owner[a] \in Member
        BY <3>4, TypeFacts
      <4>2. pos'[owner[a]][a] = pos[owner[a]][a]
        BY <1>10, <3>4, <4>1
      <4>3. Reach(a)' = Reach(a)
        BY <1>3, <3>4, <4>2 DEF Reach
      <4>4. QED
        BY <3>1, <4>3
    <3>5. QED
      BY <3>2, <3>3, <3>4
  <2>2. QED
    BY <1>3, <2>1, OldHistories DEF Excusing
<1>15. produced \cup dropped \subseteq produced' \cup dropped'
  BY <1>2, <1>3 DEF SetEngine
<1>16. ASSUME NEW a \in Partition
       PROVE  ReadOk(e.parts[a], a, owner'[a] = m \/ a \in lost'[m], owner'[a] = m, pos'[m][a], committed'[a],
                     excused', log, produced' \cup dropped')
  <2> DEFINE f == owner[a] = m \/ a \in lost[m]
             w == owner[a] = m
             F == produced' \cup dropped'
  <2>1. ReadOk(g.parts[a], a, f, w, pos[m][a], committed[a], excused, log, produced \cup dropped)
    BY MemberFacts DEF ReadSound, g
  <2>2. ReadOk(g.parts[a], a, f, w, pos[m][a], committed[a], excused, log, F)
    <3> HIDE DEF f, w
    <3>1. QED
      BY <1>15, <2>1, ReadLater
  <2>3. CASE a # p
    <3>1. SamePart(g.parts[a], e.parts[a]) /\ e.parts[a] \in Part
      BY <1>9, <2>3, EngineParts DEF Reads, SamePart, EngineSound, EngineSoundAt
    <3> HIDE DEF f, w, F
    <3>2. ReadOk(e.parts[a], a, f, w, pos[m][a], committed[a], excused, log, F)
      BY <2>2, <3>1, ReadKept
    <3>3. QED
      BY <1>3, <1>10, <2>3, <3>2 DEF f, w, F
  <2>4. CASE a = p
    <3>1. /\ e.parts[p].lastSeen = o
          /\ e.parts[p].committed = IF g.parts[p].lastSeen < 0 THEN o ELSE g.parts[p].committed
          /\ \A r : r[1] \in Partition /\ (HasEntry(g.parts, r) \/ r = <<p, o>>) => HasEntry(e.parts, r)
      BY <1>9 DEF Reads
    <3>2. \A k : Listed(g.parts[p], k) \/ k = o => Listed(e.parts[p], k)
      <4> TAKE k
      <4> HAVE Listed(g.parts[p], k) \/ k = o
      <4>1. HasEntry(g.parts, <<p, k>>) \/ <<p, k>> = <<p, o>>
        BY DEF HasEntry, Listed
      <4>2. HasEntry(e.parts, <<p, k>>)
        BY <3>1, <4>1
      <4>3. QED
        BY <4>2 DEF HasEntry, Listed
    <3>3. /\ f /\ pos[m][p] = o /\ o + 1 <= Len(log[p]) /\ committed[p] \in Nat
          /\ g.parts[p].committed \in Int /\ g.parts[p].lastSeen \in Int
      BY <1>3, <1>4, <1>5, <1>6, <2>4, TypeFacts, EngineParts DEF o, End
    <3>4. /\ g.parts[p].lastSeen >= 0 => g.parts[p].lastSeen = o - 1
          /\ \A k \in 0..(o - 1) : HandledIn(log, F, p, k) \/ Listed(g.parts[p], k)
          /\ w => /\ g.parts[p].lastSeen < 0 => committed[p] = o
                  /\ g.parts[p].lastSeen >= 0 => /\ committed[p] <= g.parts[p].committed /\ committed[p] <= o
                                                 /\ ~excused => committed[p] = g.parts[p].committed
      BY <2>2, <2>4, <3>3 DEF ReadOk
    <3> HIDE DEF F
    <3>5. \A k \in 0..o : HandledIn(log, F, p, k) \/ Listed(e.parts[p], k)
      <4> TAKE k \in 0..o
      <4>1. k = o \/ k \in 0..(o - 1)
        BY <1>4
      <4>2. QED
        BY <3>2, <3>4, <4>1
    <3>6. w => /\ committed[p] <= e.parts[p].committed /\ committed[p] <= o + 1
               /\ ~excused => committed[p] = e.parts[p].committed
      <4>1. CASE g.parts[p].lastSeen < 0
        BY <1>4, <3>1, <3>3, <3>4, <4>1
      <4>2. CASE ~(g.parts[p].lastSeen < 0)
        BY <1>4, <3>1, <3>3, <3>4, <4>2
      <4>3. QED
        BY <4>1, <4>2
    <3>7. ReadOk(e.parts[p], p, f, w, o + 1, committed[p], excused, log, F)
      <4>1. ~(o < 0) /\ o >= 0 /\ o = (o + 1) - 1
        BY <1>4
      <4> HIDE DEF f, w
      <4>2. QED
        BY <3>1, <3>3, <3>5, <3>6, <4>1 DEF ReadOk
    <3>8. QED
      BY <1>3, <1>10, <2>4, <3>7 DEF F
  <2>5. QED
    BY <2>3, <2>4
<1>17. Reading(m, e)
  <2>1. lost'[m] # {} => excused' /\ \A a \in Partition : owner'[a] # m
    BY <1>3, MemberFacts
  <2>2. QED
    BY <1>16, <2>1 DEF Reading
<1>18. QED
  BY <1>11, <1>12, <1>13, <1>14, <1>17, MemberStepSound

-----------------------------------------------------------------------------
(* The commit. *)

(***************************************************************************)
(* The committed offset of p moves from c to d when the partitions Q of r  *)
(* are committed; w tells that the broker accepts the commit of p, X and Y *)
(* whether there was a fault before and after it.                          *)
(***************************************************************************)
Settling(r, Q, p, w, c, d, X, Y) ==
    /\ d = c \/ (w /\ p \in Advanced(r, Q) /\ d = nextOffset(r.parts[p]))
    /\ ~Y => ~X /\ (w /\ p \in Advanced(r, Q) => d = nextOffset(r.parts[p]))

Accepted(m, r, Q) ==
    /\ \A p \in Partition : Settling(r, Q, p, owner[p] = m, committed[p], committed'[p], excused, excused')
    /\ (excused => excused') /\ excused' \in BOOLEAN /\ faults' \in 0..MaxFaults
    /\ committed' = [p \in Partition |-> committed'[p]]

LEMMA CommitFacts ==
  ASSUME IInv, NEW m \in Member, NEW r, NEW Q, Commit(m, r, Advanced(r, Q))
  PROVE  Accepted(m, r, Q)
<1> DEFINE asked == Advanced(r, Q) \cap Owned(m)
<1>1. PICK S \in {asked, {}} :
      /\ committed' = [p \in Partition |-> IF p \in S THEN nextOffset(r.parts[p]) ELSE committed[p]]
      /\ \/ S = asked /\ UNCHANGED <<excused, faults>>
         \/ /\ S # asked /\ excused' = TRUE
            /\ \/ m \in cancelled /\ pc[m] \in {"mid", "flush"} /\ UNCHANGED faults
               \/ Fails("commit")
  BY DEF Commit
<1>2. excused \in BOOLEAN /\ faults \in 0..MaxFaults /\ MaxFaults \in Nat
  BY TypeUnfold, SamplingAssumption DEF OuterOK
<1>3. excused' \in BOOLEAN /\ (excused => excused')
  BY <1>1, <1>2
<1>4. faults' \in 0..MaxFaults
  BY <1>1, <1>2 DEF Fails
<1>5. \A p \in Partition : committed'[p] = IF p \in S THEN nextOffset(r.parts[p]) ELSE committed[p]
  BY <1>1
<1>6. \A p \in Partition : p \in asked <=> (owner[p] = m /\ p \in Advanced(r, Q))
  BY DEF Owned
<1>7. ~excused' => ~excused /\ S = asked
  BY <1>1, <1>2
<1> HIDE DEF asked
<1>8. \A p \in Partition : Settling(r, Q, p, owner[p] = m, committed[p], committed'[p], excused, excused')
  <2> TAKE p \in Partition
  <2>1. p \in S => p \in asked
    BY <1>1
  <2>2. QED
    BY <1>5, <1>6, <1>7, <2>1 DEF Settling
<1>9. QED
  BY <1>1, <1>3, <1>4, <1>8 DEF Accepted

(* The records below the next offset are handled. *)
LEMMA BelowNext ==
  ASSUME NEW r, NEW P, NEW D, NEW X, EngineSound(r, {}, P, D, X), NEW p \in Partition, NEW n \in Nat,
         NEW F, F = P \cup dropped \cup r.dropped,
         r.parts[p].lastSeen >= 0, r.parts[p].lastSeen = n - 1,
         \A o \in 0..(n - 1) : HandledIn(log, F, p, o) \/ Listed(r.parts[p], o)
  PROVE  /\ nextOffset(r.parts[p]) \in Nat /\ nextOffset(r.parts[p]) <= n
         /\ \A o \in 0..(nextOffset(r.parts[p]) - 1) : HandledIn(log, F, p, o)
<1> DEFINE ps == r.parts[p]
           x == nextOffset(ps)
<1>1. r \in Engine /\ Ordered(r) /\ ps \in Part /\ ps.lastSeen \in Int
  BY EngineParts DEF EngineSound, EngineSoundAt
<1>2. /\ x <= ps.lastSeen + 1 /\ x \in Nat
      /\ \A i \in DOMAIN ps.entries : ps.entries[i].offset < x => i <= Settled(ps)
  BY <1>1, NextFacts
<1>3. \A i \in DOMAIN ps.entries : i <= Settled(ps) => ~(ps.entries[i].refs > 0)
  BY <1>1, SettledFacts
<1>4. ps.lastSeen = n - 1
  OBVIOUS
<1> HIDE DEF x
<1>5. x <= n
  BY <1>1, <1>2, <1>4
<1>6. ASSUME NEW o \in 0..(x - 1) PROVE HandledIn(log, F, p, o)
  <2>1. o \in 0..(n - 1) /\ o < x
    BY <1>2, <1>5
  <2>2. CASE Listed(ps, o)
    <3>1. PICK i \in DOMAIN ps.entries : ps.entries[i].offset = o
      BY <2>2 DEF Listed
    <3>2. ~(ps.entries[i].refs > 0)
      BY <1>2, <1>3, <2>1, <3>1
    <3> DEFINE k == <<p, o>>
    <3>3. k = <<p, r.parts[p].entries[i].offset>>
      BY <3>1
    <3> HIDE DEF k
    <3>4. \A s \in Span : InLog(log, s) /\ Key(s) = k => s \in P \cup dropped \cup r.dropped
      BY <3>1, <3>2, <3>3, SettledHandled
    <3>5. QED
      BY <3>4 DEF HandledIn, k
  <2>3. QED
    BY <2>1, <2>2
<1>7. QED
  BY <1>2, <1>5, <1>6 DEF x

ReadAfter(ps, p, f, w, n, c, d, Y, F) ==
    /\ ReadOk(ps, p, f, w, n, d, Y, log, F)
    /\ d \in Nat /\ c <= d
    /\ d = c \/ (d <= Len(log[p]) /\ \A o \in 0..(d - 1) : HandledIn(log, F, p, o))

LEMMA ReadCommitted ==
  ASSUME NEW r, NEW P, NEW D, NEW X0, EngineSound(r, {}, P, D, X0), NEW Q, NEW q, Commits(r, q, Q),
         NEW p \in Partition, NEW f, NEW w, w => f, NEW n \in Nat, NEW c \in Nat, NEW X,
         NEW F, F = P \cup dropped \cup r.dropped, ReadOk(r.parts[p], p, f, w, n, c, X, log, F),
         NEW d, NEW Y, Settling(r, Q, p, w, c, d, X, Y), Len(log[p]) \in Nat
  PROVE  ReadAfter(q.parts[p], p, f, w, n, c, d, Y, F)
<1> DEFINE a == r.parts[p]
           b == q.parts[p]
           x == nextOffset(a)
           A == p \in Advanced(r, Q)
<1>1. r \in Engine /\ q \in Engine /\ a \in Part /\ b \in Part /\ a.lastSeen \in Int /\ a.committed \in Int /\ x \in Int
  BY EngineParts, NextFacts DEF EngineSound, EngineSoundAt, Commits
<1>2. A <=> p \in Q /\ a.lastSeen >= 0 /\ x > a.committed
  BY DEF Advanced
<1>3. b.lastSeen = a.lastSeen /\ b.committed = IF A THEN x ELSE a.committed
  <2>1. CASE p \in Q
    BY <2>1 DEF Commits
  <2>2. CASE p \notin Q
    BY <1>2, <2>2 DEF Commits
  <2>3. QED
    BY <2>1, <2>2
<1>4. \A o : Listed(a, o) => Listed(b, o) \/ HandledIn(log, F, p, o)
  <2> SUFFICES ASSUME NEW o, Listed(a, o) PROVE Listed(b, o) \/ HandledIn(log, F, p, o)
    OBVIOUS
  <2>1. CASE p \notin Q
    BY <2>1 DEF Commits
  <2>2. CASE p \in Q
    <3>1. PICK i \in DOMAIN a.entries : a.entries[i].offset = o
      BY DEF Listed
    <3> DEFINE k == Settled(a)
    <3>2. k \in 0..Len(a.entries) /\ Len(a.entries) \in Nat /\ DOMAIN a.entries = 1..Len(a.entries)
          /\ \A j \in DOMAIN a.entries : j <= k => ~(a.entries[j].refs > 0)
      BY <1>1, SettledFacts
    <3>3. CASE i <= k
      <4>1. ~(a.entries[i].refs > 0)
        BY <3>1, <3>2, <3>3
      <4> DEFINE y == <<p, o>>
      <4>2. y = <<p, r.parts[p].entries[i].offset>>
        BY <3>1
      <4> HIDE DEF y
      <4>3. \A s \in Span : InLog(log, s) /\ Key(s) = y => s \in P \cup dropped \cup r.dropped
        BY <3>1, <4>1, <4>2, SettledHandled
      <4>4. QED
        BY <4>3 DEF HandledIn, y
    <3>4. CASE ~(i <= k)
      <4>1. /\ DOMAIN b.entries = 1..(Len(a.entries) - k)
            /\ \A j \in DOMAIN b.entries : b.entries[j] = a.entries[j + k]
        BY <2>2 DEF Commits
      <4> HIDE DEF k
      <4>2. i - k \in DOMAIN b.entries /\ (i - k) + k = i
        BY <3>1, <3>2, <3>4, <4>1
      <4>3. b.entries[i - k].offset = o
        BY <3>1, <4>1, <4>2
      <4>4. QED
        BY <4>2, <4>3 DEF Listed
    <3>5. QED
      BY <3>3, <3>4
  <2>3. QED
    BY <2>1, <2>2
<1>5. a = NewPart => b = NewPart
  <2> SUFFICES ASSUME a = NewPart PROVE b = NewPart
    OBVIOUS
  <2>1. a.lastSeen = -1 /\ a.committed = -1 /\ a.entries = <<>>
    BY DEF NewPart
  <2>2. ~A
    BY <1>2, <2>1
  <2>3. CASE p \notin Q
    BY <2>3 DEF Commits
  <2>4. CASE p \in Q
    <3>1. DOMAIN b.entries = 1..(Len(a.entries) - Settled(a)) /\ Settled(a) \in 0..Len(a.entries) /\ Len(a.entries) = 0
      BY <1>1, <2>1, <2>4, SettledFacts DEF Commits
    <3>2. DOMAIN b.entries = {} /\ DOMAIN a.entries = {}
      BY <2>1, <3>1
    <3>3. SamePart(a, b)
      BY <1>3, <2>2, <3>2 DEF SamePart
    <3>4. QED
      BY <1>1, <3>3, NewPartKept
  <2>5. QED
    BY <2>3, <2>4
<1>6. ReadOk(a, p, f, w, n, c, X, log, F) /\ Settling(r, Q, p, w, c, d, X, Y)
  OBVIOUS
<1>7. f => /\ n <= Len(log[p]) /\ (a.lastSeen >= 0 => a.lastSeen = n - 1)
           /\ \A o \in 0..(n - 1) : HandledIn(log, F, p, o) \/ Listed(a, o)
  BY <1>6 DEF ReadOk
<1>8. f /\ a.lastSeen >= 0 => x \in Nat /\ x <= n /\ \A o \in 0..(x - 1) : HandledIn(log, F, p, o)
  BY <1>7, BelowNext
<1>9. /\ d = c \/ (w /\ A /\ d = x)
      /\ ~Y => ~X /\ (w /\ A => d = x)
  BY <1>6 DEF Settling
<1>10. w => /\ a.lastSeen < 0 => c = n
            /\ a.lastSeen >= 0 => /\ c <= a.committed /\ c <= n
                                  /\ ~X => c = a.committed
  BY <1>6 DEF ReadOk
<1> HIDE DEF a, b, x, A
<1>11. d \in Nat /\ c <= d /\ (d = c \/ (d <= Len(log[p]) /\ \A o \in 0..(d - 1) : HandledIn(log, F, p, o)))
  <2>1. CASE d = c
    BY <2>1
  <2>2. CASE w /\ A /\ d = x
    <3>1. f /\ a.lastSeen >= 0 /\ x > a.committed /\ d = x
      BY <1>2, <2>2
    <3>2. x \in Nat /\ x <= n /\ n <= Len(log[p]) /\ \A o \in 0..(x - 1) : HandledIn(log, F, p, o)
      BY <1>7, <1>8, <3>1
    <3>3. c <= a.committed
      BY <1>10, <2>2, <3>1
    <3>4. c <= x /\ x <= Len(log[p])
      BY <1>1, <3>1, <3>2, <3>3
    <3>5. QED
      BY <3>1, <3>2, <3>4
  <2>3. QED
    BY <1>9, <2>1, <2>2
<1>12. ~f => b = NewPart /\ n = 0
  BY <1>5, <1>6 DEF ReadOk
<1>13. f => \A o \in 0..(n - 1) : HandledIn(log, F, p, o) \/ Listed(b, o)
  BY <1>4, <1>7
<1>14. w => /\ b.lastSeen < 0 => d = n
            /\ b.lastSeen >= 0 => /\ d <= b.committed /\ d <= n
                                  /\ ~Y => d = b.committed
  <2> SUFFICES ASSUME w
               PROVE  /\ b.lastSeen < 0 => d = n
                      /\ b.lastSeen >= 0 => /\ d <= b.committed /\ d <= n
                                            /\ ~Y => d = b.committed
    OBVIOUS
  <2>1. CASE A
    BY <1>1, <1>2, <1>3, <1>8, <1>9, <1>10, <2>1
  <2>2. CASE ~A
    BY <1>1, <1>3, <1>9, <1>10, <2>2
  <2>3. QED
    BY <2>1, <2>2
<1>15. ReadOk(b, p, f, w, n, d, Y, log, F)
  BY <1>3, <1>7, <1>12, <1>13, <1>14 DEF ReadOk
<1>16. QED
  BY <1>11, <1>15 DEF b, ReadAfter

-----------------------------------------------------------------------------
(* The flush. *)

LEMMA RemembersTransitive ==
  ASSUME NEW e, NEW q, NEW r, Remembers(e, q), Remembers(q, r)
  PROVE  Remembers(e, r)
<1>1. \A d \in DOMAIN e.cache : e.cache[d].id \in r.forgot \/ \E c \in DOMAIN r.cache : r.cache[c] = e.cache[d]
  <2> TAKE d \in DOMAIN e.cache
  <2>1. e.cache[d].id \in q.forgot \/ \E c \in DOMAIN q.cache : q.cache[c] = e.cache[d]
    BY DEF Remembers
  <2>2. QED
    BY <2>1 DEF Remembers
<1>2. QED
  BY <1>1 DEF Remembers

LEMMA SoundExcused ==
  ASSUME NEW e, NEW U, NEW P, NEW D, NEW X, EngineSound(e, U, P, D, X), NEW Y, X => Y
  PROVE  EngineSound(e, U, P, D, Y)
BY DEF EngineSound, EngineSoundAt

(* The spans of the outputs are of records of m, and were decided. *)
LEMMA OutputFacts ==
  ASSUME IInv, NEW m \in Member, NEW d, EngineSound(d, {}, produced, discarded, excused), Keeps(eng[m], d), NEW x \in Spans(d.out)
  PROVE  x \in Span /\ InLog(log, x) /\ HasEntry(eng[m].parts, Key(x)) /\ KeptIn(d, x) /\ (~excused => x \notin produced)
<1>1. InOut(d, x)
  BY SpansAre
<1>2. HasEntry(d.parts, Key(x)) /\ InLog(log, x) /\ x \in Span
  BY <1>1, HeldEntry DEF EngineSound, EngineSoundAt
<1>3. Key(x)[1] \in Partition
  BY <1>2, KeyOf
<1>4. HasEntry(eng[m].parts, Key(x))
  BY <1>2, <1>3, EntryOffsets DEF Keeps
<1>5. KeptIn(d, x)
  BY <1>1, <1>2 DEF EngineSound, EngineSoundAt, Decided, KeptIn
<1>6. ~excused => x \notin produced
  BY <1>1, <1>2 DEF EngineSound, EngineSoundAt, Once
<1>7. QED
  BY <1>2, <1>4, <1>5, <1>6

(* What the spans S do to the topic. *)
LEMMA WriteFacts ==
  ASSUME IInv, NEW m \in Member, NEW d, EngineSound(d, {}, produced, discarded, excused), Keeps(eng[m], d),
         NEW S, S \subseteq Spans(d.out), Write(S)
  PROVE  /\ produced' = produced \cup S /\ dups' \subseteq produced'
         /\ ~excused => dups' = dups
         /\ \A x \in produced' : x \in produced \/
              (x \in Span /\ InLog(log, x) /\ HasEntry(eng[m].parts, Key(x)) /\ KeptIn(d, x))
<1>1. \A x \in S : x \in Span /\ InLog(log, x) /\ HasEntry(eng[m].parts, Key(x)) /\ KeptIn(d, x) /\ (~excused => x \notin produced)
  BY OutputFacts
<1>2. dups \subseteq produced
  BY TypeFacts
<1>3. QED
  BY <1>1, <1>2 DEF Write

(* The records of d are released, and what is settled of Q committed: c is left. *)
Flushed(m, d, c, Q) ==
    /\ EngineSound(c, {}, produced', discarded, excused') /\ Remembers(eng[m], c)
    /\ c.out = <<>> /\ c.traces = d.traces /\ c.dropped = d.dropped
    /\ produced \subseteq produced' /\ (excused => excused') /\ (~excused' => dups' = dups) /\ dups' \subseteq produced'
    /\ excused' \in BOOLEAN /\ faults' \in 0..MaxFaults /\ committed' \in [Partition -> Nat]
    /\ \A x \in produced' : x \in produced \/
         (x \in Span /\ InLog(log, x) /\ HasEntry(eng[m].parts, Key(x)) /\ KeptIn(c, x))
    /\ \A p \in Partition :
         ReadOk(c.parts[p], p, owner[p] = m \/ p \in lost[m], owner[p] = m, pos[m][p], committed'[p],
                excused', log, produced' \cup dropped \cup c.dropped)
    /\ \A p \in Partition :
         /\ committed[p] <= committed'[p]
         /\ owner[p] # m => committed'[p] = committed[p]
         /\ committed'[p] = committed[p] \/
              /\ committed'[p] <= Len(log[p])
              /\ \A o \in 0..(committed'[p] - 1) : HandledIn(log, produced' \cup dropped \cup c.dropped, p, o)

LEMMA FlushFacts ==
  ASSUME IInv, NEW m \in Member, NEW d, EngineSound(d, {}, produced, discarded, excused), Keeps(eng[m], d),
         Write(Spans(d.out)), NEW r, r = Release(d), NEW Q, Accepted(m, r, Q), NEW c, c = CommitOffsets(r, Q)
  PROVE  Flushed(m, d, c, Q)
<1> DEFINE V == Spans(d.out)
<1>1. d \in Engine
  BY DEF EngineSound, EngineSoundAt
<1>2. Releases(d, r)
  BY <1>1, ReleaseEffect
<1>3. EngineSound(r, {}, produced \cup V, discarded, excused) /\ Keeps(d, r)
  BY <1>2, ReleaseSound
<1>4. r.out = <<>> /\ r.traces = d.traces /\ r.dropped = d.dropped /\ r \in Engine /\ Ordered(r)
  BY <1>2, <1>3 DEF Releases, EngineSound, EngineSoundAt
<1>5. Commits(r, c, Q)
  BY <1>4, CommitEffect
<1>6. /\ produced' = produced \cup V /\ dups' \subseteq produced'
      /\ ~excused => dups' = dups
      /\ \A x \in produced' : x \in produced \/
           (x \in Span /\ InLog(log, x) /\ HasEntry(eng[m].parts, Key(x)) /\ KeptIn(d, x))
  BY WriteFacts
<1> HIDE DEF V
<1>7. EngineSound(c, {}, produced', discarded, excused) /\ Remembers(r, c)
  BY <1>3, <1>5, <1>6, CommitSound
<1>8. EngineSound(c, {}, produced', discarded, excused')
  BY <1>7, SoundExcused DEF Accepted
<1>9. Remembers(d, c)
  BY <1>3, <1>7, RemembersTransitive DEF Keeps
<1>10. Remembers(eng[m], c)
  BY <1>9, RemembersTransitive DEF Keeps
<1>11. c.out = <<>> /\ c.traces = d.traces /\ c.dropped = d.dropped
  BY <1>4, <1>5 DEF Commits
<1>12. \A x : KeptIn(d, x) => KeptIn(c, x)
  BY <1>9, KeptLater
<1> DEFINE F == produced' \cup dropped \cup r.dropped
<1>13. ASSUME NEW p \in Partition
       PROVE  /\ ReadOk(c.parts[p], p, owner[p] = m \/ p \in lost[m], owner[p] = m, pos[m][p], committed'[p], excused', log, F)
              /\ committed'[p] \in Nat /\ committed[p] <= committed'[p]
              /\ owner[p] # m => committed'[p] = committed[p]
              /\ committed'[p] = committed[p] \/
                   (committed'[p] <= Len(log[p]) /\ \A o \in 0..(committed'[p] - 1) : HandledIn(log, F, p, o))
  <2> DEFINE f == owner[p] = m \/ p \in lost[m]
             w == owner[p] = m
  <2>1. SameEntries(eng[m], r)
    <3>1. Keeps(eng[m], r)
      BY <1>3, KeepsTransitive
    <3>2. QED
      BY <3>1 DEF Keeps
  <2>2. ReadOk(r.parts[p], p, f, w, pos[m][p], committed[p], excused, log, produced \cup dropped)
    BY <1>4, <2>1, EngineReads
  <2>3. produced \cup dropped \subseteq F
    BY <1>6
  <2>4. Settling(r, Q, p, w, committed[p], committed'[p], excused, excused')
    BY DEF Accepted
  <2>5. w => f
    OBVIOUS
  <2>6. pos[m][p] \in Nat /\ committed[p] \in Nat /\ Len(log[p]) \in Nat
    BY TypeFacts
  <2>7. EngineSound(r, {}, produced', discarded, excused)
    BY <1>3, <1>6
  <2>8. F = produced' \cup dropped \cup r.dropped
    OBVIOUS
  <2>9. w \in BOOLEAN /\ (owner[p] # m => ~w)
    OBVIOUS
  <2> HIDE DEF f, w, F
  <2>10. ReadOk(r.parts[p], p, f, w, pos[m][p], committed[p], excused, log, F)
    BY ONLY <2>2, <2>3, ReadMore
  <2>11. /\ ReadOk(c.parts[p], p, f, w, pos[m][p], committed'[p], excused', log, F)
         /\ committed'[p] \in Nat /\ committed[p] <= committed'[p]
         /\ committed'[p] = committed[p] \/
              (committed'[p] <= Len(log[p]) /\ \A o \in 0..(committed'[p] - 1) : HandledIn(log, F, p, o))
    <3>1. ReadAfter(c.parts[p], p, f, w, pos[m][p], committed[p], committed'[p], excused', F)
      BY <1>5, <2>4, <2>5, <2>6, <2>7, <2>8, <2>10, ReadCommitted
    <3>2. QED
      BY <3>1 DEF ReadAfter
  <2>12. owner[p] # m => committed'[p] = committed[p]
    BY <2>4, <2>9 DEF Settling
  <2>13. QED
    BY <2>11, <2>12 DEF f, w
<1>14. committed' \in [Partition -> Nat]
  BY <1>13 DEF Accepted
<1>15. F = produced' \cup dropped \cup c.dropped
  BY <1>4, <1>11
<1> HIDE DEF F
<1>16. excused' \in BOOLEAN /\ faults' \in 0..MaxFaults /\ (excused => excused')
  BY DEF Accepted
<1>17. produced \subseteq produced'
  BY <1>6
<1>18. \A x \in produced' : x \in produced \/
           (x \in Span /\ InLog(log, x) /\ HasEntry(eng[m].parts, Key(x)) /\ KeptIn(c, x))
  BY <1>6, <1>12
<1>19. ~excused' => dups' = dups
  BY <1>6, <1>16
<1>20. dups' \subseteq produced'
  BY <1>6
<1>21. \A p \in Partition :
         ReadOk(c.parts[p], p, owner[p] = m \/ p \in lost[m], owner[p] = m, pos[m][p], committed'[p],
                excused', log, produced' \cup dropped \cup c.dropped)
  BY <1>13, <1>15
<1>22. \A p \in Partition :
         /\ committed[p] <= committed'[p]
         /\ owner[p] # m => committed'[p] = committed[p]
         /\ committed'[p] = committed[p] \/
              /\ committed'[p] <= Len(log[p])
              /\ \A o \in 0..(committed'[p] - 1) : HandledIn(log, produced' \cup dropped \cup c.dropped, p, o)
  BY <1>13, <1>15
<1>23. QED
  BY <1>8, <1>10, <1>11, <1>14, <1>16, <1>17, <1>18, <1>19, <1>20, <1>21, <1>22 DEF Flushed

(* The flush of a poll or of shutdown: the engine then goes on from c to e. *)
LEMMA FlushStep ==
  ASSUME IInv, NEW m \in Member, NEW c, Flushed(m, eng[m], c, Partition),
         NEW e, SetEngine(m, e), EngineSound(e, {}, produced', discarded, excused'), Keeps(c, e),
         UNCHANGED <<log, owner, pos, lost, discarded>>, OuterOK'
  PROVE  IInv' /\ Onward
<1>1. log' = log /\ owner' = owner /\ pos' = pos /\ lost' = lost /\ discarded' = discarded
  OBVIOUS
<1>2. e \in Engine /\ SameEntries(c, e) /\ Remembers(c, e) /\ c.dropped \subseteq e.dropped
  BY DEF EngineSound, EngineSoundAt, Keeps
<1>3. EngineStep(m, e)
  <2>1. Remembers(eng[m], e)
    BY <1>2, RemembersTransitive DEF Flushed
  <2>2. \A x : KeptIn(c, x) => KeptIn(e, x)
    BY <1>2, KeptLater
  <2>3. \A x \in produced' : x \in produced \/
         (x \in Span /\ InLog(log, x) /\ HasEntry(eng[m].parts, Key(x)) /\ KeptIn(e, x))
    BY <2>2 DEF Flushed
  <2>4. QED
    BY <1>1, <2>1, <2>3 DEF EngineStep, Flushed
<1>4. dropped \cup c.dropped \subseteq dropped'
  BY <1>2 DEF SetEngine
<1>5. produced' \cup dropped \cup c.dropped \subseteq produced' \cup dropped'
  BY <1>4
<1>6. Bystanders(m)
  BY <1>1 DEF Bystanders, Flushed
<1>7. Committing
  <2> SUFFICES ASSUME NEW p \in Partition, committed'[p] # committed[p]
               PROVE  /\ committed'[p] <= Len(log[p])
                      /\ \A o \in 0..(committed'[p] - 1) : HandledIn(log, produced' \cup dropped', p, o)
    BY DEF Committing, Flushed
  <2>1. /\ committed'[p] <= Len(log[p])
        /\ \A o \in 0..(committed'[p] - 1) : HandledIn(log, produced' \cup dropped \cup c.dropped, p, o)
    BY DEF Flushed
  <2>2. \A o : HandledIn(log, produced' \cup dropped \cup c.dropped, p, o) => HandledIn(log, produced' \cup dropped', p, o)
    BY <1>5, HandledLater
  <2>3. QED
    BY <2>1, <2>2
<1>8. Reading(m, e)
  <2>1. ASSUME NEW p \in Partition
        PROVE  ReadOk(e.parts[p], p, owner'[p] = m \/ p \in lost'[m], owner'[p] = m, pos'[m][p], committed'[p],
                      excused', log, produced' \cup dropped')
    <3> DEFINE f == owner[p] = m \/ p \in lost[m]
               w == owner[p] = m
    <3>1. ReadOk(c.parts[p], p, f, w, pos[m][p], committed'[p], excused', log, produced' \cup dropped \cup c.dropped)
      BY DEF Flushed
    <3>2. SamePart(c.parts[p], e.parts[p]) /\ e.parts[p] \in Part
      BY <1>2, EngineParts DEF SameEntries, SamePart
    <3> HIDE DEF f, w
    <3>3. ReadOk(c.parts[p], p, f, w, pos[m][p], committed'[p], excused', log, produced' \cup dropped')
      BY <1>5, <3>1, ReadLater
    <3>4. ReadOk(e.parts[p], p, f, w, pos[m][p], committed'[p], excused', log, produced' \cup dropped')
      BY <3>2, <3>3, ReadKept
    <3>5. QED
      BY <1>1, <3>4 DEF f, w
  <2>2. lost'[m] # {} => excused' /\ \A p \in Partition : owner'[p] # m
    BY <1>1, MemberFacts DEF Flushed
  <2>3. QED
    BY <2>1, <2>2 DEF Reading
<1>9. Excusing
  <2>1. (\A x \in discarded : InLog(log, x)) /\ (dups # {} \/ discarded # {} => excused)
    BY OldHistories
  <2>2. dups' # {} \/ discarded' # {} => excused'
    BY <1>1, <2>1 DEF Flushed
  <2>3. \A p \in Partition : Reach(p) <= Reach(p)'
    <3> TAKE p \in Partition
    <3>1. CASE owner[p] = NoMember
      BY <1>1, <3>1 DEF Reach, Flushed
    <3>2. CASE owner[p] # NoMember
      <4>1. Reach(p)' = Reach(p)
        BY <1>1, <3>2 DEF Reach
      <4>2. QED
        BY <4>1, ReachIs
    <3>3. QED
      BY <3>1, <3>2
  <2>4. QED
    BY <1>1, <2>1, <2>2, <2>3 DEF Excusing
<1>10. QED
  BY <1>3, <1>6, <1>7, <1>8, <1>9, MemberStepSound

LEMMA KeepsItself ==
  ASSUME NEW e
  PROVE  Keeps(e, e)
BY DEF Keeps, SameEntries, Remembers

LEMMA FlushDoneSound ==
  ASSUME IInv, NEW m \in Member, FlushDone(m)
  PROVE  IInv' /\ Onward
<1> DEFINE r == Release(eng[m])
           c == CommitOffsets(r, Partition)
<1>1. /\ Write(Spans(eng[m].out)) /\ Commit(m, r, Advanced(r, Partition)) /\ SetEngine(m, c)
      /\ log' = log /\ owner' = owner /\ pos' = pos /\ lost' = lost /\ gone' = gone /\ cancelled' = cancelled
      /\ discarded' = discarded /\ revokes' = revokes
      /\ pc' = [pc EXCEPT ![m] = CASE @ = "mid" -> "add" [] @ = "flush" -> "poll" [] @ = "final" -> "exit"]
      /\ pc[m] \in {"mid", "flush", "final"}
  BY DEF FlushDone
<1>2. EngineSound(eng[m], {}, produced, discarded, excused) /\ Keeps(eng[m], eng[m])
  BY MemberFacts, KeepsItself
<1> HIDE DEF r
<1>3. Accepted(m, r, Partition)
  BY <1>1, CommitFacts
<1>4. Flushed(m, eng[m], c, Partition)
  BY <1>1, <1>2, <1>3, FlushFacts DEF r
<1> HIDE DEF c
<1>5. OuterOK'
  <2>1. OuterOK
    BY TypeUnfold
  <2>2. pc' \in [Member -> {"poll", "add", "mid", "flush", "final", "exit", "down"}]
    BY <1>1, <2>1 DEF OuterOK
  <2>3. QED
    BY <1>1, <1>4, <2>1, <2>2 DEF OuterOK, GroupTypeOK, Flushed
<1>6. EngineSound(c, {}, produced', discarded, excused') /\ Keeps(c, c)
  BY <1>4, KeepsItself DEF Flushed
<1>7. QED
  BY <1>1, <1>4, <1>5, <1>6, FlushStep

LEMMA FlushLastSound ==
  ASSUME IInv, NEW m \in Member, FlushLast(m)
  PROVE  IInv' /\ Onward
<1> DEFINE r == Release(eng[m])
           c == CommitOffsets(r, Partition)
<1>1. PICK keep \in Verdicts :
             /\ Write(Spans(eng[m].out))
             /\ Commit(m, r, Advanced(r, Partition))
             /\ SetEngine(m, decideFirst(c, Len(c.traces), keep))
  BY DEF FlushLast
<1> DEFINE e == decideFirst(c, Len(c.traces), keep)
<1>2. /\ Write(Spans(eng[m].out)) /\ Commit(m, r, Advanced(r, Partition)) /\ SetEngine(m, e)
      /\ log' = log /\ owner' = owner /\ pos' = pos /\ lost' = lost /\ gone' = gone /\ cancelled' = cancelled
      /\ discarded' = discarded /\ revokes' = revokes /\ pc' = [pc EXCEPT ![m] = "final"]
  BY <1>1 DEF FlushLast
<1>3. EngineSound(eng[m], {}, produced, discarded, excused) /\ Keeps(eng[m], eng[m])
  BY MemberFacts, KeepsItself
<1> HIDE DEF r
<1>4. Accepted(m, r, Partition)
  BY <1>2, CommitFacts
<1>5. Flushed(m, eng[m], c, Partition)
  BY <1>2, <1>3, <1>4, FlushFacts DEF r
<1> HIDE DEF c
<1>6. OuterOK'
  BY <1>2, <1>5, TypeUnfold DEF OuterOK, GroupTypeOK, Flushed
<1>7. EngineSound(c, {}, produced', discarded, excused')
  BY <1>5 DEF Flushed
<1>8. EngineSound(e, {}, produced', discarded, excused') /\ Keeps(c, e)
  BY <1>7, DecideFirstSound
<1> HIDE DEF e
<1>9. QED
  BY <1>2, <1>5, <1>6, <1>8, FlushStep

-----------------------------------------------------------------------------
(* onGone. *)

(* Nothing refers to the records of p: all of them are settled. *)
LEMMA AllSettled ==
  ASSUME NEW r, NEW P, NEW X, EngineSound(r, {}, P, {}, X), NEW p \in Partition, FreeOf(r, {p})
  PROVE  Settled(r.parts[p]) = Len(r.parts[p].entries) /\ nextOffset(r.parts[p]) = r.parts[p].lastSeen + 1
<1> DEFINE a == r.parts[p]
<1>1. r \in Engine /\ a \in Part /\ Ordered(r)
  BY EngineParts DEF EngineSound, EngineSoundAt
<1>2. ASSUME NEW i \in DOMAIN a.entries PROVE ~(a.entries[i].refs > 0)
  <2> DEFINE k == <<p, a.entries[i].offset>>
  <2>1. GivenUp({}) = {}
    BY DEF GivenUp
  <2>2. a.entries[i].refs = Users(r, k)
    BY <2>1 DEF EngineSound, EngineSoundAt, Counted
  <2>3. (\A j \in DOMAIN r.traces : k \notin r.traces[j].refs) /\ (\A j \in DOMAIN r.out : k \notin r.out[j].refs)
    BY DEF FreeOf
  <2>4. r.traces \in Seq(TraceRec) /\ r.out \in Seq(OutRec)
    BY <1>1, EngineType
  <2> HIDE DEF k
  <2>5. Count(r.traces, k) = 0 /\ Count(r.out, k) = 0
    BY <2>3, <2>4, CountFinite
  <2>6. Users(r, k) = 0
    BY <2>5 DEF Users
  <2>7. QED
    BY <2>2, <2>6
<1>3. Settled(a) = Len(a.entries)
  <2>1. /\ Settled(a) \in 0..Len(a.entries) /\ Len(a.entries) \in Nat /\ DOMAIN a.entries = 1..Len(a.entries)
        /\ Settled(a) < Len(a.entries) => a.entries[Settled(a) + 1].refs > 0
    BY <1>1, SettledFacts
  <2>2. Settled(a) < Len(a.entries) => Settled(a) + 1 \in DOMAIN a.entries
    BY <2>1
  <2>3. QED
    BY <1>2, <2>1, <2>2
<1>4. nextOffset(a) = a.lastSeen + 1
  BY <1>1, <1>3, NextFacts
<1>5. QED
  BY <1>3, <1>4

(* Without a fault, what was read of a partition is committed when it is given up. *)
LEMMA AllCommitted ==
  ASSUME IInv, NEW m \in Member, NEW d, EngineSound(d, {}, produced, discarded, excused), Keeps(eng[m], d),
         Write(Spans(d.out)), NEW r, r = Release(d), NEW Q, Accepted(m, r, Q), NEW c, c = CommitOffsets(r, Q),
         NEW p \in Partition, p \in Q, owner[p] = m, ~excused',
         \A k \in DOMAIN d.traces : \A x \in d.traces[k].refs : x[1] \notin Q
  PROVE  committed'[p] = pos[m][p]
<1> DEFINE n == pos[m][p]
<1>1. d \in Engine /\ Releases(d, r)
  BY ReleaseEffect DEF EngineSound, EngineSoundAt
<1>2. ~excused /\ discarded = {}
  BY OldHistories DEF Accepted
<1>3. EngineSound(r, {}, produced \cup Spans(d.out), {}, excused)
  BY <1>1, <1>2, ReleaseSound
<1>4. FreeOf(r, {p})
  BY <1>1 DEF Releases, FreeOf
<1>5. nextOffset(r.parts[p]) = r.parts[p].lastSeen + 1
  BY <1>3, <1>4, AllSettled
<1>6. r \in Engine /\ Ordered(r) /\ r.parts[p].lastSeen \in Int /\ r.parts[p].committed \in Int
  BY <1>3, EngineParts DEF EngineSound, EngineSoundAt
<1>7. Commits(r, c, Q)
  BY <1>6, CommitEffect
<1>8. /\ c.parts[p].lastSeen = r.parts[p].lastSeen
      /\ c.parts[p].committed = IF p \in Advanced(r, Q) THEN nextOffset(r.parts[p]) ELSE r.parts[p].committed
  BY <1>7 DEF Commits
<1>9. p \in Advanced(r, Q) <=> r.parts[p].lastSeen >= 0 /\ nextOffset(r.parts[p]) > r.parts[p].committed
  BY DEF Advanced
<1>10. Flushed(m, d, c, Q)
  BY FlushFacts
<1>11. ReadOk(c.parts[p], p, owner[p] = m \/ p \in lost[m], owner[p] = m, n, committed'[p],
              excused', log, produced' \cup dropped \cup c.dropped)
  BY <1>10 DEF Flushed
<1>12. /\ c.parts[p].lastSeen >= 0 => c.parts[p].lastSeen = n - 1
       /\ c.parts[p].lastSeen < 0 => committed'[p] = n
       /\ c.parts[p].lastSeen >= 0 => committed'[p] <= n /\ committed'[p] = c.parts[p].committed
  BY <1>11 DEF ReadOk
<1>13. n \in Nat /\ committed'[p] \in Nat
  BY <1>10, TypeFacts DEF Flushed
<1> HIDE DEF n
<1>14. n = committed'[p]
  BY <1>5, <1>6, <1>8, <1>9, <1>12, <1>13
<1>15. QED
  BY <1>14 DEF n

(***************************************************************************)
(* What onGone leaves of m: an engine q without the partitions P.          *)
(***************************************************************************)
GoneTo(m, P, how, q) ==
    /\ SetEngine(m, q)
    /\ EngineSound(q, {}, produced', discarded', excused') /\ Remembers(eng[m], q)
    /\ produced \subseteq produced' /\ discarded \subseteq discarded' /\ (excused => excused')
    /\ dups' \subseteq produced' /\ discarded' \subseteq Span /\ excused' \in BOOLEAN /\ faults' \in 0..MaxFaults
    /\ committed' \in [Partition -> Nat]
    /\ \A x \in produced' : x \in produced \/
         (x \in Span /\ InLog(log, x) /\ HasEntry(eng[m].parts, Key(x)) /\ KeptIn(q, x))
    /\ \A x \in discarded' : InLog(log, x)
    /\ dups' # {} \/ discarded' # {} => excused'
    /\ \A p \in Partition :
         /\ committed[p] <= committed'[p]
         /\ owner[p] # m => committed'[p] = committed[p]
         /\ committed'[p] = committed[p] \/
              /\ committed'[p] <= Len(log[p])
              /\ \A o \in 0..(committed'[p] - 1) : HandledIn(log, produced' \cup dropped', p, o)
         /\ p \in P \/ how = "closed" => q.parts[p] = NewPart
         /\ p \notin P /\ how # "closed" =>
              ReadOk(q.parts[p], p, owner[p] = m \/ p \in lost[m], owner[p] = m, pos[m][p], committed'[p],
                     excused', log, produced' \cup dropped')
         /\ ~excused' /\ p \in P /\ owner[p] = m /\ how # "lost" => committed'[p] = pos[m][p]

LEMMA GoneSound ==
  ASSUME NEW c, NEW P, NEW D, NEW X, EngineSound(c, {}, P, D, X), NEW Q, FreeOf(c, Q), NEW how, NEW q, q = Gone(c, Q, how)
  PROVE  /\ EngineSound(q, {}, P, D, X) /\ Remembers(c, q) /\ c.dropped \subseteq q.dropped
         /\ \A p \in Partition : q.parts[p] = IF p \in Q \/ how = "closed" THEN NewPart ELSE c.parts[p]
<1>1. CASE how = "closed"
  <2>1. q = Ended(c)
    BY <1>1 DEF Gone
  <2>2. EngineSound(q, {}, P, D, X) /\ Remembers(c, q) /\ c.dropped \subseteq q.dropped /\ q.parts = NewEngine.parts
    BY <2>1, EndedSound
  <2>3. \A p \in Partition : NewEngine.parts[p] = NewPart
    BY DEF NewEngine
  <2>4. QED
    BY <1>1, <2>2, <2>3
<1>2. CASE how # "closed"
  <2>1. q = DropPartitions(c, Q)
    BY <1>2 DEF Gone
  <2>2. QED
    BY <1>2, <2>1, DropPartsSound
<1>3. QED
  BY <1>1, <1>2

LEMMA GoneProducedFacts ==
  ASSUME IInv, NEW m \in Member, NEW P, P \subseteq Partition, NEW how, GoneProduced(m, P, how),
         how = "lost" => \A p \in P : owner[p] # m
  PROVE  \E q : GoneTo(m, P, how, q)
<1>1. PICK keep \in Verdicts :
        LET e == DecidePartitions(eng[m], P, keep)
            r == Release(e)
        IN  /\ Write(Spans(e.out))
            /\ IF how = "lost" THEN UNCHANGED <<committed, excused, faults>>
                               ELSE Commit(m, r, Advanced(r, P))
            /\ SetEngine(m, Gone(CommitOffsets(r, P), P, how))
            /\ UNCHANGED discarded
  BY DEF GoneProduced
<1> DEFINE d == DecidePartitions(eng[m], P, keep)
           r == Release(d)
           c == CommitOffsets(r, P)
           q == Gone(c, P, how)
<1>2. /\ Write(Spans(d.out)) /\ SetEngine(m, q) /\ discarded' = discarded
      /\ how = "lost" => committed' = committed /\ excused' = excused /\ faults' = faults
      /\ how # "lost" => Commit(m, r, Advanced(r, P))
  BY <1>1
<1>3. /\ EngineSound(d, {}, produced, discarded, excused) /\ Keeps(eng[m], d)
      /\ \A k \in DOMAIN d.traces : \A x \in d.traces[k].refs : x[1] \notin P
  BY MemberFacts, DecidePartsSound
<1> HIDE DEF d
<1>4. Accepted(m, r, P)
  <2> HIDE DEF r
  <2>1. CASE how # "lost"
    BY <1>2, <2>1, CommitFacts
  <2>2. CASE how = "lost"
    <3>1. \A p \in Partition : p \in Advanced(r, P) => owner[p] # m
      BY <2>2 DEF Advanced
    <3>2. \A p \in Partition : Settling(r, P, p, owner[p] = m, committed[p], committed'[p], excused, excused')
      BY <1>2, <2>2, <3>1 DEF Settling
    <3>3. excused \in BOOLEAN /\ faults \in 0..MaxFaults /\ committed = [p \in Partition |-> committed[p]]
      BY TypeUnfold DEF OuterOK, GroupTypeOK
    <3>4. QED
      BY <1>2, <2>2, <3>2, <3>3 DEF Accepted
  <2>3. QED
    BY <2>1, <2>2
<1>5. ~excused' => \A p \in Partition : p \in P /\ owner[p] = m => committed'[p] = pos[m][p]
  BY <1>2, <1>3, <1>4, AllCommitted
<1>6. Flushed(m, d, c, P)
  BY <1>2, <1>3, <1>4, FlushFacts
<1> HIDE DEF c
<1>7. EngineSound(c, {}, produced', discarded, excused') /\ Remembers(eng[m], c) /\ c.out = <<>> /\ c.traces = d.traces
  BY <1>6 DEF Flushed
<1>8. FreeOf(c, P)
  <2>1. DOMAIN c.out = {}
    BY <1>7
  <2>2. QED
    BY <1>3, <1>7, <2>1 DEF FreeOf
<1>9. /\ EngineSound(q, {}, produced', discarded, excused') /\ Remembers(c, q) /\ c.dropped \subseteq q.dropped
      /\ \A p \in Partition : q.parts[p] = IF p \in P \/ how = "closed" THEN NewPart ELSE c.parts[p]
  BY <1>7, <1>8, GoneSound
<1> HIDE DEF q
<1>10. Remembers(eng[m], q)
  BY <1>7, <1>9, RemembersTransitive
<1>11. \A x : KeptIn(c, x) => KeptIn(q, x)
  BY <1>9, KeptLater
<1>12. \A x \in produced' : x \in produced \/
         (x \in Span /\ InLog(log, x) /\ HasEntry(eng[m].parts, Key(x)) /\ KeptIn(q, x))
  BY <1>6, <1>11 DEF Flushed
<1>13. produced' \cup dropped \cup c.dropped \subseteq produced' \cup dropped'
  BY <1>2, <1>9 DEF SetEngine
<1>14. (\A x \in discarded : InLog(log, x)) /\ (dups # {} \/ discarded # {} => excused) /\ discarded \subseteq Span
  BY OldHistories, TypeFacts
<1>15. dups' # {} \/ discarded' # {} => excused'
  BY <1>2, <1>6, <1>14 DEF Flushed
<1>16. ASSUME NEW p \in Partition
       PROVE  /\ committed[p] <= committed'[p]
              /\ owner[p] # m => committed'[p] = committed[p]
              /\ committed'[p] = committed[p] \/
                   /\ committed'[p] <= Len(log[p])
                   /\ \A o \in 0..(committed'[p] - 1) : HandledIn(log, produced' \cup dropped', p, o)
              /\ p \in P \/ how = "closed" => q.parts[p] = NewPart
              /\ p \notin P /\ how # "closed" =>
                   ReadOk(q.parts[p], p, owner[p] = m \/ p \in lost[m], owner[p] = m, pos[m][p], committed'[p],
                          excused', log, produced' \cup dropped')
  <2>1. /\ committed[p] <= committed'[p]
        /\ owner[p] # m => committed'[p] = committed[p]
        /\ committed'[p] = committed[p] \/
             /\ committed'[p] <= Len(log[p])
             /\ \A o \in 0..(committed'[p] - 1) : HandledIn(log, produced' \cup dropped \cup c.dropped, p, o)
    BY <1>6 DEF Flushed
  <2>2. \A o : HandledIn(log, produced' \cup dropped \cup c.dropped, p, o) => HandledIn(log, produced' \cup dropped', p, o)
    BY <1>13, HandledLater
  <2>3. committed'[p] = committed[p] \/
          /\ committed'[p] <= Len(log[p])
          /\ \A o \in 0..(committed'[p] - 1) : HandledIn(log, produced' \cup dropped', p, o)
    BY <2>1, <2>2
  <2>4. p \in P \/ how = "closed" => q.parts[p] = NewPart
    BY <1>9
  <2>5. ASSUME p \notin P, how # "closed"
        PROVE  ReadOk(q.parts[p], p, owner[p] = m \/ p \in lost[m], owner[p] = m, pos[m][p], committed'[p],
                      excused', log, produced' \cup dropped')
    <3> DEFINE f == owner[p] = m \/ p \in lost[m]
               w == owner[p] = m
    <3>1. ReadOk(c.parts[p], p, f, w, pos[m][p], committed'[p], excused', log, produced' \cup dropped \cup c.dropped)
      BY <1>6 DEF Flushed
    <3>2. q.parts[p] = c.parts[p]
      BY <1>9, <2>5
    <3> HIDE DEF f, w
    <3>3. ReadOk(c.parts[p], p, f, w, pos[m][p], committed'[p], excused', log, produced' \cup dropped')
      BY ONLY <1>13, <3>1, ReadMore
    <3>4. QED
      BY <3>2, <3>3 DEF f, w
  <2>6. QED
    BY <2>1, <2>3, <2>4, <2>5
<1>17. GoneTo(m, P, how, q)
  <2>1. \A p \in Partition : ~excused' /\ p \in P /\ owner[p] = m /\ how # "lost" => committed'[p] = pos[m][p]
    BY <1>5
  <2>2. EngineSound(q, {}, produced', discarded', excused')
    BY <1>2, <1>9
  <2>3. \A x \in discarded' : InLog(log, x)
    BY <1>2, <1>14
  <2>4. /\ produced \subseteq produced' /\ discarded \subseteq discarded' /\ (excused => excused')
        /\ dups' \subseteq produced' /\ discarded' \subseteq Span /\ excused' \in BOOLEAN /\ faults' \in 0..MaxFaults
        /\ committed' \in [Partition -> Nat]
    BY <1>2, <1>6, <1>14 DEF Flushed
  <2>5. QED
    BY <1>2, <1>10, <1>12, <1>15, <1>16, <2>1, <2>2, <2>3, <2>4 DEF GoneTo
<1>18. QED
  BY <1>17

LEMMA GoneFailedFacts ==
  ASSUME IInv, NEW m \in Member, NEW P, P \subseteq Partition, NEW how, GoneFailed(m, P, how)
  PROVE  \E q : GoneTo(m, P, how, q)
<1>1. PICK keep \in Verdicts :
        LET e == DecidePartitions(eng[m], P, keep) IN
        /\ e.out # <<>>
        /\ \E W \in {{}, e.out[1].spans} : Write(W)
        /\ discarded' = discarded \cup Spans(e.out)
        /\ Fails("produce") /\ excused' = TRUE
        /\ UNCHANGED committed
        /\ SetEngine(m, Gone([e EXCEPT !.out = <<>>], P, how))
  BY DEF GoneFailed
<1> DEFINE d == DecidePartitions(eng[m], P, keep)
           u == GiveUp(d)
           q == Gone(u, P, how)
<1>2. PICK W \in {{}, d.out[1].spans} : Write(W)
  BY <1>1
<1>3. /\ d.out # <<>> /\ discarded' = discarded \cup Spans(d.out) /\ Fails("produce") /\ excused' = TRUE
      /\ committed' = committed /\ SetEngine(m, q)
  BY <1>1 DEF GiveUp
<1>4. /\ EngineSound(d, {}, produced, discarded, excused) /\ Keeps(eng[m], d)
      /\ \A k \in DOMAIN d.traces : \A x \in d.traces[k].refs : x[1] \notin P
  BY MemberFacts, DecidePartsSound
<1> HIDE DEF d
<1>5. W \subseteq Spans(d.out)
  <2>1. d.out \in Seq(OutRec)
    BY <1>4, EngineType DEF EngineSound, EngineSoundAt
  <2>2. 1 \in DOMAIN d.out
    BY <1>3, <2>1
  <2>3. QED
    BY <2>2 DEF Spans
<1>6. /\ produced' = produced \cup W /\ dups' \subseteq produced'
      /\ \A x \in produced' : x \in produced \/
           (x \in Span /\ InLog(log, x) /\ HasEntry(eng[m].parts, Key(x)) /\ KeptIn(d, x))
  BY <1>2, <1>4, <1>5, WriteFacts
<1>7. EngineSound(u, {}, produced, discarded', TRUE) /\ Keeps(d, u) /\ u.out = <<>> /\ u.traces = d.traces
  BY <1>3, <1>4, GiveUpSound
<1> HIDE DEF u
<1>8. EngineSound(u, {}, produced', discarded', excused')
  <2>1. produced \subseteq produced' /\ discarded' \subseteq discarded' /\ (TRUE => excused')
    BY <1>3, <1>6
  <2>2. ~excused' => \A x : InTraces(u, x) \/ InOut(u, x) \/ x \in {} => x \notin produced'
    BY <1>3
  <2>3. QED
    BY <1>7, <2>1, <2>2, SoundLater
<1>9. FreeOf(u, P)
  <2>1. DOMAIN u.out = {}
    BY <1>7
  <2>2. QED
    BY <1>4, <1>7, <2>1 DEF FreeOf
<1>10. /\ EngineSound(q, {}, produced', discarded', excused') /\ Remembers(u, q) /\ u.dropped \subseteq q.dropped
       /\ \A p \in Partition : q.parts[p] = IF p \in P \/ how = "closed" THEN NewPart ELSE u.parts[p]
  BY <1>8, <1>9, GoneSound
<1> HIDE DEF q
<1>11. Remembers(d, q)
  BY <1>7, <1>10, RemembersTransitive DEF Keeps
<1>12. Remembers(eng[m], q)
  BY <1>4, <1>11, RemembersTransitive DEF Keeps
<1>13. \A x : KeptIn(d, x) => KeptIn(q, x)
  BY <1>11, KeptLater
<1>14. \A x \in produced' : x \in produced \/
         (x \in Span /\ InLog(log, x) /\ HasEntry(eng[m].parts, Key(x)) /\ KeptIn(q, x))
  BY <1>6, <1>13
<1>15. /\ \A x \in discarded' : InLog(log, x) /\ x \in Span
       /\ faults' \in 0..MaxFaults /\ committed \in [Partition -> Nat]
  <2>1. \A x \in Spans(d.out) : InLog(log, x) /\ x \in Span
    BY <1>4, OutputFacts
  <2>2. \A x \in discarded : InLog(log, x) /\ x \in Span
    BY OldHistories, TypeFacts
  <2>3. faults' \in 0..MaxFaults
    BY <1>3, SamplingAssumption, TypeUnfold DEF Fails, OuterOK
  <2>4. QED
    BY <1>3, <2>1, <2>2, <2>3, TypeFacts
<1>16. ASSUME NEW p \in Partition
       PROVE  /\ p \in P \/ how = "closed" => q.parts[p] = NewPart
              /\ p \notin P /\ how # "closed" =>
                   ReadOk(q.parts[p], p, owner[p] = m \/ p \in lost[m], owner[p] = m, pos[m][p], committed'[p],
                          excused', log, produced' \cup dropped')
  <2>1. p \in P \/ how = "closed" => q.parts[p] = NewPart
    BY <1>10
  <2>2. ASSUME p \notin P, how # "closed"
        PROVE  ReadOk(q.parts[p], p, owner[p] = m \/ p \in lost[m], owner[p] = m, pos[m][p], committed'[p],
                      excused', log, produced' \cup dropped')
    <3> DEFINE f == owner[p] = m \/ p \in lost[m]
               w == owner[p] = m
    <3>1. Keeps(eng[m], u) /\ u \in Engine
      BY <1>4, <1>7, KeepsTransitive DEF EngineSound, EngineSoundAt
    <3>2. ReadOk(u.parts[p], p, f, w, pos[m][p], committed[p], excused, log, produced \cup dropped)
      BY <3>1, EngineReads DEF Keeps
    <3>3. q.parts[p] = u.parts[p]
      BY <1>10, <2>2
    <3>4. produced \cup dropped \subseteq produced' \cup dropped'
      BY <1>3, <1>6 DEF SetEngine
    <3>5. excused => excused'
      BY <1>3
    <3> HIDE DEF f, w
    <3>6. ReadOk(u.parts[p], p, f, w, pos[m][p], committed[p], excused', log, produced' \cup dropped')
      BY ONLY <3>2, <3>4, <3>5, ReadLater
    <3>7. QED
      BY <1>3, <3>3, <3>6 DEF f, w
  <2>3. QED
    BY <2>1, <2>2
<1>17. GoneTo(m, P, how, q)
  <2>1. \A p \in Partition : committed[p] <= committed'[p] /\ committed'[p] = committed[p]
    BY <1>3, <1>15
  <2>2. /\ produced \subseteq produced' /\ discarded \subseteq discarded' /\ (excused => excused')
        /\ dups' \subseteq produced' /\ discarded' \subseteq Span /\ excused' \in BOOLEAN /\ faults' \in 0..MaxFaults
        /\ committed' \in [Partition -> Nat] /\ excused'
    BY <1>3, <1>6, <1>15
  <2>3. QED
    BY <1>3, <1>10, <1>12, <1>14, <1>15, <1>16, <2>1, <2>2 DEF GoneTo
<1>18. QED
  BY <1>17

LEMMA OnGoneFacts ==
  ASSUME IInv, NEW m \in Member, NEW P, P \subseteq Partition, NEW how, onGone(m, P, how),
         how = "lost" => \A p \in P : owner[p] # m
  PROVE  \E q : GoneTo(m, P, how, q)
BY GoneProducedFacts, GoneFailedFacts DEF onGone

-----------------------------------------------------------------------------
(* A member gives partitions up. *)

(* p is not m's any more, or still is as it was. *)
LeftOrKept(m, P, how, q, p) ==
    \/ owner'[p] # m /\ p \notin lost'[m] /\ pos'[m][p] = 0 /\ q.parts[p] = NewPart
    \/ p \notin P /\ how # "closed" /\ owner'[p] = owner[p] /\ lost'[m] = lost[m] /\ pos'[m][p] = pos[m][p]

LEMMA GoneStep ==
  ASSUME IInv, NEW m \in Member, NEW P, NEW how, NEW q, GoneTo(m, P, how, q), log' = log, OuterOK',
         \A k \in Member : k # m => /\ lost'[k] = lost[k] /\ pos'[k] = pos[k]
                                    /\ \A p \in Partition : owner'[p] = k <=> owner[p] = k,
         lost'[m] # {} => excused' /\ \A p \in Partition : owner'[p] # m,
         \A p \in Partition : LeftOrKept(m, P, how, q, p),
         ~excused' => \A p \in Partition : Reach(p) <= Reach(p)'
  PROVE  IInv' /\ Onward
<1>1. EngineStep(m, q)
  BY DEF EngineStep, GoneTo
<1>2. Bystanders(m)
  <2> SUFFICES ASSUME NEW k \in Member, k # m, NEW p \in Partition, owner[p] = k PROVE committed'[p] = committed[p]
    BY DEF Bystanders
  <2>1. owner[p] # m
    OBVIOUS
  <2>2. QED
    BY <2>1 DEF GoneTo
<1>3. Committing
  BY DEF Committing, GoneTo
<1>4. Excusing
  BY DEF Excusing, GoneTo
<1>5. Reading(m, q)
  <2>1. ASSUME NEW p \in Partition
        PROVE  ReadOk(q.parts[p], p, owner'[p] = m \/ p \in lost'[m], owner'[p] = m, pos'[m][p], committed'[p],
                      excused', log, produced' \cup dropped')
    <3>1. CASE owner'[p] # m /\ p \notin lost'[m] /\ pos'[m][p] = 0 /\ q.parts[p] = NewPart
      BY <3>1 DEF ReadOk
    <3>2. CASE p \notin P /\ how # "closed" /\ owner'[p] = owner[p] /\ lost'[m] = lost[m] /\ pos'[m][p] = pos[m][p]
      <4>1. ReadOk(q.parts[p], p, owner[p] = m \/ p \in lost[m], owner[p] = m, pos[m][p], committed'[p],
                   excused', log, produced' \cup dropped')
        BY <3>2 DEF GoneTo
      <4>2. QED
        BY <3>2, <4>1
    <3>3. QED
      BY <3>1, <3>2 DEF LeftOrKept
  <2>2. QED
    BY <2>1 DEF Reading
<1>6. QED
  BY <1>1, <1>2, <1>3, <1>4, <1>5, MemberStepSound

LEMMA RevokeSound ==
  ASSUME IInv, NEW m \in Member, NEW p \in Partition, RevokePartition(m, p)
  PROVE  IInv' /\ Onward
<1>1. /\ owner[p] = m /\ revokes < MaxRevokes /\ revokes' = revokes + 1 /\ onGone(m, {p}, "revoked")
      /\ owner' = [owner EXCEPT ![p] = NoMember] /\ pos' = [pos EXCEPT ![m][p] = 0]
      /\ log' = log /\ lost' = lost /\ gone' = gone /\ pc' = pc /\ cancelled' = cancelled
  BY DEF RevokePartition
<1>2. PICK q : GoneTo(m, {p}, "revoked", q)
  <2>1. {p} \subseteq Partition /\ ("revoked" = "lost" => \A a \in {p} : owner[a] # m)
    OBVIOUS
  <2>2. QED
    BY <1>1, <2>1, OnGoneFacts
<1>3. OuterOK
  BY TypeUnfold
<1>4. /\ owner \in [Partition -> Member \cup {NoMember}] /\ pos \in [Member -> [Partition -> Nat]]
      /\ m # NoMember /\ NoMember \notin Member
  BY TypeFacts, GroupAssumption
<1>5. /\ owner'[p] = NoMember /\ \A a \in Partition : a # p => owner'[a] = owner[a]
      /\ owner' \in [Partition -> Member \cup {NoMember}]
  BY <1>1, <1>4
<1>6. /\ pos'[m][p] = 0 /\ (\A a \in Partition : a # p => pos'[m][a] = pos[m][a]) /\ (\A k \in Member : k # m => pos'[k] = pos[k])
      /\ pos' \in [Member -> [Partition -> Nat]]
  BY <1>1, <1>4
<1>7. lost[m] = {}
  BY <1>1, MemberFacts
<1>8. revokes' \in 0..MaxRevokes
  BY <1>1, <1>3, SamplingAssumption DEF OuterOK
<1>9. OuterOK'
  BY <1>1, <1>2, <1>3, <1>5, <1>6, <1>8 DEF OuterOK, GroupTypeOK, GoneTo
<1>10. \A k \in Member : k # m => /\ lost'[k] = lost[k] /\ pos'[k] = pos[k]
                                  /\ \A a \in Partition : owner'[a] = k <=> owner[a] = k
  BY <1>1, <1>4, <1>5, <1>6
<1>11. \A a \in Partition : LeftOrKept(m, {p}, "revoked", q, a)
  <2> TAKE a \in Partition
  <2>1. CASE a = p
    BY <1>1, <1>2, <1>4, <1>5, <1>6, <1>7, <2>1 DEF LeftOrKept, GoneTo
  <2>2. CASE a # p
    BY <1>1, <1>5, <1>6, <2>2 DEF LeftOrKept
  <2>3. QED
    BY <2>1, <2>2
<1>12. ~excused' => \A a \in Partition : Reach(a) <= Reach(a)'
  <2> SUFFICES ASSUME ~excused', NEW a \in Partition PROVE Reach(a) <= Reach(a)'
    OBVIOUS
  <2>1. Reach(a) \in Nat
    BY ReachIs
  <2>2. CASE a = p
    <3>1. committed'[p] = pos[m][p]
      BY <1>1, <1>2 DEF GoneTo
    <3>2. Reach(p) = pos[m][p] /\ Reach(p)' = committed'[p]
      BY <1>1, <1>4, <1>5 DEF Reach
    <3>3. QED
      BY <2>1, <2>2, <3>1, <3>2
  <2>3. CASE a # p /\ owner[a] = NoMember
    <3>1. Reach(a) = committed[a] /\ Reach(a)' = committed'[a]
      BY <1>5, <2>3 DEF Reach
    <3>2. QED
      BY <1>2, <3>1 DEF GoneTo
  <2>4. CASE a # p /\ owner[a] # NoMember
    <3>1. owner[a] \in Member /\ pos'[owner[a]][a] = pos[owner[a]][a]
      BY <1>4, <1>6, <2>4
    <3>2. Reach(a)' = Reach(a)
      BY <1>5, <2>4, <3>1 DEF Reach
    <3>3. QED
      BY <2>1, <3>2
  <2>5. QED
    BY <2>2, <2>3, <2>4
<1>13. lost'[m] # {} => excused' /\ \A a \in Partition : owner'[a] # m
  BY <1>1, <1>7
<1>14. QED
  BY <1>1, <1>2, <1>9, <1>10, <1>11, <1>12, <1>13, GoneStep

LEMMA NoticeLossSound ==
  ASSUME IInv, NEW m \in Member, NoticeLoss(m)
  PROVE  IInv' /\ Onward
<1>1. /\ lost[m] # {} /\ onGone(m, lost[m], "lost")
      /\ lost' = [lost EXCEPT ![m] = {}] /\ pos' = [pos EXCEPT ![m] = [p \in Partition |-> 0]]
      /\ log' = log /\ owner' = owner /\ gone' = gone /\ pc' = pc /\ cancelled' = cancelled /\ revokes' = revokes
  BY DEF NoticeLoss
<1>2. excused /\ \A p \in Partition : owner[p] # m
  BY <1>1, MemberFacts
<1>3. lost \in [Member -> SUBSET Partition] /\ pos \in [Member -> [Partition -> Nat]]
  BY TypeFacts
<1>4. PICK q : GoneTo(m, lost[m], "lost", q)
  <2>1. lost[m] \subseteq Partition /\ \A p \in lost[m] : owner[p] # m
    BY <1>2, <1>3
  <2>2. QED
    BY <1>1, <2>1, OnGoneFacts
<1>5. /\ lost'[m] = {} /\ (\A k \in Member : k # m => lost'[k] = lost[k]) /\ lost' \in [Member -> SUBSET Partition]
      /\ (\A p \in Partition : pos'[m][p] = 0) /\ (\A k \in Member : k # m => pos'[k] = pos[k])
      /\ pos' \in [Member -> [Partition -> Nat]]
  BY <1>1, <1>3
<1>6. OuterOK'
  BY <1>1, <1>4, <1>5, TypeUnfold DEF OuterOK, GroupTypeOK, GoneTo
<1>7. \A p \in Partition : LeftOrKept(m, lost[m], "lost", q, p)
  <2> TAKE p \in Partition
  <2>1. q.parts[p] = NewPart
    <3>1. CASE p \in lost[m]
      BY <1>4, <3>1 DEF GoneTo
    <3>2. CASE p \notin lost[m]
      <4>1. ReadOk(q.parts[p], p, owner[p] = m \/ p \in lost[m], owner[p] = m, pos[m][p], committed'[p],
                   excused', log, produced' \cup dropped')
        BY <1>4, <3>2 DEF GoneTo
      <4>2. QED
        BY <1>2, <3>2, <4>1 DEF ReadOk
    <3>3. QED
      BY <3>1, <3>2
  <2>2. QED
    BY <1>1, <1>2, <1>5, <2>1 DEF LeftOrKept
<1>8. \A k \in Member : k # m => /\ lost'[k] = lost[k] /\ pos'[k] = pos[k]
                                 /\ \A a \in Partition : owner'[a] = k <=> owner[a] = k
  BY <1>1, <1>5
<1>9. excused' /\ lost'[m] = {}
  BY <1>2, <1>4, <1>5 DEF GoneTo
<1>10. QED
  BY <1>1, <1>4, <1>6, <1>7, <1>8, <1>9, GoneStep

LEMMA ExitSound ==
  ASSUME IInv, NEW m \in Member, Exit(m)
  PROVE  IInv' /\ Onward
<1>1. /\ pc' = [pc EXCEPT ![m] = "down"] /\ onGone(m, Owned(m), "closed")
      /\ owner' = [p \in Partition |-> IF owner[p] = m THEN NoMember ELSE owner[p]]
      /\ lost' = [lost EXCEPT ![m] = {}] /\ pos' = [pos EXCEPT ![m] = [p \in Partition |-> 0]]
      /\ cancelled' = cancelled \ {m} /\ log' = log /\ gone' = gone /\ revokes' = revokes
  BY DEF Exit
<1>2. PICK q : GoneTo(m, Owned(m), "closed", q)
  <2>1. Owned(m) \subseteq Partition /\ ("closed" = "lost" => \A a \in Owned(m) : owner[a] # m)
    BY DEF Owned
  <2>2. QED
    BY <1>1, <2>1, OnGoneFacts
<1>3. /\ owner \in [Partition -> Member \cup {NoMember}] /\ pos \in [Member -> [Partition -> Nat]]
      /\ lost \in [Member -> SUBSET Partition] /\ m # NoMember /\ NoMember \notin Member
  BY TypeFacts, GroupAssumption
<1>4. /\ lost'[m] = {} /\ (\A k \in Member : k # m => lost'[k] = lost[k]) /\ lost' \in [Member -> SUBSET Partition]
      /\ (\A p \in Partition : pos'[m][p] = 0) /\ (\A k \in Member : k # m => pos'[k] = pos[k])
      /\ pos' \in [Member -> [Partition -> Nat]]
  BY <1>1, <1>3
<1>5. /\ \A p \in Partition : owner'[p] = IF owner[p] = m THEN NoMember ELSE owner[p]
      /\ owner' \in [Partition -> Member \cup {NoMember}]
  BY <1>1, <1>3
<1>6. OuterOK'
  BY <1>1, <1>2, <1>4, <1>5, TypeUnfold DEF OuterOK, GroupTypeOK, GoneTo
<1>7. \A p \in Partition : LeftOrKept(m, Owned(m), "closed", q, p)
  <2> TAKE p \in Partition
  <2>1. owner'[p] # m
    BY <1>3, <1>5
  <2>2. QED
    BY <1>2, <1>4, <2>1 DEF LeftOrKept, GoneTo
<1>8. \A k \in Member : k # m => /\ lost'[k] = lost[k] /\ pos'[k] = pos[k]
                                 /\ \A a \in Partition : owner'[a] = k <=> owner[a] = k
  BY <1>3, <1>4, <1>5
<1>9. ~excused' => \A a \in Partition : Reach(a) <= Reach(a)'
  <2> SUFFICES ASSUME ~excused', NEW a \in Partition PROVE Reach(a) <= Reach(a)'
    OBVIOUS
  <2>1. Reach(a) \in Nat
    BY ReachIs
  <2>2. CASE owner[a] = m
    <3>1. committed'[a] = pos[m][a]
      BY <1>2, <2>2 DEF GoneTo, Owned
    <3>2. Reach(a) = pos[m][a] /\ Reach(a)' = committed'[a]
      BY <1>3, <1>5, <2>2 DEF Reach
    <3>3. QED
      BY <2>1, <3>1, <3>2
  <2>3. CASE owner[a] = NoMember
    <3>1. Reach(a) = committed[a] /\ Reach(a)' = committed'[a]
      BY <1>3, <1>5, <2>3 DEF Reach
    <3>2. QED
      BY <1>2, <3>1 DEF GoneTo
  <2>4. CASE owner[a] # m /\ owner[a] # NoMember
    <3>1. owner[a] \in Member /\ pos'[owner[a]][a] = pos[owner[a]][a]
      BY <1>3, <1>4, <2>4
    <3>2. Reach(a)' = Reach(a)
      BY <1>5, <2>4, <3>1 DEF Reach
    <3>3. QED
      BY <2>1, <3>2
  <2>5. QED
    BY <2>2, <2>3, <2>4
<1>10. QED
  BY <1>1, <1>2, <1>4, <1>6, <1>7, <1>8, <1>9, GoneStep

LEMMA CrashSound ==
  ASSUME IInv, NEW m \in Member, Crash(m)
  PROVE  IInv' /\ Onward
<1> DEFINE q == Ended(eng[m])
<1>1. PICK W \in {{}, Spans(eng[m].out)} : Write(W)
  BY DEF Crash
<1>2. /\ pc' = [pc EXCEPT ![m] = "down"] /\ SetEngine(m, q) /\ cancelled' = cancelled \ {m} /\ Fails("crash") /\ excused' = TRUE
      /\ discarded' = discarded /\ revokes' = revokes
      /\ owner' = [p \in Partition |-> IF owner[p] = m THEN NoMember ELSE owner[p]]
      /\ lost' = [lost EXCEPT ![m] = {}] /\ gone' = [gone EXCEPT ![m] = {}]
      /\ pos' = [pos EXCEPT ![m] = [p \in Partition |-> 0]] /\ log' = log /\ committed' = committed
  BY DEF Crash, Leave
<1>3. EngineSound(eng[m], {}, produced, discarded, excused) /\ Keeps(eng[m], eng[m])
  BY MemberFacts, KeepsItself
<1>4. W \subseteq Spans(eng[m].out)
  BY <1>1
<1>5. /\ produced' = produced \cup W /\ dups' \subseteq produced'
      /\ \A x \in produced' : x \in produced \/
           (x \in Span /\ InLog(log, x) /\ HasEntry(eng[m].parts, Key(x)) /\ KeptIn(eng[m], x))
  BY <1>1, <1>3, <1>4, WriteFacts
<1>6. EngineSound(eng[m], {}, produced', discarded', excused')
  <2>1. produced \subseteq produced' /\ discarded \subseteq discarded' /\ (excused => excused')
    BY <1>2, <1>5
  <2>2. ~excused' => \A x : InTraces(eng[m], x) \/ InOut(eng[m], x) \/ x \in {} => x \notin produced'
    BY <1>2
  <2>3. QED
    BY <1>3, <2>1, <2>2, SoundLater
<1>7. EngineSound(q, {}, produced', discarded', excused') /\ Remembers(eng[m], q) /\ q.parts = NewEngine.parts
  BY <1>6, EndedSound
<1> HIDE DEF q
<1>8. \A x : KeptIn(eng[m], x) => KeptIn(q, x)
  BY <1>7, KeptLater
<1>9. /\ owner \in [Partition -> Member \cup {NoMember}] /\ pos \in [Member -> [Partition -> Nat]]
      /\ lost \in [Member -> SUBSET Partition] /\ gone \in [Member -> SUBSET Partition]
      /\ m # NoMember /\ NoMember \notin Member /\ committed \in [Partition -> Nat] /\ discarded \subseteq Span
  BY TypeFacts, GroupAssumption
<1>10. /\ lost'[m] = {} /\ (\A k \in Member : k # m => lost'[k] = lost[k]) /\ lost' \in [Member -> SUBSET Partition]
       /\ (\A p \in Partition : pos'[m][p] = 0) /\ (\A k \in Member : k # m => pos'[k] = pos[k])
       /\ pos' \in [Member -> [Partition -> Nat]] /\ gone' \in [Member -> SUBSET Partition]
  BY <1>2, <1>9
<1>11. /\ \A p \in Partition : owner'[p] = IF owner[p] = m THEN NoMember ELSE owner[p]
       /\ owner' \in [Partition -> Member \cup {NoMember}]
  BY <1>2, <1>9
<1>12. faults' \in 0..MaxFaults
  BY <1>2, SamplingAssumption, TypeUnfold DEF Fails, OuterOK
<1>13. \A p \in Partition : q.parts[p] = NewPart
  BY <1>7 DEF NewEngine
<1>14. GoneTo(m, Partition, "closed", q)
  <2>1. \A p \in Partition : committed[p] <= committed'[p] /\ committed'[p] = committed[p]
    BY <1>2, <1>9
  <2>2. \A x \in discarded' : InLog(log, x)
    BY <1>2, OldHistories
  <2>3. \A x \in produced' : x \in produced \/
           (x \in Span /\ InLog(log, x) /\ HasEntry(eng[m].parts, Key(x)) /\ KeptIn(q, x))
    BY <1>5, <1>8
  <2>4. QED
    BY <1>2, <1>5, <1>7, <1>9, <1>12, <1>13, <2>1, <2>2, <2>3 DEF GoneTo
<1>15. OuterOK'
  BY <1>2, <1>9, <1>10, <1>11, <1>14, TypeUnfold DEF OuterOK, GroupTypeOK, GoneTo
<1>16. \A p \in Partition : LeftOrKept(m, Partition, "closed", q, p)
  BY <1>9, <1>10, <1>11, <1>13 DEF LeftOrKept
<1>17. \A k \in Member : k # m => /\ lost'[k] = lost[k] /\ pos'[k] = pos[k]
                                  /\ \A a \in Partition : owner'[a] = k <=> owner[a] = k
  BY <1>9, <1>10, <1>11
<1>18. excused' /\ lost'[m] = {}
  BY <1>2, <1>10
<1>19. QED
  BY <1>2, <1>14, <1>15, <1>16, <1>17, <1>18, GoneStep

-----------------------------------------------------------------------------
(* Steps that leave the engines alone. *)

LEMMA IdleStep ==
  ASSUME IInv, OuterOK', UNCHANGED <<log, eng, dropped, discarded, forgotten, committed>>,
         produced \subseteq produced', excused => excused', dups' # {} => excused',
         ~excused' => produced' = produced /\ \A p \in Partition : Reach(p) <= Reach(p)',
         \A x \in produced' : x \in produced \/ (x \in Span /\ InLog(log, x) /\ \E m \in Member : KeptIn(eng[m], x)),
         \A k \in Member, p \in Partition :
           ReadOk(eng[k].parts[p], p, owner'[p] = k \/ p \in lost'[k], owner'[p] = k, pos'[k][p], committed[p],
                  excused', log, produced \cup dropped),
         \A k \in Member : lost'[k] # {} => excused' /\ \A p \in Partition : owner'[p] # k
  PROVE  IInv' /\ Onward
<1>1. log' = log /\ eng' = eng /\ dropped' = dropped /\ discarded' = discarded /\ forgotten' = forgotten /\ committed' = committed
  OBVIOUS
<1>2. produced \cup dropped \subseteq produced' \cup dropped'
  BY <1>1
<1>3. produced' \subseteq Span /\ \A x \in produced' : InLog(log, x)
  BY TypeFacts DEF IInv, TopicSound
<1>4. TypeOK'
  BY <1>1, <1>3 DEF TypeOK, OuterOK, IInv
<1>5. MembersSound'
  <2>1. ASSUME NEW k \in Member
        PROVE  EngineSoundAt(eng[k], {}, produced', discarded, excused', log, dropped, forgotten)
    <3>1. EngineSound(eng[k], {}, produced, discarded, excused)
      BY MemberFacts
    <3>2. ~excused' => \A x : InTraces(eng[k], x) \/ InOut(eng[k], x) => x \notin produced'
      <4> SUFFICES ASSUME ~excused', NEW x, InTraces(eng[k], x) \/ InOut(eng[k], x) PROVE x \notin produced'
        OBVIOUS
      <4>1. x \in Span
        BY <3>1, HeldEntry DEF EngineSound, EngineSoundAt
      <4>2. x \notin produced
        BY <3>1, <4>1 DEF EngineSound, EngineSoundAt, Once
      <4>3. QED
        BY <4>2
    <3>3. QED
      BY <3>1, <3>2, OtherSound
  <2>2. ASSUME NEW k \in Member, NEW p \in Partition PROVE ReadSound(k, p)'
    <3> DEFINE f == owner'[p] = k \/ p \in lost'[k]
               w == owner'[p] = k
    <3>1. ReadOk(eng[k].parts[p], p, f, w, pos'[k][p], committed[p], excused', log, produced \cup dropped)
      OBVIOUS
    <3> HIDE DEF f, w
    <3>2. ReadOk(eng[k].parts[p], p, f, w, pos'[k][p], committed[p], excused', log, produced' \cup dropped')
      BY ONLY <1>2, <3>1, ReadMore
    <3>3. QED
      BY <1>1, <3>2 DEF ReadSound, f, w
  <2>3. \A k \in Member : eng[k].dropped = {} /\ eng[k].forgot = {}
    BY MemberFacts
  <2>4. QED
    BY <1>1, <2>1, <2>2, <2>3 DEF MembersSound
<1>6. TopicSound'
  <2>1. \A p \in Partition : /\ committed[p] <= Len(log[p])
                             /\ \A o \in 0..(committed[p] - 1) : HandledIn(log, produced' \cup dropped', p, o)
    <3> TAKE p \in Partition
    <3>1. committed[p] <= Len(log[p]) /\ \A o \in 0..(committed[p] - 1) : HandledIn(log, produced \cup dropped, p, o)
      BY DEF IInv, TopicSound
    <3>2. \A o : HandledIn(log, produced \cup dropped, p, o) => HandledIn(log, produced' \cup dropped', p, o)
      BY <1>2, HandledLater
    <3>3. QED
      BY <3>1, <3>2
  <2>2. \A x \in produced' \cup dropped' \cup discarded' : InLog(log', x)
    BY <1>1, <1>3 DEF IInv, TopicSound
  <2>3. dups' # {} \/ discarded' # {} => excused'
    BY <1>1, OldHistories
  <2>4. ~excused' => \A x \in produced' : x[2] < Reach(x[1])'
    <3> SUFFICES ASSUME ~excused', NEW x \in produced' PROVE x[2] < Reach(x[1])'
      OBVIOUS
    <3>1. x \in produced /\ x[1] \in Partition /\ x[2] \in Nat
      BY <1>3 DEF Span
    <3>2. x[2] < Reach(x[1])
      BY <3>1 DEF IInv, TopicSound
    <3>3. Reach(x[1]) <= Reach(x[1])' /\ Reach(x[1]) \in Nat
      BY <3>1, ReachIs
    <3>4. Reach(x[1])' \in Nat
      <4>1. committed' \in [Partition -> Nat] /\ owner' \in [Partition -> Member \cup {NoMember}]
            /\ pos' \in [Member -> [Partition -> Nat]]
        BY DEF OuterOK, GroupTypeOK
      <4>2. QED
        BY <3>1, <4>1 DEF Reach
    <3>5. QED
      BY <3>1, <3>2, <3>3, <3>4
  <2>5. QED
    BY <1>1, <2>1, <2>2, <2>3, <2>4 DEF TopicSound
<1>7. VerdictsSound'
  <2>1. \A x \in produced' : TraceOf(log, x) \in forgotten \/ \E m \in Member : Cached(eng[m], TraceOf(log, x), TRUE)
    <3> TAKE x \in produced'
    <3>1. CASE x \in produced
      BY <3>1 DEF IInv, VerdictsSound
    <3>2. CASE \E m \in Member : KeptIn(eng[m], x)
      <4>1. PICK m \in Member : KeptIn(eng[m], x)
        BY <3>2
      <4>2. eng[m].forgot = {}
        BY MemberFacts
      <4>3. QED
        BY <4>1, <4>2 DEF KeptIn
    <3>3. QED
      BY <3>1, <3>2
  <2>2. QED
    BY <1>1, <2>1 DEF IInv, VerdictsSound
<1>8. Onward
  BY <1>1, TypeFacts DEF Onward
<1>9. QED
  BY <1>4, <1>5, <1>6, <1>7, <1>8 DEF IInv

(* The positions and partitions stay too. *)
LEMMA StillStep ==
  ASSUME IInv, OuterOK', UNCHANGED <<log, eng, dropped, discarded, forgotten, committed, owner, lost, pos>>,
         produced \subseteq produced', excused => excused', dups' # {} => excused',
         ~excused' => produced' = produced,
         \A x \in produced' : x \in produced \/ (x \in Span /\ InLog(log, x) /\ \E m \in Member : KeptIn(eng[m], x))
  PROVE  IInv' /\ Onward
<1>1. \A k \in Member, p \in Partition :
           ReadOk(eng[k].parts[p], p, owner'[p] = k \/ p \in lost'[k], owner'[p] = k, pos'[k][p], committed[p],
                  excused', log, produced \cup dropped)
  <2> TAKE k \in Member, p \in Partition
  <2> DEFINE f == owner[p] = k \/ p \in lost[k]
             w == owner[p] = k
  <2>1. ReadOk(eng[k].parts[p], p, f, w, pos[k][p], committed[p], excused, log, produced \cup dropped)
    BY MemberFacts DEF ReadSound
  <2>2. excused => excused'
    OBVIOUS
  <2>3. produced \cup dropped \subseteq produced \cup dropped
    OBVIOUS
  <2> HIDE DEF f, w
  <2>4. ReadOk(eng[k].parts[p], p, f, w, pos[k][p], committed[p], excused', log, produced \cup dropped)
    BY ONLY <2>1, <2>2, <2>3, ReadLater
  <2>5. QED
    BY <2>4 DEF f, w
<1>2. \A k \in Member : lost'[k] # {} => excused' /\ \A p \in Partition : owner'[p] # k
  BY MemberFacts
<1>3. \A p \in Partition : Reach(p) <= Reach(p)'
  BY SameReach
<1>4. QED
  BY <1>1, <1>2, <1>3, IdleStep

LEMMA StartSound ==
  ASSUME IInv, NEW m \in Member, Start(m) \/ Cancel(m) \/ FinalTimeout(m)
  PROVE  IInv' /\ Onward
<1>1. /\ log' = log /\ committed' = committed /\ owner' = owner /\ pos' = pos /\ lost' = lost /\ gone' = gone
      /\ eng' = eng /\ produced' = produced /\ dups' = dups /\ discarded' = discarded /\ dropped' = dropped
      /\ forgotten' = forgotten /\ revokes' = revokes
  BY DEF Start, Cancel, FinalTimeout, groupVars, topicVars
<1>2. OuterOK
  BY TypeUnfold
<1>3. /\ pc' \in [Member -> {"poll", "add", "mid", "flush", "final", "exit", "down"}] /\ cancelled' \subseteq Member
      /\ faults' \in 0..MaxFaults /\ excused' \in BOOLEAN /\ (excused => excused')
  <2>1. CASE Start(m)
    BY <1>2, <2>1 DEF Start, OuterOK
  <2>2. CASE Cancel(m)
    BY <1>2, <2>2, SamplingAssumption DEF Cancel, Fails, OuterOK
  <2>3. CASE FinalTimeout(m)
    BY <1>2, <2>3 DEF FinalTimeout, OuterOK
  <2>4. QED
    BY <2>1, <2>2, <2>3
<1>4. OuterOK'
  BY <1>1, <1>2, <1>3 DEF OuterOK, GroupTypeOK
<1>5. dups' # {} => excused'
  BY <1>1, <1>3, OldHistories
<1>6. \A x \in produced' : x \in produced
  BY <1>1
<1>7. QED
  BY <1>1, <1>3, <1>4, <1>5, <1>6, StillStep

LEMMA ProduceFailsSound ==
  ASSUME IInv, NEW m \in Member, ProduceFails(m)
  PROVE  IInv' /\ Onward
<1>1. PICK i \in DOMAIN eng[m].out : Write(eng[m].out[i].spans)
  BY DEF ProduceFails
<1>2. /\ log' = log /\ committed' = committed /\ owner' = owner /\ pos' = pos /\ lost' = lost /\ gone' = gone
      /\ eng' = eng /\ discarded' = discarded /\ dropped' = dropped /\ pc' = pc /\ cancelled' = cancelled
      /\ forgotten' = forgotten /\ revokes' = revokes /\ Fails("produce") /\ excused' = TRUE
  BY DEF ProduceFails, groupVars
<1>3. EngineSound(eng[m], {}, produced, discarded, excused) /\ Keeps(eng[m], eng[m])
  BY MemberFacts, KeepsItself
<1> DEFINE S == eng[m].out[i].spans
<1>4. S \subseteq Spans(eng[m].out)
  BY DEF Spans
<1>5. Write(S)
  BY <1>1
<1> HIDE DEF S
<1>6. /\ produced' = produced \cup S /\ dups' \subseteq produced'
      /\ \A x \in produced' : x \in produced \/
           (x \in Span /\ InLog(log, x) /\ HasEntry(eng[m].parts, Key(x)) /\ KeptIn(eng[m], x))
  BY <1>3, <1>4, <1>5, WriteFacts
<1>7. faults' \in 0..MaxFaults
  BY <1>2, SamplingAssumption, TypeUnfold DEF Fails, OuterOK
<1>8. OuterOK'
  BY <1>2, <1>6, <1>7, TypeUnfold DEF OuterOK, GroupTypeOK
<1>9. \A x \in produced' : x \in produced \/ (x \in Span /\ InLog(log, x) /\ \E k \in Member : KeptIn(eng[k], x))
  BY <1>6
<1>10. produced \subseteq produced'
  BY <1>6
<1>11. QED
  BY <1>2, <1>8, <1>9, <1>10, StillStep

LEMMA AssignSound ==
  ASSUME IInv, NEW m \in Member, NEW p \in Partition, AssignPartition(m, p)
  PROVE  IInv' /\ Onward
<1>1. /\ owner[p] = NoMember /\ lost[m] = {} /\ owner' = [owner EXCEPT ![p] = m] /\ pos' = [pos EXCEPT ![m][p] = committed[p]]
      /\ log' = log /\ committed' = committed /\ lost' = lost /\ gone' = gone
      /\ pc' = pc /\ cancelled' = cancelled
      /\ eng' = eng /\ produced' = produced /\ dups' = dups /\ discarded' = discarded /\ dropped' = dropped
      /\ forgotten' = forgotten /\ excused' = excused /\ revokes' = revokes /\ faults' = faults
  BY DEF AssignPartition, Assign, localVars, topicVars
<1>2. /\ owner \in [Partition -> Member \cup {NoMember}] /\ pos \in [Member -> [Partition -> Nat]]
      /\ committed \in [Partition -> Nat] /\ m # NoMember /\ NoMember \notin Member
  BY TypeFacts, GroupAssumption
<1>3. /\ owner'[p] = m /\ (\A a \in Partition : a # p => owner'[a] = owner[a]) /\ owner' \in [Partition -> Member \cup {NoMember}]
      /\ pos'[m][p] = committed[p] /\ (\A a \in Partition : a # p => pos'[m][a] = pos[m][a])
      /\ (\A k \in Member : k # m => pos'[k] = pos[k]) /\ pos' \in [Member -> [Partition -> Nat]]
  BY <1>1, <1>2
<1>4. OuterOK'
  BY <1>1, <1>3, TypeUnfold DEF OuterOK, GroupTypeOK
<1>5. \A a \in Partition : Reach(a) <= Reach(a)'
  <2> TAKE a \in Partition
  <2>1. Reach(a)' = Reach(a)
    <3>1. CASE a = p
      BY <1>1, <1>2, <1>3, <3>1 DEF Reach
    <3>2. CASE a # p /\ owner[a] = NoMember
      BY <1>1, <1>3, <3>2 DEF Reach
    <3>3. CASE a # p /\ owner[a] # NoMember
      <4>1. owner[a] \in Member /\ pos'[owner[a]][a] = pos[owner[a]][a]
        BY <1>2, <1>3, <3>3
      <4>2. QED
        BY <1>3, <3>3, <4>1 DEF Reach
    <3>4. QED
      BY <3>1, <3>2, <3>3
  <2>2. QED
    BY <2>1, ReachIs
<1>6. ASSUME NEW k \in Member, NEW a \in Partition
      PROVE  ReadOk(eng[k].parts[a], a, owner'[a] = k \/ a \in lost'[k], owner'[a] = k, pos'[k][a], committed[a],
                    excused', log, produced \cup dropped)
  <2>1. ReadOk(eng[k].parts[a], a, owner[a] = k \/ a \in lost[k], owner[a] = k, pos[k][a], committed[a],
               excused, log, produced \cup dropped)
    BY MemberFacts DEF ReadSound
  <2>2. CASE a = p /\ k = m
    <3>1. eng[m].parts[p] = NewPart
      BY <1>1, <1>2, <2>1, <2>2 DEF ReadOk
    <3>2. NewPart.lastSeen < 0 /\ ~(NewPart.lastSeen >= 0)
      BY DEF NewPart
    <3>3. committed[p] <= Len(log[p]) /\ \A o \in 0..(committed[p] - 1) : HandledIn(log, produced \cup dropped, p, o)
      BY DEF IInv, TopicSound
    <3>4. ReadOk(NewPart, p, TRUE, TRUE, committed[p], committed[p], excused, log, produced \cup dropped)
      BY <3>2, <3>3 DEF ReadOk
    <3>5. (owner'[p] = m) = TRUE /\ (owner'[p] = m \/ p \in lost'[m]) = TRUE /\ pos'[m][p] = committed[p]
      BY <1>3
    <3>6. QED
      BY <1>1, <2>2, <3>1, <3>4, <3>5
  <2>3. CASE ~(a = p /\ k = m)
    <3>1. (owner'[a] = k <=> owner[a] = k) /\ pos'[k][a] = pos[k][a]
      BY <1>1, <1>2, <1>3, <2>3
    <3>2. QED
      BY <1>1, <2>1, <3>1 DEF ReadOk
  <2>4. QED
    BY <2>2, <2>3
<1>7. \A k \in Member : lost'[k] # {} => excused' /\ \A a \in Partition : owner'[a] # k
  BY <1>1, <1>3, MemberFacts
<1>8. dups' # {} => excused'
  BY <1>1, OldHistories
<1>9. \A x \in produced' : x \in produced
  BY <1>1
<1>10. QED
  BY <1>1, <1>4, <1>5, <1>6, <1>7, <1>8, <1>9, IdleStep

LEMMA ExpelSound ==
  ASSUME IInv, NEW m \in Member, ExpelMember(m)
  PROVE  IInv' /\ Onward
<1>1. /\ Owned(m) # {} /\ owner' = [p \in Partition |-> IF owner[p] = m THEN NoMember ELSE owner[p]]
      /\ lost' = [lost EXCEPT ![m] = Owned(m)]
      /\ log' = log /\ committed' = committed /\ pos' = pos /\ gone' = gone
      /\ pc' = pc /\ cancelled' = cancelled /\ Fails("expel") /\ excused' = TRUE
      /\ eng' = eng /\ produced' = produced /\ dups' = dups /\ discarded' = discarded /\ dropped' = dropped
      /\ forgotten' = forgotten /\ revokes' = revokes
  BY DEF ExpelMember, Expel, topicVars
<1>2. /\ owner \in [Partition -> Member \cup {NoMember}] /\ lost \in [Member -> SUBSET Partition]
      /\ m # NoMember /\ NoMember \notin Member /\ Owned(m) \subseteq Partition
  BY TypeFacts, GroupAssumption DEF Owned
<1>3. /\ \A p \in Partition : owner'[p] = IF owner[p] = m THEN NoMember ELSE owner[p]
      /\ owner' \in [Partition -> Member \cup {NoMember}]
      /\ lost'[m] = Owned(m) /\ (\A k \in Member : k # m => lost'[k] = lost[k]) /\ lost' \in [Member -> SUBSET Partition]
  BY <1>1, <1>2
<1>4. lost[m] = {}
  BY <1>1, MemberFacts DEF Owned
<1>5. faults' \in 0..MaxFaults
  BY <1>1, SamplingAssumption, TypeUnfold DEF Fails, OuterOK
<1>6. OuterOK'
  BY <1>1, <1>3, <1>5, TypeUnfold DEF OuterOK, GroupTypeOK
<1>7. ASSUME NEW k \in Member, NEW a \in Partition
      PROVE  ReadOk(eng[k].parts[a], a, owner'[a] = k \/ a \in lost'[k], owner'[a] = k, pos'[k][a], committed[a],
                    excused', log, produced \cup dropped)
  <2>1. ReadOk(eng[k].parts[a], a, owner[a] = k \/ a \in lost[k], owner[a] = k, pos[k][a], committed[a],
               excused, log, produced \cup dropped)
    BY MemberFacts DEF ReadSound
  <2>2. (owner'[a] = k \/ a \in lost'[k]) <=> (owner[a] = k \/ a \in lost[k])
    BY <1>2, <1>3, <1>4 DEF Owned
  <2>3. owner'[a] = k => owner[a] = k
    BY <1>2, <1>3
  <2>4. QED
    BY <1>1, <2>1, <2>2, <2>3 DEF ReadOk
<1>8. \A k \in Member : lost'[k] # {} => excused' /\ \A a \in Partition : owner'[a] # k
  BY <1>1, <1>2, <1>3, MemberFacts
<1>9. \A x \in produced' : x \in produced
  BY <1>1
<1>10. QED
  BY <1>1, <1>6, <1>7, <1>8, <1>9, IdleStep

-----------------------------------------------------------------------------
(* A record is produced. *)

LEMMA LongerLog ==
  ASSUME NEW L \in [Partition -> Seq(Record)], NEW M \in [Partition -> Seq(Record)],
         \A a \in Partition : Len(L[a]) <= Len(M[a]) /\ \A i \in 1..Len(L[a]) : M[a][i] = L[a][i]
  PROVE  /\ \A x : InLog(L, x) => InLog(M, x) /\ TraceOf(M, x) = TraceOf(L, x)
         /\ \A x : InLog(M, x) /\ x[2] < Len(L[x[1]]) => InLog(L, x)
         /\ \A F, a, o : a \in Partition /\ o < Len(L[a]) /\ HandledIn(L, F, a, o) => HandledIn(M, F, a, o)
<1>1. ASSUME NEW x \in Span
      PROVE  /\ x[1] \in Partition /\ x[2] \in Nat /\ Len(L[x[1]]) \in Nat /\ Len(M[x[1]]) \in Nat
             /\ Len(L[x[1]]) <= Len(M[x[1]])
             /\ x[2] < Len(L[x[1]]) => M[x[1]][x[2] + 1] = L[x[1]][x[2] + 1]
  <2>1. x[1] \in Partition /\ x[2] \in Nat
    BY DEF Span
  <2>2. Len(L[x[1]]) \in Nat /\ Len(M[x[1]]) \in Nat
    BY <2>1
  <2>3. x[2] < Len(L[x[1]]) => x[2] + 1 \in 1..Len(L[x[1]])
    BY <2>1, <2>2
  <2>4. QED
    BY <2>1, <2>2, <2>3
<1>2. \A x : InLog(L, x) => InLog(M, x) /\ TraceOf(M, x) = TraceOf(L, x)
  <2> SUFFICES ASSUME NEW x, InLog(L, x) PROVE InLog(M, x) /\ TraceOf(M, x) = TraceOf(L, x)
    OBVIOUS
  <2>1. x \in Span /\ x[2] < Len(L[x[1]]) /\ x[3] \in DOMAIN L[x[1]][x[2] + 1]
    BY DEF InLog
  <2>2. x[2] < Len(M[x[1]]) /\ M[x[1]][x[2] + 1] = L[x[1]][x[2] + 1]
    BY <1>1, <2>1
  <2>3. QED
    BY <2>1, <2>2 DEF InLog, TraceOf
<1>3. \A x : InLog(M, x) /\ x[2] < Len(L[x[1]]) => InLog(L, x)
  <2> SUFFICES ASSUME NEW x, InLog(M, x), x[2] < Len(L[x[1]]) PROVE InLog(L, x)
    OBVIOUS
  <2>1. x \in Span /\ x[3] \in DOMAIN M[x[1]][x[2] + 1]
    BY DEF InLog
  <2>2. M[x[1]][x[2] + 1] = L[x[1]][x[2] + 1]
    BY <1>1, <2>1
  <2>3. QED
    BY <2>1, <2>2 DEF InLog
<1>4. \A F, a, o : a \in Partition /\ o < Len(L[a]) /\ HandledIn(L, F, a, o) => HandledIn(M, F, a, o)
  <2> SUFFICES ASSUME NEW F, NEW a \in Partition, NEW o, o < Len(L[a]), HandledIn(L, F, a, o),
                      NEW x \in Span, InLog(M, x), Key(x) = <<a, o>>
               PROVE  x \in F
    BY DEF HandledIn
  <2>1. x[1] = a /\ x[2] = o
    BY DEF Key
  <2>2. InLog(L, x)
    BY <1>3, <2>1
  <2>3. QED
    BY <2>2 DEF HandledIn
<1>5. QED
  BY <1>2, <1>3, <1>4

LEMMA ProduceSound ==
  ASSUME IInv, NEW p \in Partition, ProduceRecord(p)
  PROVE  IInv' /\ Onward
<1>1. /\ committed' = committed /\ owner' = owner /\ pos' = pos /\ lost' = lost /\ gone' = gone
      /\ pc' = pc /\ cancelled' = cancelled
      /\ eng' = eng /\ produced' = produced /\ dups' = dups /\ discarded' = discarded /\ dropped' = dropped
      /\ forgotten' = forgotten /\ excused' = excused /\ revokes' = revokes /\ faults' = faults
  BY DEF ProduceRecord, Produce, localVars, topicVars
<1>2. PICK r \in Record : log' = [log EXCEPT ![p] = Append(@, r)]
  BY DEF ProduceRecord, Produce
<1>3. log \in [Partition -> Seq(Record)] /\ committed \in [Partition -> Nat] /\ pos \in [Member -> [Partition -> Nat]]
  BY TypeFacts
<1>4. log' \in [Partition -> Seq(Record)]
  BY <1>2, <1>3
<1>5. \A a \in Partition : Len(log[a]) <= Len(log'[a]) /\ \A i \in 1..Len(log[a]) : log'[a][i] = log[a][i]
  BY <1>2, <1>3
<1>6. /\ \A x : InLog(log, x) => InLog(log', x) /\ TraceOf(log', x) = TraceOf(log, x)
      /\ \A x : InLog(log', x) /\ x[2] < Len(log[x[1]]) => InLog(log, x)
      /\ \A F, a, o : a \in Partition /\ o < Len(log[a]) /\ HandledIn(log, F, a, o) => HandledIn(log', F, a, o)
  BY <1>3, <1>4, <1>5, LongerLog
<1>7. TypeOK'
  BY <1>1, <1>4 DEF IInv, TypeOK, GroupTypeOK
<1>8. ASSUME NEW m \in Member
      PROVE  EngineSoundAt(eng[m], {}, produced, discarded, excused, log', dropped, forgotten)
  <2> DEFINE e == eng[m]
  <2>1. EngineSoundAt(e, {}, produced, discarded, excused, log, dropped, forgotten)
    BY MemberFacts DEF EngineSound
  <2>2. TracesShape(e, log')
    BY <1>6, <2>1 DEF EngineSoundAt, TracesShape
  <2>3. OutShape(e, log')
    BY <1>6, <2>1 DEF EngineSoundAt, OutShape
  <2>4. \A x : InOut(e, x) => InLog(log, x)
    BY <2>1 DEF EngineSoundAt, OutShape, InOut
  <2>5. Decided(e, log', forgotten)
    BY <1>6, <2>1, <2>4 DEF EngineSoundAt, Decided
  <2>6. Settles(e, log', produced \cup dropped, {})
    <3> SUFFICES ASSUME NEW a \in Partition, NEW i \in DOMAIN e.parts[a].entries
                 PROVE  LET x == e.parts[a].entries[i]
                            k == <<a, x.offset>>
                        IN  \/ x.refs > Users(e, k)
                            \/ \A s \in Span : InLog(log', s) /\ Key(s) = k =>
                                 s \in produced \cup dropped \/ s \in e.dropped \/ s \in {} \/ InTraces(e, s) \/ InOut(e, s)
      BY DEF Settles
    <3> DEFINE o == e.parts[a].entries[i].offset
               k == <<a, o>>
    <3>1. \/ e.parts[a].entries[i].refs > Users(e, k)
          \/ \A s \in Span : InLog(log, s) /\ Key(s) = k =>
               s \in produced \cup dropped \/ s \in e.dropped \/ s \in {} \/ InTraces(e, s) \/ InOut(e, s)
      BY <2>1 DEF EngineSoundAt, Settles
    <3>2. HasEntry(e.parts, <<a, o>>)
      BY DEF HasEntry
    <3>3. o < Len(log[a])
      BY <3>2, EntryFetched
    <3>4. \A s \in Span : InLog(log', s) /\ Key(s) = k => InLog(log, s)
      <4> SUFFICES ASSUME NEW s \in Span, InLog(log', s), Key(s) = k PROVE InLog(log, s)
        OBVIOUS
      <4>1. s[1] = a /\ s[2] = o
        BY DEF Key
      <4>2. QED
        BY <1>6, <3>3, <4>1
    <3>5. QED
      BY <3>1, <3>4
  <2>7. QED
    BY <2>1, <2>2, <2>3, <2>5, <2>6 DEF EngineSoundAt
<1>9. ASSUME NEW m \in Member, NEW a \in Partition PROVE ReadSound(m, a)'
  <2> DEFINE f == owner[a] = m \/ a \in lost[m]
             w == owner[a] = m
             n == pos[m][a]
             F == produced \cup dropped
  <2>1. ReadOk(eng[m].parts[a], a, f, w, n, committed[a], excused, log, F)
    BY MemberFacts DEF ReadSound
  <2>2. n \in Nat /\ Len(log[a]) \in Nat /\ Len(log'[a]) \in Nat /\ Len(log[a]) <= Len(log'[a])
    BY <1>3, <1>4, <1>5
  <2> HIDE DEF f, w, n, F
  <2>3. f => n <= Len(log'[a]) /\ \A o \in 0..(n - 1) : HandledIn(log', F, a, o) \/ Listed(eng[m].parts[a], o)
    <3> SUFFICES ASSUME f PROVE n <= Len(log'[a]) /\ \A o \in 0..(n - 1) : HandledIn(log', F, a, o) \/ Listed(eng[m].parts[a], o)
      OBVIOUS
    <3>1. n <= Len(log[a]) /\ \A o \in 0..(n - 1) : HandledIn(log, F, a, o) \/ Listed(eng[m].parts[a], o)
      BY <2>1 DEF ReadOk
    <3>2. \A o \in 0..(n - 1) : o < Len(log[a])
      BY <2>2, <3>1
    <3>3. \A o \in 0..(n - 1) : HandledIn(log, F, a, o) => HandledIn(log', F, a, o)
      BY <1>6, <3>2
    <3>4. n <= Len(log'[a])
      BY <2>2, <3>1
    <3>5. QED
      BY <3>1, <3>3, <3>4
  <2>4. ReadOk(eng[m].parts[a], a, f, w, n, committed[a], excused, log', F)
    BY <2>1, <2>3 DEF ReadOk
  <2>5. QED
    BY <1>1, <2>4 DEF ReadSound, f, w, n, F
<1>10. MembersSound'
  BY <1>1, <1>8, <1>9, MemberFacts DEF MembersSound
<1>11. TopicSound'
  <2>1. \A a \in Partition : /\ committed[a] <= Len(log'[a])
                             /\ \A o \in 0..(committed[a] - 1) : HandledIn(log', produced \cup dropped, a, o)
    <3> TAKE a \in Partition
    <3>1. committed[a] <= Len(log[a]) /\ \A o \in 0..(committed[a] - 1) : HandledIn(log, produced \cup dropped, a, o)
      BY DEF IInv, TopicSound
    <3>2. committed[a] \in Nat /\ Len(log[a]) \in Nat /\ Len(log'[a]) \in Nat /\ Len(log[a]) <= Len(log'[a])
      BY <1>3, <1>4, <1>5
    <3>3. \A o \in 0..(committed[a] - 1) : o < Len(log[a])
      BY <3>1, <3>2
    <3>4. \A o \in 0..(committed[a] - 1) : HandledIn(log', produced \cup dropped, a, o)
      BY <1>6, <3>1, <3>3
    <3>5. committed[a] <= Len(log'[a])
      BY <3>1, <3>2
    <3>6. QED
      BY <3>4, <3>5
  <2>2. \A a : Reach(a)' = Reach(a)
    BY <1>1 DEF Reach
  <2>3. QED
    BY <1>1, <1>6, <2>1, <2>2 DEF IInv, TopicSound
<1>12. VerdictsSound'
  <2>1. \A x \in produced \cup dropped : TraceOf(log', x) = TraceOf(log, x)
    BY <1>6 DEF IInv, TopicSound
  <2>2. QED
    BY <1>1, <2>1 DEF IInv, VerdictsSound
<1>13. Onward
  BY <1>1, <1>3, <1>5 DEF Onward
<1>14. QED
  BY <1>7, <1>10, <1>11, <1>12, <1>13 DEF IInv

-----------------------------------------------------------------------------
LEMMA InitSound ==
  ASSUME Init
  PROVE  IInv
<1>1. NewEngine \in Engine /\ NewPart \in Part
  <2>1. NewPart \in Part
    BY DEF NewPart, Part
  <2>2. <<>> \in Seq(TraceRec) /\ <<>> \in Seq(CacheRec) /\ <<>> \in Seq(OutRec)
    OBVIOUS
  <2>3. [p \in Partition |-> NewPart] \in [Partition -> Part]
    BY <2>1
  <2>4. QED
    BY <2>1, <2>2, <2>3 DEF NewEngine, Engine, TraceRec, CacheRec, OutRec
<1>2. /\ log = [p \in Partition |-> <<>>] /\ committed = [p \in Partition |-> 0] /\ owner = [p \in Partition |-> NoMember]
      /\ pos = [m \in Member |-> [p \in Partition |-> 0]] /\ lost = [m \in Member |-> {}] /\ gone = [m \in Member |-> {}]
      /\ eng = [m \in Member |-> NewEngine]
      /\ produced = {} /\ dups = {} /\ dropped = {} /\ discarded = {} /\ forgotten = {} /\ excused = FALSE
  BY DEF Init, GroupInit
<1>3. /\ DOMAIN NewEngine.traces = {} /\ DOMAIN NewEngine.cache = {} /\ DOMAIN NewEngine.out = {}
      /\ NewEngine.dropped = {} /\ NewEngine.forgot = {}
      /\ \A p \in Partition : NewEngine.parts[p] = NewPart /\ DOMAIN NewEngine.parts[p].entries = {}
  BY DEF NewEngine, NewPart
<1>4. TypeOK
  <2>1. log \in [Partition -> Seq(Record)] /\ eng \in [Member -> Engine]
    BY <1>1, <1>2
  <2>2. \A m \in Member, p \in Partition : \A i \in DOMAIN eng[m].parts[p].entries : eng[m].parts[p].entries[i].refs \in Nat
    BY <1>2, <1>3
  <2>3. GroupTypeOK
    BY <1>2, <2>1 DEF GroupTypeOK
  <2>4. pc \in [Member -> {"poll", "add", "mid", "flush", "final", "exit", "down"}] /\ cancelled \subseteq Member
    BY DEF Init
  <2>5. revokes \in 0..MaxRevokes /\ faults \in 0..MaxFaults
    BY SamplingAssumption DEF Init
  <2>6. QED
    BY <1>2, <2>1, <2>2, <2>3, <2>4, <2>5 DEF TypeOK
<1>5. EngineSoundAt(NewEngine, {}, {}, {}, FALSE, log, {}, {})
  BY <1>1, <1>3 DEF EngineSoundAt, TracesShape, OutShape, Referred, Counted, Ordered, Settles, Decided, Once, Distinct, InTraces, InOut
<1>6. ASSUME NEW m \in Member, NEW p \in Partition PROVE ReadSound(m, p)
  <2>1. eng[m].parts[p] = NewPart /\ owner[p] # m /\ p \notin lost[m] /\ pos[m][p] = 0
    BY <1>2, <1>3, GroupAssumption
  <2>2. QED
    BY <2>1 DEF ReadSound, ReadOk
<1>7. MembersSound
  BY <1>2, <1>3, <1>5, <1>6 DEF MembersSound
<1>8. TopicSound
  BY <1>2 DEF TopicSound
<1>9. VerdictsSound
  <2>1. \A m \in Member : Known(eng[m]) = {}
    BY <1>2, <1>3 DEF Known, Ids
  <2>2. QED
    BY <1>2, <2>1 DEF VerdictsSound
<1>10. QED
  BY <1>4, <1>7, <1>8, <1>9 DEF IInv

LEMMA NextSound ==
  ASSUME IInv, Next
  PROVE  IInv' /\ Onward
<1>1. CASE \E p \in Partition : ProduceRecord(p)
  BY <1>1, ProduceSound
<1>2. ASSUME NEW m \in Member, Start(m) \/ Cancel(m) \/ FinalTimeout(m) PROVE IInv' /\ Onward
  BY <1>2, StartSound
<1>3. ASSUME NEW m \in Member, Crash(m) PROVE IInv' /\ Onward
  BY <1>3, CrashSound
<1>4. ASSUME NEW m \in Member, Exit(m) PROVE IInv' /\ Onward
  BY <1>4, ExitSound
<1>5. ASSUME NEW m \in Member, ExpelMember(m) PROVE IInv' /\ Onward
  BY <1>5, ExpelSound
<1>6. ASSUME NEW m \in Member, NoticeLoss(m) PROVE IInv' /\ Onward
  BY <1>6, NoticeLossSound
<1>7. ASSUME NEW m \in Member, NEW p \in Partition, AssignPartition(m, p) PROVE IInv' /\ Onward
  BY <1>7, AssignSound
<1>8. ASSUME NEW m \in Member, NEW p \in Partition, RevokePartition(m, p) PROVE IInv' /\ Onward
  BY <1>8, RevokeSound
<1>9. ASSUME NEW m \in Member, NEW p \in Partition, AddRecord(m, p) PROVE IInv' /\ Onward
  BY <1>9, AddRecordSound
<1>10. ASSUME NEW m \in Member, NEW n, NEW k, Tick(m, n, k) PROVE IInv' /\ Onward
  BY <1>10, TickSound
<1>11. ASSUME NEW m \in Member, FlushDone(m) PROVE IInv' /\ Onward
  BY <1>11, FlushDoneSound
<1>12. ASSUME NEW m \in Member, FlushLast(m) PROVE IInv' /\ Onward
  BY <1>12, FlushLastSound
<1>13. ASSUME NEW m \in Member, FlushCancelled(m) PROVE IInv' /\ Onward
  BY <1>13, FlushCancelledSound
<1>14. ASSUME NEW m \in Member, ProduceFails(m) PROVE IInv' /\ Onward
  BY <1>14, ProduceFailsSound
<1>15. QED
  BY <1>1, <1>2, <1>3, <1>4, <1>5, <1>6, <1>7, <1>8, <1>9, <1>10, <1>11, <1>12, <1>13, <1>14 DEF Next

LEMMA StutterSound ==
  ASSUME IInv, UNCHANGED vars
  PROVE  IInv'
<1>1. /\ log' = log /\ committed' = committed /\ owner' = owner /\ pos' = pos /\ lost' = lost /\ gone' = gone
      /\ pc' = pc /\ cancelled' = cancelled
      /\ eng' = eng /\ produced' = produced /\ dups' = dups /\ discarded' = discarded /\ dropped' = dropped
      /\ forgotten' = forgotten /\ excused' = excused /\ revokes' = revokes /\ faults' = faults
  BY DEF vars, groupVars, localVars, topicVars
<1>2. OuterOK'
  BY <1>1, TypeUnfold DEF OuterOK, GroupTypeOK
<1>3. dups' # {} => excused'
  BY <1>1, OldHistories
<1>4. \A x \in produced' : x \in produced
  BY <1>1
<1>5. QED
  BY <1>1, <1>2, <1>3, <1>4, StillStep

(* The samplers keep the inductive invariant, for any group, records, limits and faults. *)
THEOREM Invariance == Spec => []IInv
<1>1. Init => IInv
  BY InitSound
<1>2. IInv /\ [Next]_vars => IInv'
  BY NextSound, StutterSound
<1>3. QED
  BY <1>1, <1>2, PTL DEF Spec

-----------------------------------------------------------------------------
(* The theorems. *)

(* The engines, positions and histories have their types, and no reference count is negative. *)
THEOREM TypeCorrect == Spec => []TypeOK
BY Invariance, PTL DEF IInv

(***************************************************************************)
(* An uncommitted record is held back by exactly the buffered traces and   *)
(* the unproduced outputs with a span of it, whatever decide, appendSpan,  *)
(* late, Release and DropPartitions did before, unless onGone gave up an   *)
(* output with a span of it.                                               *)
(***************************************************************************)
THEOREM ReferencesExact == Spec => []RefsExact
<1>1. IInv => RefsExact
  <2> SUFFICES ASSUME IInv, NEW m \in Member, NEW p \in Partition, NEW i \in DOMAIN eng[m].parts[p].entries
               PROVE  LET x == eng[m].parts[p].entries[i] IN
                      \/ SpansOf(p, x.offset) \cap discarded # {}
                      \/ x.refs = Count(eng[m].traces, <<p, x.offset>>) + Count(eng[m].out, <<p, x.offset>>)
    BY DEF RefsExact
  <2> DEFINE o == eng[m].parts[p].entries[i].offset
             c == eng[m].parts[p].entries[i].refs
  <2>1. c = Users(eng[m], <<p, o>>) \/ <<p, o>> \in GivenUp(discarded)
    BY MemberFacts DEF EngineSound, EngineSoundAt, Counted
  <2>2. CASE c = Users(eng[m], <<p, o>>)
    BY <2>2 DEF Users
  <2>3. CASE <<p, o>> \in GivenUp(discarded)
    <3>1. PICK x \in discarded : Key(x) = <<p, o>>
      BY <2>3 DEF GivenUp
    <3>2. x \in Span /\ x[3] \in DOMAIN log[x[1]][x[2] + 1]
      BY OldHistories DEF InLog
    <3>3. x[1] = p /\ x[2] = o
      BY <3>1 DEF Key
    <3>4. x = <<x[1], x[2], x[3]>>
      BY <3>2 DEF Span
    <3> HIDE DEF o
    <3>5. x \in SpansOf(p, o)
      BY <3>2, <3>3, <3>4 DEF SpansOf, Rec
    <3>6. QED
      BY <3>1, <3>5 DEF o
  <2>4. QED
    BY <2>1, <2>2, <2>3
<1>2. QED
  BY <1>1, Invariance, PTL

(***************************************************************************)
(* A span is twice in the sampled topic only after a crash, a lost         *)
(* partition, or a produce or commit that failed: limits, late spans and   *)
(* the planned hand-overs of onGone never repeat one.                      *)
(***************************************************************************)
THEOREM NoUnexcusedDuplicate == Spec => []DuplicatesExcused
<1>1. IInv => DuplicatesExcused
  BY OldHistories DEF DuplicatesExcused
<1>2. QED
  BY <1>1, Invariance, PTL

(***************************************************************************)
(* A trace is not both in the sampled topic and dropped, unless the        *)
(* decision cache forgot it or two members saw spans of it.                *)
(***************************************************************************)
THEOREM TracesWhole == Spec => []WholeTraces
<1>1. IInv => WholeTraces
  <2> SUFFICES ASSUME IInv, NEW x \in produced, NEW y \in dropped,
                      Rec(x[1], x[2])[x[3]] = Rec(y[1], y[2])[y[3]], Rec(x[1], x[2])[x[3]] \notin forgotten
               PROVE  FALSE
    BY DEF WholeTraces
  <2> DEFINE t == TraceOf(log, x)
  <2>1. t = Rec(x[1], x[2])[x[3]] /\ t = TraceOf(log, y) /\ t \notin forgotten
    BY DEF TraceOf, Rec
  <2>2. PICK m \in Member : Cached(eng[m], t, TRUE)
    BY <2>1 DEF IInv, VerdictsSound
  <2>3. TraceOf(log, y) \in forgotten \/ \E k \in Member : Cached(eng[k], TraceOf(log, y), FALSE)
    BY DEF IInv, VerdictsSound
  <2> HIDE DEF t
  <2>4. PICK k \in Member : Cached(eng[k], t, FALSE)
    BY <2>1, <2>3
  <2>5. t \in Known(eng[m]) /\ t \in Known(eng[k])
    BY <2>2, <2>4 DEF Cached, Known, Ids
  <2>6. m = k
    BY <2>1, <2>5 DEF IInv, VerdictsSound
  <2>7. Distinct(eng[m].cache)
    BY MemberFacts DEF EngineSound, EngineSoundAt, TracesShape
  <2>8. QED
    BY <2>2, <2>4, <2>6, <2>7 DEF Cached, Distinct
<1>2. QED
  BY <1>1, Invariance, PTL

LEMMA HandledIs ==
  ASSUME IInv, NEW p \in Partition, NEW o \in Nat, o < End(p), HandledIn(log, produced \cup dropped, p, o)
  PROVE  Handled(p, o)
<1> SUFFICES ASSUME NEW i \in DOMAIN Rec(p, o) PROVE <<p, o, i>> \in produced \cup dropped
  BY DEF Handled, SpansOf
<1>1. log[p] \in Seq(Record) /\ Len(log[p]) \in Nat
  BY TypeFacts
<1>2. Rec(p, o) \in Seq(Trace)
  <2>1. o + 1 \in 1..Len(log[p])
    BY <1>1 DEF End
  <2>2. log[p][o + 1] \in Record
    BY <1>1, <2>1
  <2>3. QED
    BY <2>2, SamplingAssumption DEF Rec
<1>3. i \in Nat
  BY <1>2
<1> DEFINE x == <<p, o, i>>
<1>4. x \in Span /\ x[1] = p /\ x[2] = o /\ x[3] = i
  BY <1>3 DEF Span
<1> HIDE DEF x
<1>5. InLog(log, x) /\ Key(x) = <<p, o>>
  BY <1>4 DEF InLog, Key, Rec, End
<1>6. x \in produced \cup dropped
  BY <1>4, <1>5 DEF HandledIn
<1>7. QED
  BY <1>6 DEF x

(* The records of p whose spans are all dropped or produced. *)
HandledOf(p) == {o \in 0..(End(p) - 1) : Handled(p, o)}

PipeOk ==
    \A p \in Partition :
        /\ End(p) \in Nat /\ committed[p] \in Nat /\ HandledOf(p) \subseteq Nat
        /\ HandledOf(p) \subseteq 0..(End(p) - 1)
        /\ 0..(committed[p] - 1) \subseteq HandledOf(p)

LEMMA PipeState == IInv => PipeOk
<1> SUFFICES ASSUME IInv, NEW p \in Partition
             PROVE  /\ End(p) \in Nat /\ committed[p] \in Nat /\ HandledOf(p) \subseteq Nat
                    /\ HandledOf(p) \subseteq 0..(End(p) - 1)
                    /\ 0..(committed[p] - 1) \subseteq HandledOf(p)
  BY DEF PipeOk
<1>1. End(p) \in Nat /\ committed[p] \in Nat
  BY TypeFacts DEF End
<1>2. committed[p] <= End(p) /\ \A o \in 0..(committed[p] - 1) : HandledIn(log, produced \cup dropped, p, o)
  BY DEF IInv, TopicSound, End
<1>3. \A o \in 0..(committed[p] - 1) : o \in 0..(End(p) - 1) /\ o \in Nat /\ o < End(p)
  BY <1>1, <1>2
<1>4. \A o \in 0..(committed[p] - 1) : Handled(p, o)
  BY <1>2, <1>3, HandledIs
<1> QED
  BY <1>1, <1>3, <1>4 DEF HandledOf

(***************************************************************************)
(* The samplers implement RecordPipe: for any group, records, limits and   *)
(* faults CommitOffsets acknowledges only records whose spans a decision   *)
(* dropped or the sampled topic has, and what was produced, handled or     *)
(* acknowledged stays so.                                                  *)
(***************************************************************************)
THEOREM PipeImplemented == Spec => SamplesAtLeastOnce
<1>1. Init => Pipe!Init
  <2> SUFFICES ASSUME Init PROVE Pipe!Init
    OBVIOUS
  <2>1. \A p \in Partition : End(p) = 0
    BY DEF Init, GroupInit, End
  <2>2. \A p \in Partition : {o \in 0..(End(p) - 1) : Handled(p, o)} = {}
    BY <2>1
  <2> QED
    BY <2>1, <2>2 DEF Pipe!Init, Init, GroupInit
<1>2. ASSUME IInv, IInv', PipeOk', Next
      PROVE  Pipe!Deliver
  <2>0. Onward
    BY <1>2, NextSound
  <2>1. \A p \in Partition :
          /\ End(p)' \in Nat /\ committed'[p] \in Nat /\ HandledOf(p)' \subseteq Nat
          /\ HandledOf(p)' \subseteq 0..(End(p)' - 1)
          /\ 0..(committed'[p] - 1) \subseteq HandledOf(p)'
    BY <1>2 DEF PipeOk
  <2>2. ASSUME NEW p \in Partition
        PROVE  End(p) <= End(p)' /\ HandledOf(p) \subseteq HandledOf(p)' /\ committed[p] <= committed'[p]
    <3>1. Len(log[p]) \in Nat /\ Len(log'[p]) \in Nat
      BY <1>2, <2>0, <2>1, TypeFacts DEF End
    <3>2. Len(log[p]) <= Len(log'[p]) /\ (\A i \in 1..Len(log[p]) : log'[p][i] = log[p][i]) /\ committed[p] <= committed'[p]
      BY <2>0 DEF Onward
    <3>3. ASSUME NEW o \in HandledOf(p) PROVE o \in HandledOf(p)'
      <4>1. o \in 0..(Len(log[p]) - 1) /\ SpansOf(p, o) \subseteq produced \cup dropped
        BY <3>3 DEF HandledOf, End, Handled
      <4>2. log'[p][o + 1] = log[p][o + 1]
        BY <3>1, <3>2, <4>1
      <4>3. SpansOf(p, o)' = SpansOf(p, o)
        BY <4>2 DEF SpansOf, Rec
      <4>4. SpansOf(p, o)' \subseteq produced' \cup dropped'
        BY <2>0, <4>1, <4>3 DEF Onward
      <4>5. o \in 0..(Len(log'[p]) - 1)
        BY <3>1, <3>2, <4>1
      <4> QED
        BY <4>4, <4>5 DEF HandledOf, Handled, End
    <3> QED
      BY <3>2, <3>3 DEF End
  <2>3. committed' = [p \in Partition |-> committed'[p]]
    BY <1>2 DEF IInv, TypeOK, GroupTypeOK
  <2> QED
    BY <2>1, <2>2, <2>3 DEF Pipe!Deliver, HandledOf
<1>3. ASSUME UNCHANGED vars
      PROVE  UNCHANGED Pipe!vars
  BY <1>3 DEF Pipe!vars, vars, groupVars, localVars, topicVars, End, Handled, SpansOf, Rec
<1>4. IInv /\ IInv' /\ PipeOk' /\ [Next]_vars => [Pipe!Deliver]_(Pipe!vars)
  BY <1>2, <1>3
<1> QED
  BY <1>1, <1>4, PipeState, Invariance, PTL DEF Spec, SamplesAtLeastOnce, Pipe!Spec
=============================================================================
