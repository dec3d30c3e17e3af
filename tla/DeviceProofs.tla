------------------------------ MODULE DeviceProofs ------------------------------
(***************************************************************************)
(* How often a job fires, and that it is not lost: for every number of     *)
(* jobs, every set of trigger counts, and any number of crashes and failed *)
(* saves.  And one speak at a time, for every set of requests and stops.   *)
(***************************************************************************)
EXTENDS CronDevice, Speaker, SequenceTheorems, TLAPS

Rec == [id : Job, expr : SUBSET Minute, count : Nat, text : TextKind]

Elems(list) == {list[i] : i \in DOMAIN list}

Distinct(list) == \A i, k \in DOMAIN list : list[i].id = list[k].id => i = k

\* Nothing but what was in the list, still without duplicates.
Within(new, list) ==
    /\ Elems(new) \subseteq Elems(list)
    /\ Distinct(list) => Distinct(new)

------------------------------------------------------------------------------
(* Lists of jobs.                                                          *)

LEMMA InElems ==
  ASSUME NEW list \in Seq(Rec), NEW j
  PROVE  /\ Elems(list) \subseteq Rec
         /\ InList(list, j) <=> \E e \in Elems(list) : e.id = j
BY DEF Elems, InList

LEMMA AppendList ==
  ASSUME NEW list \in Seq(Rec), NEW e \in Rec
  PROVE  /\ Append(list, e) \in Seq(Rec) /\ Append(list, e) # <<>>
         /\ Last(Append(list, e)) = e
         /\ Elems(Append(list, e)) = Elems(list) \cup {e}
         /\ Distinct(list) /\ ~InList(list, e.id) => Distinct(Append(list, e))
<1> DEFINE new == Append(list, e)
<1>1. /\ new \in Seq(Rec) /\ new # <<>> /\ Len(new) = Len(list) + 1
      /\ \A i \in 1..Len(list) : new[i] = list[i]
      /\ new[Len(list) + 1] = e
  BY AppendProperties
<1> HIDE DEF new
<1>2. DOMAIN new = DOMAIN list \cup {Len(new)} /\ DOMAIN list = 1..Len(list)
  BY <1>1
<1>3. Elems(new) = Elems(list) \cup {e}
  BY <1>1, <1>2 DEF Elems
<1>4. Distinct(list) /\ ~InList(list, e.id) => Distinct(new)
  BY <1>1, <1>2 DEF Distinct, InList
<1>5. Last(new) = e
  BY <1>1 DEF Last
<1> QED
  BY <1>1, <1>3, <1>4, <1>5 DEF new

LEMMA SubSeqList ==
  ASSUME NEW list \in Seq(Rec), NEW m \in 1..Len(list) + 1, NEW n \in 0..Len(list)
  PROVE  /\ SubSeq(list, m, n) \in Seq(Rec)
         /\ Within(SubSeq(list, m, n), list)
         /\ \A i \in DOMAIN list : i < m \/ i > n \/ list[i] \in Elems(SubSeq(list, m, n))
<1> DEFINE new == SubSeq(list, m, n)
<1>0. \A i \in m..n : list[i] \in Rec
  OBVIOUS
<1>1. /\ new \in Seq(Rec)
      /\ Len(new) = IF m <= n THEN n - m + 1 ELSE 0
      /\ \A i \in 1..n - m + 1 : new[i] = list[m + i - 1]
  BY <1>0, SubSeqProperties
<1> HIDE DEF new
<1>2. \A i \in DOMAIN new : m + i - 1 \in DOMAIN list /\ new[i] = list[m + i - 1]
  BY <1>1
<1>3. Elems(new) \subseteq Elems(list)
  BY <1>2 DEF Elems
<1>4. ASSUME Distinct(list) PROVE Distinct(new)
  <2> SUFFICES ASSUME NEW i \in DOMAIN new, NEW k \in DOMAIN new, new[i].id = new[k].id PROVE i = k
    BY DEF Distinct
  <2>1. m + i - 1 = m + k - 1
    BY <1>2, <1>4 DEF Distinct
  <2> QED
    BY <2>1, <1>1
<1>5. ASSUME NEW i \in DOMAIN list, ~(i < m), ~(i > n) PROVE list[i] \in Elems(new)
  <2>1. i - m + 1 \in DOMAIN new /\ new[i - m + 1] = list[i]
    BY <1>1, <1>5
  <2> QED
    BY <2>1 DEF Elems
<1> QED
  BY <1>1, <1>3, <1>4, <1>5 DEF new, Within

LEMMA TailList ==
  ASSUME NEW list \in Seq(Rec), list # <<>>
  PROVE  /\ Head(list) \in Elems(list)
         /\ Tail(list) \in Seq(Rec)
         /\ Within(Tail(list), list)
         /\ Distinct(list) => ~InList(Tail(list), Head(list).id)
         /\ \A j : InList(list, j) => j = Head(list).id \/ InList(Tail(list), j)
<1> DEFINE new == Tail(list)
<1>1. /\ new \in Seq(Rec) /\ Len(new) = Len(list) - 1
      /\ \A i \in 1..Len(new) : new[i] = list[i + 1]
      /\ Head(list) = list[1] /\ Len(list) > 0
  BY HeadTailProperties
<1> HIDE DEF new
<1>2. Head(list) \in Elems(list)
  BY <1>1 DEF Elems
<1>3. \A i \in DOMAIN new : i + 1 \in DOMAIN list /\ new[i] = list[i + 1]
  BY <1>1
<1>4. Elems(new) \subseteq Elems(list)
  BY <1>3 DEF Elems
<1>5. Distinct(list) => Distinct(new)
  BY <1>1, <1>3 DEF Distinct
<1>6. ASSUME Distinct(list), InList(new, Head(list).id) PROVE FALSE
  <2>1. PICK i \in DOMAIN new : new[i].id = Head(list).id
    BY <1>6 DEF InList
  <2>2. i \in Nat /\ i >= 1 /\ i + 1 \in DOMAIN list /\ 1 \in DOMAIN list
    BY <2>1, <1>1
  <2>3. list[i + 1].id = list[1].id
    BY <2>1, <1>3, <1>1
  <2>4. i + 1 = 1
    BY <1>6, <2>2, <2>3 DEF Distinct
  <2> QED
    BY <2>2, <2>4
<1>7. ASSUME NEW j, InList(list, j), j # Head(list).id PROVE InList(new, j)
  <2>1. PICK i \in DOMAIN list : list[i].id = j
    BY <1>7 DEF InList
  <2>2. i - 1 \in DOMAIN new /\ new[i - 1] = list[i]
    BY <2>1, <1>1, <1>7
  <2> QED
    BY <2>1, <2>2 DEF InList
<1> QED
  BY <1>1, <1>2, <1>4, <1>5, <1>6, <1>7 DEF new, Within

LEMMA FrontList ==
  ASSUME NEW list \in Seq(Rec), list # <<>>
  PROVE  /\ Last(list) \in Elems(list)
         /\ Front(list) \in Seq(Rec)
         /\ Within(Front(list), list)
         /\ \A j : InList(list, j) => j = Last(list).id \/ InList(Front(list), j)
<1> DEFINE new == Front(list)
<1>1. new = SubSeq(list, 1, Len(list) - 1) /\ Len(list) - 1 \in 0..Len(list)
  BY DEF Front
<1> HIDE DEF new
<1>2. /\ new \in Seq(Rec) /\ Within(new, list)
      /\ \A i \in DOMAIN list : i < 1 \/ i > Len(list) - 1 \/ list[i] \in Elems(new)
  BY <1>1, SubSeqList
<1>3. Last(list) = list[Len(list)] /\ Len(list) \in DOMAIN list
  BY DEF Last
<1>4. Last(list) \in Elems(list)
  BY <1>3 DEF Elems
<1>5. ASSUME NEW j, InList(list, j), j # Last(list).id PROVE InList(new, j)
  <2>1. PICK i \in DOMAIN list : list[i].id = j
    BY <1>5 DEF InList
  <2>2. list[i] \in Elems(new)
    BY <2>1, <1>2, <1>3, <1>5
  <2> QED
    BY <2>1, <2>2, <1>2, InElems
<1> QED
  BY <1>2, <1>4, <1>5 DEF new

\* del self._entries[i]: what is left, place by place.
LEMMA WithoutAt ==
  ASSUME NEW list \in Seq(Rec), NEW j, InList(list, j)
  PROVE  /\ Without(list, j) \in Seq(Rec) /\ Len(Without(list, j)) = Len(list) - 1
         /\ \E p \in DOMAIN list :
              /\ list[p].id = j
              /\ \A i \in DOMAIN Without(list, j) :
                   Without(list, j)[i] = IF i < p THEN list[i] ELSE list[i + 1]
<1> DEFINE p == CHOOSE i \in DOMAIN list : list[i].id = j
<1>1. p \in DOMAIN list /\ list[p].id = j
  BY DEF InList
<1>2. Without(list, j) = SubSeq(list, 1, p - 1) \o SubSeq(list, p + 1, Len(list))
  BY DEF Without, RemoveAt
<1> HIDE DEF p
<1> DEFINE new == Without(list, j)
<1>3. /\ new \in Seq(Rec) /\ Len(new) = Len(list) - 1
      /\ \A i \in DOMAIN new : new[i] = IF i < p THEN list[i] ELSE list[i + 1]
  <2>1. /\ SubSeq(list, 1, p - 1) \in Seq(Rec) /\ Len(SubSeq(list, 1, p - 1)) = p - 1
        /\ \A i \in 1..p - 1 : SubSeq(list, 1, p - 1)[i] = list[i]
    BY <1>1, SubSeqProperties
  <2>2. /\ SubSeq(list, p + 1, Len(list)) \in Seq(Rec)
        /\ Len(SubSeq(list, p + 1, Len(list))) = Len(list) - p
        /\ \A i \in 1..Len(list) - p : SubSeq(list, p + 1, Len(list))[i] = list[p + i]
    BY <1>1, SubSeqProperties
  <2> DEFINE l == SubSeq(list, 1, p - 1)
             r == SubSeq(list, p + 1, Len(list))
  <2>3. /\ l \o r \in Seq(Rec) /\ Len(l \o r) = Len(l) + Len(r)
        /\ \A i \in 1..Len(l) + Len(r) :
             (l \o r)[i] = IF i <= Len(l) THEN l[i] ELSE r[i - Len(l)]
    BY <2>1, <2>2, ConcatProperties
  <2>4. new = l \o r
    BY <1>2 DEF l, r
  <2> HIDE DEF l, r
  <2>5. Len(new) = Len(list) - 1 /\ new \in Seq(Rec)
    BY <1>1, <2>1, <2>2, <2>3, <2>4 DEF l, r
  <2>6. ASSUME NEW i \in DOMAIN new
        PROVE  new[i] = IF i < p THEN list[i] ELSE list[i + 1]
    <3>1. i \in 1..Len(l) + Len(r) /\ Len(l) = p - 1 /\ Len(r) = Len(list) - p
      BY <1>1, <2>1, <2>2, <2>5, SMTT(30) DEF l, r
    <3>2. i < p => new[i] = l[i] /\ l[i] = list[i]
      BY <3>1, <1>1, <2>1, <2>3, <2>4 DEF l
    <3>3. ~(i < p) => new[i] = r[i - (p - 1)] /\ r[i - (p - 1)] = list[p + (i - (p - 1))]
      <4>1. ~(i < p) => i - (p - 1) \in 1..Len(list) - p
        BY <3>1, <1>1
      <4>2. ~(i < p) => ~(i <= Len(l)) /\ i - Len(l) = i - (p - 1)
        BY <3>1, <1>1
      <4>3. ~(i < p) => (l \o r)[i] = r[i - Len(l)]
        BY <3>1, <4>2, <2>3, Zenon
      <4>4. ~(i < p) => new[i] = r[i - (p - 1)]
        BY <4>2, <4>3, <2>4, Zenon
      <4> QED
        BY <4>1, <4>4, <2>2 DEF r
    <3> QED
      BY <3>1, <3>2, <3>3, <1>1
  <2> QED
    BY <2>5, <2>6
<1> HIDE DEF new
<1> QED
  BY <1>1, <1>3 DEF new

\* It has the entries whose id is another.
LEMMA WithoutList ==
  ASSUME NEW list \in Seq(Rec), NEW j
  PROVE  /\ Without(list, j) \in Seq(Rec)
         /\ Within(Without(list, j), list)
         /\ Distinct(list) => ~InList(Without(list, j), j)
         /\ \A k : InList(list, k) => k = j \/ InList(Without(list, j), k)
<1>1. CASE ~InList(list, j)
  BY <1>1 DEF Without, Within
<1>2. CASE InList(list, j)
  <2> DEFINE new == Without(list, j)
  <2>2. PICK p \in DOMAIN list :
          /\ list[p].id = j
          /\ \A i \in DOMAIN new : new[i] = IF i < p THEN list[i] ELSE list[i + 1]
    BY <1>2, WithoutAt
  <2>4. new \in Seq(Rec) /\ Len(new) = Len(list) - 1
        /\ \A i \in DOMAIN new : new[i] = IF i < p THEN list[i] ELSE list[i + 1]
    BY <1>2, <2>2, WithoutAt
  <2> HIDE DEF new
  <2>5. Elems(new) \subseteq Elems(list)
    BY <2>2, <2>4 DEF Elems
  <2>6. ASSUME Distinct(list) PROVE Distinct(new) /\ ~InList(new, j)
    <3>1. \A i \in DOMAIN new : /\ i < p => i \in DOMAIN list /\ new[i] = list[i]
                                /\ i >= p => i + 1 \in DOMAIN list /\ new[i] = list[i + 1]
      BY <2>2, <2>4
    <3>2. Distinct(new)
      <4> SUFFICES ASSUME NEW i \in DOMAIN new, NEW k \in DOMAIN new, new[i].id = new[k].id
                   PROVE  i = k
        BY DEF Distinct
      <4> DEFINE at(n) == IF n < p THEN n ELSE n + 1
      <4>1. at(i) \in DOMAIN list /\ at(k) \in DOMAIN list /\ list[at(i)].id = list[at(k)].id
        BY <3>1, <2>2, <2>4
      <4>2. at(i) = at(k)
        BY <4>1, <2>6 DEF Distinct
      <4> QED
        BY <4>2, <2>2, <2>4
    <3>3. ASSUME InList(new, j) PROVE FALSE
      <4>1. PICK i \in DOMAIN new : new[i].id = j
        BY <3>3 DEF InList
      <4>2. (i < p => i = p) /\ (i >= p => i + 1 = p)
        BY <4>1, <3>1, <2>2, <2>6 DEF Distinct
      <4> QED
        BY <4>1, <4>2, <2>2, <2>4
    <3> QED
      BY <3>2, <3>3
  <2>7. ASSUME NEW k, InList(list, k), k # j PROVE InList(new, k)
    <3>1. PICK i \in DOMAIN list : list[i].id = k
      BY <2>7 DEF InList
    <3>2. CASE i < p
      <4>1. i \in DOMAIN new /\ new[i] = list[i]
        BY <3>1, <3>2, <2>2, <2>4
      <4> QED
        BY <4>1, <3>1 DEF InList
    <3>3. CASE i > p
      <4>1. i - 1 \in DOMAIN new /\ new[i - 1] = list[i]
        BY <3>1, <3>3, <2>2, <2>4
      <4> QED
        BY <4>1, <3>1 DEF InList
    <3> QED
      BY <3>1, <3>2, <3>3, <2>2, <2>7
  <2> QED
    BY <2>4, <2>5, <2>6, <2>7 DEF new, Within
<1> QED
  BY <1>1, <1>2

\* Lists that hold the same jobs in the same order, with other counts or params.
Alike(new, list) ==
    DOMAIN new = DOMAIN list /\ \A i \in DOMAIN list : new[i].id = list[i].id

LEMMA AlikeList ==
  ASSUME NEW new, NEW list, Alike(new, list)
  PROVE  /\ Distinct(list) => Distinct(new)
         /\ \A j : InList(list, j) <=> InList(new, j)
BY DEF Alike, Distinct, InList

LEMMA WithCountList ==
  ASSUME NEW list \in Seq(Rec), NEW j, NEW count \in Nat
  PROVE  /\ WithCount(list, j, count) \in Seq(Rec)
         /\ Alike(WithCount(list, j, count), list)
         /\ \A e \in Elems(WithCount(list, j, count)) :
              \/ e \in Elems(list) /\ e.id # j
              \/ e.id = j /\ \E f \in Elems(list) : e = [f EXCEPT !.count = count]
<1> DEFINE new == WithCount(list, j, count)
<1>1. DOMAIN new = DOMAIN list /\ DOMAIN list = 1..Len(list) /\ Len(list) \in Nat
  BY DEF WithCount
<1>2. ASSUME NEW i \in DOMAIN list
      PROVE  /\ new[i] \in Rec /\ new[i].id = list[i].id
             /\ new[i] = IF list[i].id = j THEN [list[i] EXCEPT !.count = count] ELSE list[i]
  <2>1. list[i] \in Rec
    OBVIOUS
  <2> QED
    BY <2>1 DEF WithCount, Rec
<1>3. new \in Seq(Rec)
  <2>1. new = [i \in 1..Len(list) |-> new[i]]
    BY <1>1 DEF WithCount
  <2> HIDE DEF new
  <2> QED
    BY <2>1, <1>1, <1>2
<1> HIDE DEF new
<1>4. ASSUME NEW e \in Elems(new)
      PROVE  \/ e \in Elems(list) /\ e.id # j
             \/ e.id = j /\ \E f \in Elems(list) : e = [f EXCEPT !.count = count]
  BY <1>1, <1>2 DEF Elems
<1> QED
  BY <1>1, <1>2, <1>3, <1>4 DEF Alike, new

\* What a line is read as has its job, and its text if that is plain.
LEMMA ReadAsRec ==
  ASSUME NEW f \in Rec, NEW e \in ReadAs(f)
  PROVE  /\ e \in Rec /\ e.id = f.id
         /\ f.text # "bar" => e = f
         /\ f.text = "plain" \/ f.text = "bar" => e.text = "plain"
         /\ f.text # "surrogate" => e.text # "surrogate"
<1>1. AnyCount \subseteq Nat
  BY CronAssumption DEF AnyCount
<1>2. CASE f.text = "bar"
  <2>1. PICK c \in AnyCount : e = [f EXCEPT !.count = c, !.text = "plain"]
    BY <1>2 DEF ReadAs
  <2>2. c \in Nat
    BY <1>1
  <2> QED
    BY <1>2, <2>1, <2>2 DEF Rec, TextKind
<1>3. CASE f.text # "bar"
  <2>1. e = f
    BY <1>3 DEF ReadAs
  <2> QED
    BY <1>3, <2>1 DEF Rec
<1> QED
  BY <1>2, <1>3

\* A line is read, unless a newline breaks it.
LEMMA LineIsRead ==
  ASSUME NEW f \in Rec, f.text # "newline"
  PROVE  ReadAs(f) # {}
<1>1. CASE f.text = "bar"
  <2>1. [f EXCEPT !.count = 0, !.text = "plain"] \in ReadAs(f)
    BY <1>1 DEF ReadAs, AnyCount
  <2> QED
    BY <2>1
<1>2. CASE f.text # "bar"
  <2>1. ReadAs(f) = {f}
    BY <1>2 DEF ReadAs
  <2> QED
    BY <2>1
<1> QED
  BY <1>1, <1>2

LEMMA ReadBackList ==
  ASSUME NEW list \in Seq(Rec), NEW new \in ReadBack(list)
  PROVE  /\ new \in Seq(Rec)
         /\ Distinct(list) => Distinct(new)
         /\ \A e \in Elems(new) : \E f \in Elems(list) : e \in ReadAs(f)
         /\ \A f \in Elems(list) : f.text # "newline" => InList(new, f.id)
<1> DEFINE kept == {i \in DOMAIN list : ReadAs(list[i]) # {}}
           read == UNION {ReadAs(list[i]) : i \in kept}
<1>1. DOMAIN list = 1..Len(list) /\ Len(list) \in Nat /\ \A i \in DOMAIN list : list[i] \in Rec
  OBVIOUS
<1>2. PICK n \in 0..Len(list) :
        /\ new \in [1..n -> read]
        /\ \E at \in [1..n -> kept] :
             /\ \A i, k \in 1..n : i < k => at[i] < at[k]
             /\ \A i \in kept : \E k \in 1..n : at[k] = i
             /\ \A i \in 1..n : new[i] \in ReadAs(list[at[i]])
  BY DEF ReadBack
<1>3. PICK at \in [1..n -> kept] :
             /\ \A i, k \in 1..n : i < k => at[i] < at[k]
             /\ \A i \in kept : \E k \in 1..n : at[k] = i
             /\ \A i \in 1..n : new[i] \in ReadAs(list[at[i]])
  BY <1>2
<1>4. \A i \in kept : i \in 1..Len(list) /\ i \in DOMAIN list
  BY <1>1
<1>5. read \subseteq Rec
  BY <1>1, <1>4, ReadAsRec
<1> HIDE DEF read
<1>6. /\ DOMAIN new = 1..n /\ n \in Nat /\ new \in Seq(Rec)
      /\ \A i \in 1..n : at[i] \in DOMAIN list /\ at[i] \in Nat
  <2>1. new \in [1..n -> Rec]
    BY <1>2, <1>5
  <2>2. n \in Nat /\ \A i \in 1..n : at[i] \in kept
    BY <1>1
  <2> QED
    BY <1>1, <1>4, <2>1, <2>2
<1> HIDE DEF kept
<1>7. \A i \in 1..n : new[i].id = list[at[i]].id
  BY <1>1, <1>3, <1>6, ReadAsRec
<1>8. ASSUME Distinct(list) PROVE Distinct(new)
  <2> SUFFICES ASSUME NEW i \in 1..n, NEW k \in 1..n, new[i].id = new[k].id PROVE i = k
    BY <1>6 DEF Distinct
  <2>1. at[i] = at[k]
    BY <1>6, <1>7, <1>8 DEF Distinct
  <2>2. at[i] \in Nat /\ at[k] \in Nat /\ ~(i < k) /\ ~(k < i)
    BY <1>3, <1>6, <2>1
  <2> QED
    BY <1>6, <2>2
<1>9. \A e \in Elems(new) : \E f \in Elems(list) : e \in ReadAs(f)
  BY <1>3, <1>6 DEF Elems
<1>10. ASSUME NEW f \in Elems(list), f.text # "newline" PROVE InList(new, f.id)
  <2>1. PICK i \in DOMAIN list : f = list[i]
    BY DEF Elems
  <2>2. i \in kept
    BY <1>1, <1>10, <2>1, LineIsRead DEF kept
  <2>3. PICK k \in 1..n : at[k] = i
    BY <1>3, <2>2
  <2> QED
    BY <1>6, <1>7, <2>1, <2>3 DEF InList
<1> QED
  BY <1>6, <1>8, <1>9, <1>10

\* A part of the list holds no job twice and none that was not written.
LEMMA PartsList ==
  ASSUME NEW list \in Seq(Rec), NEW part \in Parts(list)
  PROVE  /\ part \in Seq(Rec)
         /\ \A e \in Elems(part) : \E f \in Elems(list) : e.id = f.id /\ e.text = f.text
         /\ Distinct(list) => Distinct(part)
<1>1. CASE part \in {SubSeq(list, 1, n) : n \in 0..Len(list)}
  <2>1. PICK n \in 0..Len(list) : part = SubSeq(list, 1, n)
    BY <1>1
  <2>2. part \in Seq(Rec) /\ Within(part, list)
    BY <2>1, SubSeqList
  <2> QED
    BY <2>2, InElems DEF Within
<1>2. CASE part \notin {SubSeq(list, 1, n) : n \in 0..Len(list)}
  <2> PICK n \in DOMAIN list :
        part \in {Append(SubSeq(list, 1, n - 1), [list[n] EXCEPT !.count = c]) :
                    c \in Cut(list[n].count)}
    BY <1>2 DEF Parts
  <2>1. PICK c \in Cut(list[n].count) :
          part = Append(SubSeq(list, 1, n - 1), [list[n] EXCEPT !.count = c])
    OBVIOUS
  <2> DEFINE whole == SubSeq(list, 1, n - 1)
             cut == [list[n] EXCEPT !.count = c]
  <2>2. list[n] \in Rec /\ n \in 1..Len(list)
    OBVIOUS
  <2>9. c \in {0} \cup 1..list[n].count /\ list[n].count \in Nat
    BY <2>2, Zenon DEF Rec, Cut
  <2>3. cut \in Rec /\ cut.id = list[n].id /\ cut.text = list[n].text
    BY <2>2, <2>9 DEF Rec
  <2>4. whole \in Seq(Rec) /\ Within(whole, list)
    BY <2>2, SubSeqList
  <2>5. ASSUME Distinct(list) PROVE ~InList(whole, cut.id)
    <3>1. /\ Len(whole) = n - 1
          /\ \A i \in 1..n - 1 : whole[i] = list[i]
      BY <2>2, SubSeqProperties
    <3>2. DOMAIN whole = 1..n - 1
      BY <2>4, <3>1
    <3> QED
      BY <2>2, <2>3, <2>5, <3>1, <3>2 DEF InList, Distinct
  <2> HIDE DEF whole, cut
  <2>6. part = Append(whole, cut)
    BY <2>1 DEF whole, cut
  <2>7. /\ part \in Seq(Rec) /\ Elems(part) = Elems(whole) \cup {cut}
        /\ Distinct(whole) /\ ~InList(whole, cut.id) => Distinct(part)
    BY <2>3, <2>4, <2>6, AppendList
  <2>8. list[n] \in Elems(list)
    BY <2>2 DEF Elems
  <2> QED
    BY <2>3, <2>4, <2>5, <2>7, <2>8 DEF Within
<1> QED
  BY <1>1, <1>2

\* A list of different jobs out of a set.
Good(list, jobs) ==
    list \in Seq(Rec) /\ Distinct(list) /\ \A j : InList(list, j) => j \in jobs

LEMMA GoodLists ==
  ASSUME NEW list, NEW jobs, Good(list, jobs)
  PROVE  /\ \A j : Good(Without(list, j), jobs)
         /\ \A j : \A count \in Nat : Good(WithCount(list, j, count), jobs)
         /\ \A new \in ReadBack(list) : Good(new, jobs)
         /\ \A n \in 0..Len(list) : Good(SubSeq(list, 1, n), jobs)
         /\ \A part \in Parts(list) : Good(part, jobs)
         /\ \A e \in Rec : e.id \notin jobs => Good(Append(list, e), jobs \cup {e.id})
         /\ list # <<>> => Good(Tail(list), jobs) /\ Good(Front(list), jobs)
<1> list \in Seq(Rec)
  BY DEF Good
<1>1. ASSUME NEW new \in Seq(Rec), Within(new, list) PROVE Good(new, jobs)
  BY <1>1, InElems DEF Good, Within
<1>2. ASSUME NEW new \in Seq(Rec), Alike(new, list) PROVE Good(new, jobs)
  BY <1>2, AlikeList DEF Good
<1>3. \A j : Good(Without(list, j), jobs)
  BY <1>1, WithoutList
<1>4. \A j : \A count \in Nat : Good(WithCount(list, j, count), jobs)
  BY <1>2, WithCountList
<1>5. ASSUME NEW new \in ReadBack(list) PROVE Good(new, jobs)
  <2>1. /\ new \in Seq(Rec) /\ Distinct(new)
        /\ \A e \in Elems(new) : \E f \in Elems(list) : e \in ReadAs(f)
    BY ReadBackList DEF Good
  <2>2. \A e \in Elems(new) : \E f \in Elems(list) : e.id = f.id
    BY <2>1, ReadAsRec, InElems
  <2> QED
    BY <2>1, <2>2, InElems DEF Good
<1>6. ASSUME NEW part \in Parts(list) PROVE Good(part, jobs)
  BY PartsList, InElems DEF Good
<1>9. ASSUME NEW n \in 0..Len(list) PROVE Good(SubSeq(list, 1, n), jobs)
  <2>1. 1 \in 1..Len(list) + 1
    OBVIOUS
  <2> QED
    BY <1>1, <2>1, SubSeqList
<1>7. ASSUME NEW e \in Rec, e.id \notin jobs PROVE Good(Append(list, e), jobs \cup {e.id})
  <2> DEFINE new == Append(list, e)
  <2>1. ~InList(list, e.id)
    BY <1>7 DEF Good
  <2>2. new \in Seq(Rec) /\ Elems(new) = Elems(list) \cup {e} /\ Distinct(new)
    BY <2>1, AppendList DEF Good
  <2> HIDE DEF new
  <2>3. \A j : InList(new, j) => j \in jobs \cup {e.id}
    BY <2>2, InElems DEF Good
  <2> QED
    BY <2>2, <2>3 DEF Good, new
<1>8. list # <<>> => Good(Tail(list), jobs) /\ Good(Front(list), jobs)
  BY <1>1, TailList, FrontList
<1> QED
  BY <1>3, <1>4, <1>5, <1>6, <1>7, <1>8, <1>9

LEMMA GoodEmpty == \A jobs : Good(<<>>, jobs) /\ \A j : ~InList(<<>>, j)
BY DEF Good, Distinct, InList

------------------------------------------------------------------------------
(* The invariant.                                                          *)

Steps == {"sleep", "key", "snapshot", "loop", "record", "publish", "count", "dead"}

Typed ==
    /\ now \in Nat /\ up \in BOOLEAN /\ opened \in BOOLEAN /\ torn \in BOOLEAN /\ unread \in BOOLEAN
    /\ lock \in {"free", "add", "remove", "fire"}
    /\ last \in [Job -> Int] /\ fired \in [Job -> Nat]
    /\ sched \in [pc : Steps, wall : Int, key : Int, todo : Seq(Rec)]
    /\ crashes \in Nat /\ fails \in Nat
    /\ asked \in Seq(Rec) /\ marks \subseteq Job \X Int

Asked == DOMAIN asked

\* The three lists hold jobs that were added, each at most once.
ListsOK ==
    /\ Good(entries, Asked) /\ Good(file, Asked) /\ Good(sched.todo, Asked)
    /\ Asked \subseteq Job /\ \A j \in Asked : asked[j].id = j
    /\ acked \subseteq Asked /\ gone \subseteq Asked
    /\ \A j \in Job : fired[j] > 0 => j \in Asked
    /\ \A m \in marks : m[1] \in Asked

\* What the lock, the file and the scheduler's step say of the rest.
PlaceOK ==
    /\ ~up => lock = "free" /\ ~opened /\ entries = <<>> /\ sched = Asleep /\ marks = {}
    /\ opened => lock # "free" /\ file = <<>>
    /\ lock = "fire" => sched.pc = "count"
    /\ sched.pc \in {"record", "publish", "count"} => sched.todo # <<>>
    /\ sched.pc \in {"sleep", "key", "snapshot", "dead"} => sched.todo = <<>>
    /\ sched.pc = "count" => Due.count > 0
    /\ lock = "add" => entries # <<>> /\ Last(entries).id = Len(asked) /\ Len(asked) \notin acked
    /\ crashes = 0 => up

Base == Typed /\ ListsOK /\ PlaceOK

LEMMA InitBase == CronInit => Base
<1> SUFFICES ASSUME CronInit PROVE Base
  OBVIOUS
<1> USE DEF CronInit, Asleep, Fresh, NoMinute
<1>1. Typed
  <2>1. Asleep \in [pc : Steps, wall : Int, key : Int, todo : Seq(Rec)]
    BY DEF Steps
  <2>2. Fresh \in [Job -> Int] /\ asked \in Seq(Rec)
    OBVIOUS
  <2> QED
    BY <2>1, <2>2 DEF Typed
<1>2. ListsOK
  BY GoodEmpty DEF ListsOK, Asked
<1>3. PlaceOK
  BY DEF PlaceOK
<1> QED
  BY <1>1, <1>2, <1>3 DEF Base

\* What the scheduler has before it.
LEMMA DueOK ==
  ASSUME Base, sched.todo # <<>>
  PROVE  /\ Due \in Elems(sched.todo) /\ Due \in Rec /\ Due.id \in Asked /\ Due.id \in Job
         /\ Due.count \in Nat
         /\ Good(Tail(sched.todo), Asked)
         /\ \A j : InList(Tail(sched.todo), j) => InList(sched.todo, j) /\ j # Due.id
         /\ Elems(Tail(sched.todo)) \subseteq Elems(sched.todo)
<1>1. Good(sched.todo, Asked) /\ sched.todo \in Seq(Rec)
  BY DEF Base, ListsOK, Good
<1>2. /\ Due \in Elems(sched.todo) /\ ~InList(Tail(sched.todo), Due.id)
      /\ Elems(Tail(sched.todo)) \subseteq Elems(sched.todo)
  BY <1>1, TailList DEF Due, Good, Within
<1>3. Due \in Rec /\ Due.id \in Asked
  BY <1>1, <1>2, InElems DEF Good
<1>4. Good(Tail(sched.todo), Asked)
  BY <1>1, GoodLists
<1>5. \A j : InList(Tail(sched.todo), j) => InList(sched.todo, j)
  <2>1. Tail(sched.todo) \in Seq(Rec)
    BY <1>4 DEF Good
  <2>2. \A j : InList(Tail(sched.todo), j) <=> \E e \in Elems(Tail(sched.todo)) : e.id = j
    BY <2>1, InElems
  <2>3. \A j : InList(sched.todo, j) <=> \E e \in Elems(sched.todo) : e.id = j
    BY <1>1, InElems
  <2> QED
    BY <1>2, <2>2, <2>3
<1> QED
  BY <1>2, <1>3, <1>4, <1>5 DEF Rec

LEMMA EntryIsRec == JobEntry \subseteq Rec
BY CronAssumption DEF JobEntry, Rec

LEMMA AddCronBase ==
  ASSUME Base, NEW e \in JobEntry, AddCron(e)
  PROVE  Base'
<1>1. e \in Rec /\ e.id = Len(asked) + 1 /\ e.id \in Job
  BY EntryIsRec DEF AddCron, Rec
<1>2. asked \in Seq(Rec) /\ Asked = 1..Len(asked) /\ Len(asked) \in Nat
  BY DEF Base, Typed, Asked
<1>3. /\ asked' \in Seq(Rec) /\ Len(asked') = Len(asked) + 1 /\ Asked' = Asked \cup {e.id}
      /\ asked'[e.id] = e /\ \A j \in Asked : asked'[j] = asked[j]
  <2>1. asked' = Append(asked, e)
    BY DEF AddCron
  <2> QED
    BY <1>1, <1>2, <2>1, AppendProperties DEF Asked
<1>4. e.id \notin Asked
  BY <1>1, <1>2
<1>5. Good(entries', Asked') /\ entries' # <<>> /\ Last(entries') = e
  BY <1>1, <1>3, <1>4, GoodLists, AppendList DEF Base, ListsOK, AddCron, Good
<1>6. Good(file, Asked') /\ Good(sched.todo, Asked')
  BY <1>3 DEF Base, ListsOK, Good
<1>7. Typed'
  BY <1>3 DEF Base, Typed, AddCron
<1>8. ListsOK'
  BY <1>1, <1>3, <1>5, <1>6 DEF Base, ListsOK, AddCron
<1>9. PlaceOK'
  BY <1>1, <1>3, <1>4, <1>5 DEF Base, PlaceOK, ListsOK, AddCron, Free, Due
<1> QED
  BY <1>7, <1>8, <1>9 DEF Base

LEMMA RemoveCronBase ==
  ASSUME Base, NEW j \in Job, RemoveCron(j)
  PROVE  Base'
<1>1. Good(entries', Asked) /\ Asked' = Asked /\ j \in Asked
  BY GoodLists DEF Base, ListsOK, RemoveCron, Asked
<1>2. Typed'
  BY DEF Base, Typed, RemoveCron, NoMinute
<1>3. ListsOK'
  BY <1>1 DEF Base, ListsOK, RemoveCron
<1>4. PlaceOK'
  BY DEF Base, PlaceOK, RemoveCron, Free, Due
<1> QED
  BY <1>2, <1>3, <1>4 DEF Base

\* Once the file holds what it may hold, the end of a save keeps the rest.
LEMMA SavedBase ==
  ASSUME Base, up, lock # "free", NEW ok \in BOOLEAN, Saved(ok), Good(file', Asked)
  PROVE  Base'
<1>1. Asked' = Asked
  BY DEF Saved, Asked
<1>2. lock = "add" => entries # <<>> /\ Last(entries).id \in Asked
  BY FrontList, InElems DEF Base, PlaceOK, ListsOK, Good
<1>3. Good(entries', Asked)
  BY <1>2, GoodLists DEF Base, ListsOK, Saved
<1>4. lock = "fire" => sched.todo # <<>>
  BY DEF Base, PlaceOK
<1>5. Good(sched'.todo, Asked)
  BY <1>4, DueOK DEF Base, Typed, ListsOK, Saved
<1>6. sched' \in [pc : Steps, wall : Int, key : Int, todo : Seq(Rec)]
  BY <1>5 DEF Base, Typed, Steps, Saved, Good
<1>7. Typed'
  <2>1. fails' \in Nat /\ lock' = "free" /\ opened' = FALSE
    BY DEF Base, Typed, Saved
  <2>2. UNCHANGED <<now, up, last, crashes, asked, gone, fired, marks, twice, torn, unread>>
    BY DEF Saved
  <2> QED
    BY <1>6, <2>1, <2>2 DEF Base, Typed
<1>8. ListsOK'
  BY <1>1, <1>2, <1>3, <1>5 DEF Base, ListsOK, Saved
<1>9. PlaceOK'
  BY <1>4, <1>6 DEF Base, Typed, PlaceOK, Saved, Due
<1> QED
  BY <1>7, <1>8, <1>9 DEF Base

LEMMA OpenFileBase ==
  ASSUME Base, OpenFile
  PROVE  Base'
<1>1. CASE Saved(FALSE) /\ UNCHANGED file
  BY <1>1, SavedBase DEF Base, ListsOK, OpenFile
<1>2. CASE ~(Saved(FALSE) /\ UNCHANGED file)
  <2>1. Asked' = Asked /\ Good(file', Asked)
    BY <1>2, GoodEmpty DEF OpenFile, Asked, history
  <2>2. Typed'
    BY <1>2 DEF Base, Typed, OpenFile, history
  <2>3. ListsOK'
    BY <1>2, <2>1 DEF Base, ListsOK, OpenFile, history
  <2>4. PlaceOK'
    BY <1>2 DEF Base, PlaceOK, OpenFile, history, Due
  <2> QED
    BY <2>2, <2>3, <2>4 DEF Base
<1> QED
  BY <1>1, <1>2

\* The scheduler's thread has ended.
LEMMA DeadTyped ==
  /\ Dead \in [pc : Steps, wall : Int, key : Int, todo : Seq(Rec)]
  /\ Dead.todo = <<>> /\ Dead.pc = "dead" /\ Dead.key = -1
<1>1. Dead = [pc |-> "dead", wall |-> -1, key |-> -1, todo |-> <<>>]
  BY DEF Dead, Asleep, NoMinute
<1> QED
  BY <1>1 DEF Steps

LEMMA SaveThrowsBase ==
  ASSUME Base, up, lock # "free", SaveThrows, Good(file', Asked)
  PROVE  Base'
<1>1. Asked' = Asked /\ UNCHANGED <<entries, acked, gone, fired, marks>>
  BY DEF SaveThrows, Asked, history
<1>2. \/ sched' = sched /\ lock # "fire"
      \/ sched' = Dead
  BY DEF SaveThrows
<1>3. sched' \in [pc : Steps, wall : Int, key : Int, todo : Seq(Rec)] /\ Good(sched'.todo, Asked)
  BY <1>2, DeadTyped, GoodEmpty DEF Base, Typed, ListsOK
<1>4. Typed'
  BY <1>3 DEF Base, Typed, SaveThrows, history
<1>5. ListsOK'
  <2>1. Good(entries', Asked') /\ Good(file', Asked') /\ Good(sched'.todo, Asked')
    BY <1>1, <1>3 DEF Base, ListsOK
  <2>2. /\ Asked' \subseteq Job /\ \A j \in Asked' : asked'[j].id = j
        /\ acked' \subseteq Asked' /\ gone' \subseteq Asked'
        /\ \A j \in Job : fired'[j] > 0 => j \in Asked'
        /\ \A m \in marks' : m[1] \in Asked'
    BY <1>1 DEF Base, ListsOK, SaveThrows, history
  <2> QED
    BY <2>1, <2>2 DEF ListsOK
<1>6. PlaceOK'
  BY <1>2, DeadTyped DEF Base, PlaceOK, SaveThrows, Due
<1> QED
  BY <1>4, <1>5, <1>6 DEF Base

\* The three ways a save ends.
LEMMA CloseFileCases ==
  ASSUME Base, CloseFile
  PROVE  /\ up /\ opened /\ lock # "free"
         /\ \E n \in 0..Len(entries) :
              /\ Writes(entries, n)
              /\ \/ file' = SubSeq(entries, 1, n) /\ n = Len(entries) /\ Saved(TRUE)
                 \/ file' = SubSeq(entries, 1, n) /\ n < Len(entries) /\ SaveThrows
                 \/ file' \in Parts(SubSeq(entries, 1, n)) /\ Saved(FALSE)
<1>1. up /\ opened /\ lock # "free"
  BY DEF CloseFile, Base, PlaceOK
<1>2. PICK n \in 0..Len(entries) :
        /\ Writes(entries, n)
        /\ \/ /\ file' = SubSeq(entries, 1, n)
              /\ IF n = Len(entries) THEN Saved(TRUE) ELSE SaveThrows
           \/ file' \in Parts(SubSeq(entries, 1, n)) /\ Saved(FALSE)
  BY DEF CloseFile
<1>3. entries \in Seq(Rec)
  BY DEF Base, ListsOK, Good
<1>4. n = Len(entries) \/ n < Len(entries)
  BY <1>3
<1> QED
  BY <1>1, <1>2, <1>4

LEMMA CloseFileBase ==
  ASSUME Base, CloseFile
  PROVE  Base'
<1>1. PICK n \in 0..Len(entries) :
        \/ file' = SubSeq(entries, 1, n) /\ (Saved(TRUE) \/ SaveThrows)
        \/ file' \in Parts(SubSeq(entries, 1, n)) /\ Saved(FALSE)
  BY CloseFileCases
<1>2. Good(SubSeq(entries, 1, n), Asked)
  BY GoodLists DEF Base, ListsOK
<1>3. up /\ lock # "free" /\ Good(file', Asked)
  BY <1>1, <1>2, GoodLists, CloseFileCases
<1> QED
  BY <1>1, <1>3, SavedBase, SaveThrowsBase

\* The scheduler's steps but the last, and the clock.
LEMMA WakeBase ==
  ASSUME Base, Tick \/ Wake \/ ReadKey \/ LoopEnds
  PROVE  Base'
<1>1. CASE Tick
  BY <1>1 DEF Base, Typed, ListsOK, Asked, PlaceOK, Due, Tick, history
<1>2. CASE Wake
  <2>1. sched' \in [pc : Steps, wall : Int, key : Int, todo : Seq(Rec)]
    <3>1. now \in Int /\ sched \in [pc : Steps, wall : Int, key : Int, todo : Seq(Rec)]
      BY DEF Base, Typed
    <3>2. sched' = [sched EXCEPT !.pc = "key", !.wall = now]
      BY <1>2 DEF Wake
    <3> QED
      BY <3>1, <3>2 DEF Steps
  <2>2. Typed'
    BY <1>2, <2>1 DEF Base, Typed, Wake, schedOnly, history
  <2>3. sched'.todo = sched.todo /\ sched'.pc \in {"key", "snapshot"}
    BY <1>2 DEF Base, Typed, Wake
  <2> QED
    BY <1>2, <2>2, <2>3 DEF Base, ListsOK, Asked, PlaceOK, Due, Wake, schedOnly, history
<1>3. CASE ReadKey
  <2>1. sched' \in [pc : Steps, wall : Int, key : Int, todo : Seq(Rec)]
    <3>1. now \in Int /\ sched \in [pc : Steps, wall : Int, key : Int, todo : Seq(Rec)]
      BY DEF Base, Typed
    <3>2. sched' = [sched EXCEPT !.pc = "snapshot", !.key = now]
      BY <1>3 DEF ReadKey
    <3> QED
      BY <3>1, <3>2 DEF Steps
  <2>2. Typed'
    BY <1>3, <2>1 DEF Base, Typed, ReadKey, schedOnly, history
  <2>3. sched'.todo = sched.todo /\ sched'.pc \in {"key", "snapshot"}
    BY <1>3 DEF Base, Typed, ReadKey
  <2> QED
    BY <1>3, <2>2, <2>3 DEF Base, ListsOK, Asked, PlaceOK, Due, ReadKey, schedOnly, history
<1>4. CASE LoopEnds
  <2>1. Typed' /\ sched'.todo = <<>> /\ sched'.pc = "sleep"
    BY <1>4 DEF Base, Typed, Steps, LoopEnds, Asleep, NoMinute, schedOnly, history
  <2> QED
    BY <1>4, <2>1, GoodEmpty DEF Base, ListsOK, Asked, PlaceOK, Due, LoopEnds, schedOnly, history
<1> QED
  BY <1>1, <1>2, <1>3, <1>4

LEMMA SnapshotBase ==
  ASSUME Base, Snapshot
  PROVE  Base'
<1>1. sched'.todo = entries /\ sched'.pc = "loop" /\ Good(entries, Asked)
  BY DEF Base, Typed, ListsOK, Snapshot
<1>2. sched' \in [pc : Steps, wall : Int, key : Int, todo : Seq(Rec)]
  BY <1>1 DEF Base, Typed, Steps, Snapshot, Good
<1>3. Typed'
  BY <1>2 DEF Base, Typed, Snapshot, schedOnly, history
<1>4. ListsOK'
  BY <1>1 DEF Base, ListsOK, Asked, Snapshot, schedOnly, history
<1>5. PlaceOK'
  BY <1>1 DEF Base, PlaceOK, Snapshot, Free, schedOnly, history
<1> QED
  BY <1>3, <1>4, <1>5 DEF Base

LEMMA CheckBase ==
  ASSUME Base, Check
  PROVE  Base'
<1>1. Good(Tail(sched.todo), Asked)
  BY DueOK DEF Check
<1>2. \/ sched' = [sched EXCEPT !.pc = "record"]
      \/ sched' = [sched EXCEPT !.todo = Tail(@)]
  BY DEF Check
<1>3. /\ sched' \in [pc : Steps, wall : Int, key : Int, todo : Seq(Rec)]
      /\ sched'.todo \in {sched.todo, Tail(sched.todo)}
      /\ \/ sched'.pc = "record" /\ sched'.todo = sched.todo
         \/ sched'.pc = "loop"
  BY <1>1, <1>2 DEF Base, Typed, Steps, Check, Good
<1>4. Typed'
  BY <1>3 DEF Base, Typed, Check, schedOnly, history
<1>5. ListsOK'
  BY <1>1, <1>3 DEF Base, ListsOK, Asked, Check, schedOnly, history
<1>6. PlaceOK'
  BY <1>3 DEF Base, PlaceOK, Check, Free, schedOnly, history
<1> QED
  BY <1>4, <1>5, <1>6 DEF Base

LEMMA RecordBase ==
  ASSUME Base, Record
  PROVE  Base'
<1>1. sched.todo # <<>> /\ Due.id \in Job
  BY DueOK DEF Base, PlaceOK, Record
<1>2. Typed'
  BY <1>1 DEF Base, Typed, Steps, Record, schedOnly, history
<1>3. sched'.todo = sched.todo /\ sched'.pc = "publish"
  BY DEF Base, Typed, Record
<1>4. ListsOK'
  BY <1>3 DEF Base, ListsOK, Asked, Record, schedOnly, history
<1>5. PlaceOK'
  BY <1>1, <1>3 DEF Base, PlaceOK, Record, Free, schedOnly, history
<1> QED
  BY <1>2, <1>4, <1>5 DEF Base

LEMMA PublishBase ==
  ASSUME Base, Publish
  PROVE  Base'
<1>1. sched.todo # <<>> /\ Due.id \in Job /\ Due.id \in Asked /\ Good(Tail(sched.todo), Asked)
  BY DueOK DEF Base, PlaceOK, Publish
<1>2. /\ sched' \in [pc : Steps, wall : Int, key : Int, todo : Seq(Rec)]
      /\ \/ sched'.todo = sched.todo /\ sched'.pc = "count" /\ Due.count > 0
         \/ sched'.todo = Tail(sched.todo) /\ sched'.pc = "loop"
  BY <1>1 DEF Base, Typed, Steps, Publish, Good
<1>3. Typed'
  <2>1. fired' \in [Job -> Nat]
    BY <1>1 DEF Base, Typed, Publish
  <2>2. marks' \subseteq Job \X Int
    BY <1>1 DEF Base, Typed, Publish
  <2> QED
    BY <1>2, <2>1, <2>2 DEF Base, Typed, Publish, schedOnly, history
<1>4. ListsOK'
  <2>1. Asked' = Asked
    BY DEF Publish, Asked
  <2>2. Good(sched'.todo, Asked)
    BY <1>1, <1>2 DEF Base, ListsOK
  <2>3. /\ \A j \in Job : fired'[j] > 0 => j \in Asked
        /\ \A m \in marks' : m[1] \in Asked
    BY <1>1 DEF Base, Typed, ListsOK, Publish
  <2> QED
    BY <2>1, <2>2, <2>3 DEF Base, ListsOK, Publish, schedOnly
<1>5. PlaceOK'
  BY <1>1, <1>2 DEF Base, PlaceOK, Publish, Free, Due, schedOnly
<1> QED
  BY <1>3, <1>4, <1>5 DEF Base

LEMMA PublishThrowsBase ==
  ASSUME Base, PublishThrows
  PROVE  Base'
<1>1. Typed'
  BY DeadTyped DEF Base, Typed, PublishThrows, schedOnly, history
<1>2. ListsOK'
  BY DeadTyped, GoodEmpty DEF Base, ListsOK, Asked, PublishThrows, schedOnly, history
<1>3. PlaceOK'
  BY DeadTyped DEF Base, PlaceOK, PublishThrows, schedOnly, history
<1> QED
  BY <1>1, <1>2, <1>3 DEF Base

LEMMA CountDownBase ==
  ASSUME Base, CountDown
  PROVE  Base'
<1>1. sched.todo # <<>> /\ Due.id \in Job /\ Due.count \in Nat /\ Due.count > 0
  BY DueOK DEF Base, PlaceOK, CountDown
<1>2. Asked' = Asked
  BY DEF CountDown, Asked, history
<1>3. Good(entries', Asked)
  <2>1. Good(entries, Asked)
    BY DEF Base, ListsOK
  <2>2. CASE Due.count = 1
    BY <2>1, <2>2, GoodLists DEF CountDown
  <2>3. CASE Due.count # 1
    <3>1. Due.count - 1 \in Nat /\ entries' = WithCount(entries, Due.id, Due.count - 1)
      BY <1>1, <2>3 DEF CountDown
    <3> QED
      BY <2>1, <3>1, GoodLists
  <2> QED
    BY <2>2, <2>3
<1>4. Typed'
  <2>1. lock' = "fire" /\ UNCHANGED <<now, up, opened, torn, unread, sched, crashes, fails>>
    BY DEF CountDown, history
  <2>2. UNCHANGED <<asked, marks, fired>>
    BY DEF CountDown, history
  <2>3. last' \in [Job -> Int]
    <3>1. last' = last \/ last' = [last EXCEPT ![Due.id] = NoMinute]
      BY DEF CountDown
    <3> QED
      BY <1>1, <3>1 DEF Base, Typed, NoMinute
  <2> QED
    BY <2>1, <2>2, <2>3 DEF Base, Typed
<1>5. ListsOK'
  BY <1>2, <1>3 DEF Base, ListsOK, CountDown, history
<1>6. PlaceOK'
  BY DEF Base, PlaceOK, CountDown, Free, Due, history
<1> QED
  BY <1>4, <1>5, <1>6 DEF Base

\* The process dies and starts.
LEMMA DieBase ==
  ASSUME Base, Die
  PROVE  Base'
<1>1. Typed'
  <2>1. Asleep \in [pc : Steps, wall : Int, key : Int, todo : Seq(Rec)]
    BY DEF Asleep, NoMinute, Steps
  <2>2. Fresh \in [Job -> Int]
    BY DEF Fresh, NoMinute
  <2>3. crashes' \in Nat /\ up' = FALSE /\ opened' = FALSE /\ lock' = "free" /\ torn' \in BOOLEAN
    BY DEF Base, Typed, Die
  <2>4. sched' = Asleep /\ last' = Fresh /\ marks' = {} /\ UNCHANGED <<now, fails, asked, fired, unread>>
    BY DEF Die
  <2> QED
    BY <2>1, <2>2, <2>3, <2>4 DEF Base, Typed
<1>2. ListsOK'
  BY GoodEmpty DEF Base, ListsOK, Asked, Die, Asleep
<1>3. PlaceOK'
  BY DEF Base, Typed, PlaceOK, Die, Asleep
<1> QED
  BY <1>1, <1>2, <1>3 DEF Base

LEMMA LoadCrontabBase ==
  ASSUME Base, LoadCrontab
  PROVE  Base'
<1>1. Good(entries', Asked)
  BY GoodLists, GoodEmpty DEF Base, ListsOK, LoadCrontab
<1>2. Typed'
  BY DEF Base, Typed, LoadCrontab
<1>3. ListsOK'
  BY <1>1 DEF Base, ListsOK, Asked, LoadCrontab
<1>4. PlaceOK'
  BY DEF Base, PlaceOK, LoadCrontab, Due
<1> QED
  BY <1>2, <1>3, <1>4 DEF Base

LEMMA StepBase == Base /\ [CronNext]_cronVars => Base'
<1>1. Base /\ UNCHANGED cronVars => Base'
  BY DEF Base, Typed, ListsOK, Asked, PlaceOK, Due, cronVars, history
<1> QED
  BY <1>1, AddCronBase, RemoveCronBase, OpenFileBase, CloseFileBase, WakeBase, SnapshotBase, CheckBase,
     RecordBase, PublishBase, PublishThrowsBase, CountDownBase, DieBase, LoadCrontabBase DEF CronNext

------------------------------------------------------------------------------
(* What the texts of a job do to the file.                                 *)

\* A job with plain texts keeps them; no line of the file is one that cannot be
\* written; and who was answered with 0 stands before every such job in the list.
ElemsOK == \A e \in Elems(entries) \cup Elems(file) : asked[e.id].text = "plain" => e.text = "plain"
FileOK  == \A e \in Elems(file) : e.text # "surrogate"
OrderOK(list, done) ==
    \A i, k \in DOMAIN list : i <= k /\ list[i].text = "surrogate" => list[k].id \notin done

TextsOK == ElemsOK /\ FileOK /\ OrderOK(entries, acked)

\* Jobs and texts stand in the order they had.
Ordered(new, list) ==
    \A i, k \in DOMAIN new : i <= k =>
        \E a, b \in DOMAIN list :
            a <= b /\ new[i].text = list[a].text /\ new[k].id = list[b].id

LEMMA OrderKept ==
  ASSUME NEW new, NEW list, NEW done, Ordered(new, list), OrderOK(list, done)
  PROVE  OrderOK(new, done)
BY DEF Ordered, OrderOK

LEMMA ElemsEmpty == Elems(<<>>) = {}
BY DEF Elems

LEMMA SubSeqOfEntries ==
  ASSUME Base, NEW n \in 0..Len(entries)
  PROVE  /\ SubSeq(entries, 1, n) \in Seq(Rec)
         /\ Within(SubSeq(entries, 1, n), entries)
         /\ \A i \in DOMAIN entries : i > n \/ entries[i] \in Elems(SubSeq(entries, 1, n))
         /\ \A e \in Elems(SubSeq(entries, 1, n)) : \E i \in 1..n : e = entries[i]
<1>1. entries \in Seq(Rec) /\ 1 \in 1..Len(entries) + 1
  BY DEF Base, ListsOK, Good
<1>2. /\ Len(SubSeq(entries, 1, n)) = n
      /\ \A i \in 1..n : SubSeq(entries, 1, n)[i] = entries[i]
  BY <1>1, SubSeqProperties
<1>3. SubSeq(entries, 1, n) \in Seq(Rec)
  BY <1>1, SubSeqList
<1>4. \A e \in Elems(SubSeq(entries, 1, n)) : \E i \in 1..n : e = entries[i]
  BY <1>2, <1>3 DEF Elems
<1> QED
  BY <1>1, <1>3, <1>4, SubSeqList

LEMMA FrontOrdered ==
  ASSUME NEW list \in Seq(Rec), list # <<>>
  PROVE  Ordered(Front(list), list)
<1> DEFINE n == Len(list) - 1
<1>1. Front(list) = SubSeq(list, 1, n) /\ n \in Nat /\ \A i \in 1..n : i \in DOMAIN list
  BY DEF Front
<1>2. \A i \in 1..n : list[i] \in Rec
  BY <1>1
<1> HIDE DEF n
<1>3. /\ Len(SubSeq(list, 1, n)) = n
      /\ \A i \in 1..n : SubSeq(list, 1, n)[i] = list[i]
  BY <1>1, <1>2, SubSeqProperties
<1>4. \A i \in DOMAIN Front(list) : i \in DOMAIN list /\ Front(list)[i] = list[i]
  BY <1>1, <1>3, FrontList
<1> QED
  BY <1>4 DEF Ordered

LEMMA WithCountOrdered ==
  ASSUME NEW list \in Seq(Rec), NEW j, NEW count \in Nat
  PROVE  Ordered(WithCount(list, j, count), list)
<1>1. DOMAIN WithCount(list, j, count) = DOMAIN list
  BY DEF WithCount
<1>2. ASSUME NEW i \in DOMAIN list
      PROVE  /\ WithCount(list, j, count)[i].id = list[i].id
             /\ WithCount(list, j, count)[i].text = list[i].text
  <2>1. list[i] \in Rec
    OBVIOUS
  <2> QED
    BY <2>1 DEF WithCount, Rec
<1> QED
  BY <1>1, <1>2 DEF Ordered

LEMMA WithoutOrdered ==
  ASSUME NEW list \in Seq(Rec), NEW j
  PROVE  Ordered(Without(list, j), list)
<1>1. CASE ~InList(list, j)
  BY <1>1 DEF Without, Ordered
<1>2. CASE InList(list, j)
  <2> DEFINE new == Without(list, j)
  <2>1. PICK p \in DOMAIN list :
          /\ Len(new) = Len(list) - 1
          /\ \A i \in DOMAIN new : new[i] = IF i < p THEN list[i] ELSE list[i + 1]
    BY <1>2, WithoutAt
  <2>2. new \in Seq(Rec) /\ p \in 1..Len(list) /\ Len(list) \in Nat
    BY WithoutList
  <2> HIDE DEF new
  <2> DEFINE at(i) == IF i < p THEN i ELSE i + 1
  <2>3. \A i \in DOMAIN new : at(i) \in DOMAIN list /\ new[i] = list[at(i)]
    BY <2>1, <2>2
  <2>4. \A i, k \in DOMAIN new : i <= k => at(i) <= at(k)
    BY <2>1, <2>2
  <2> HIDE DEF at
  <2> QED
    BY <2>3, <2>4 DEF Ordered, new
<1> QED
  BY <1>1, <1>2

LEMMA InitTexts == CronInit => TextsOK
BY ElemsEmpty DEF CronInit, TextsOK, ElemsOK, FileOK, OrderOK

\* A step that answers nobody and leaves the list in its order.
LEMMA TextsKept ==
  ASSUME Base, TextsOK, UNCHANGED asked, acked' \subseteq acked, Ordered(entries', entries),
         \A e \in Elems(entries') : \E f \in Elems(entries) : e.id = f.id /\ e.text = f.text,
         \A e \in Elems(file') : \/ e \in Elems(file)
                                \/ /\ \E f \in Elems(entries) : e.id = f.id /\ e.text = f.text
                                   /\ e.text # "surrogate"
  PROVE  TextsOK'
<1>1. ElemsOK' /\ FileOK'
  BY DEF TextsOK, ElemsOK, FileOK
<1>2. OrderOK(entries', acked)
  BY OrderKept DEF TextsOK
<1>3. OrderOK(entries, acked)'
  BY <1>2 DEF OrderOK
<1> QED
  BY <1>1, <1>3 DEF TextsOK

\* What is written has its text from the list, and can be written.
LEMMA WrittenTexts ==
  ASSUME Base, CloseFile
  PROVE  \A e \in Elems(file') : /\ \E f \in Elems(entries) : e.id = f.id /\ e.text = f.text
                                /\ e.text # "surrogate"
<1>1. PICK n \in 0..Len(entries) :
        /\ Writes(entries, n)
        /\ file' = SubSeq(entries, 1, n) \/ file' \in Parts(SubSeq(entries, 1, n))
  BY CloseFileCases
<1>2. \A e \in Elems(SubSeq(entries, 1, n)) : e \in Elems(entries) /\ e.text # "surrogate"
  BY <1>1, SubSeqOfEntries DEF Writes, Within
<1>3. SubSeq(entries, 1, n) \in Seq(Rec)
  BY SubSeqOfEntries
<1>4. CASE file' = SubSeq(entries, 1, n)
  BY <1>2, <1>4
<1>5. CASE file' \in Parts(SubSeq(entries, 1, n))
  <2>1. \A e \in Elems(file') : \E f \in Elems(SubSeq(entries, 1, n)) : e.id = f.id /\ e.text = f.text
    BY <1>3, <1>5, PartsList
  <2> QED
    BY <1>2, <2>1
<1> QED
  BY <1>1, <1>4, <1>5

LEMMA CloseFileTexts ==
  ASSUME Base, TextsOK, CloseFile
  PROVE  TextsOK'
<1>1. PICK n \in 0..Len(entries) :
        /\ Writes(entries, n)
        /\ (n = Len(entries) /\ Saved(TRUE)) \/ SaveThrows \/ Saved(FALSE)
  BY CloseFileCases
<1>2. UNCHANGED asked
  BY <1>1 DEF Saved, SaveThrows, history
<1>3. entries \in Seq(Rec)
  BY DEF Base, ListsOK, Good
<1>4. Ordered(entries, entries)
  BY <1>3 DEF Ordered
<1>5. CASE n = Len(entries) /\ Saved(TRUE)
  <2>1. \A i \in DOMAIN entries : entries[i].text # "surrogate"
    BY <1>1, <1>3, <1>5 DEF Writes
  <2>2. entries' = entries
    BY <1>5 DEF Saved
  <2>3. OrderOK(entries, acked)'
    BY <2>1, <2>2 DEF OrderOK
  <2>4. ElemsOK' /\ FileOK'
    BY <1>2, <2>2, WrittenTexts DEF TextsOK, ElemsOK, FileOK
  <2> QED
    BY <2>3, <2>4 DEF TextsOK
<1>6. CASE SaveThrows
  <2>1. UNCHANGED <<entries, acked>>
    BY <1>6 DEF SaveThrows, history
  <2> QED
    BY <1>2, <1>4, <2>1, WrittenTexts, TextsKept
<1>7. CASE Saved(FALSE)
  <2>1. UNCHANGED acked /\ entries' = IF lock = "add" THEN Front(entries) ELSE entries
    BY <1>7 DEF Saved
  <2>2. lock = "add" => entries # <<>>
    BY DEF Base, PlaceOK
  <2>3. Ordered(entries', entries) /\ Elems(entries') \subseteq Elems(entries)
    BY <1>3, <1>4, <2>1, <2>2, FrontOrdered, FrontList DEF Within
  <2> QED
    BY <1>2, <2>1, <2>3, WrittenTexts, TextsKept
<1> QED
  BY <1>1, <1>5, <1>6, <1>7

LEMMA OpenFileTexts ==
  ASSUME Base, TextsOK, OpenFile
  PROVE  TextsOK'
<1>1. entries \in Seq(Rec)
  BY DEF Base, ListsOK, Good
<1>2. Ordered(entries, entries)
  BY <1>1 DEF Ordered
<1>3. CASE Saved(FALSE) /\ UNCHANGED file
  <2>1. UNCHANGED <<asked, acked>> /\ entries' = IF lock = "add" THEN Front(entries) ELSE entries
    BY <1>3 DEF Saved
  <2>2. lock = "add" => entries # <<>>
    BY DEF Base, PlaceOK
  <2>3. Ordered(entries', entries) /\ Elems(entries') \subseteq Elems(entries)
    BY <1>1, <1>2, <2>1, <2>2, FrontOrdered, FrontList DEF Within
  <2> QED
    BY <1>3, <2>1, <2>3, TextsKept
<1>4. CASE ~(Saved(FALSE) /\ UNCHANGED file)
  <2>1. UNCHANGED <<entries, asked, acked>> /\ file' = <<>>
    BY <1>4 DEF OpenFile, history
  <2> QED
    BY <1>2, <2>1, ElemsEmpty, TextsKept
<1> QED
  BY <1>3, <1>4

LEMMA AddCronTexts ==
  ASSUME Base, TextsOK, NEW e \in JobEntry, AddCron(e)
  PROVE  TextsOK'
<1>1. e \in Rec /\ e.id = Len(asked) + 1 /\ asked \in Seq(Rec) /\ entries \in Seq(Rec)
  BY EntryIsRec DEF AddCron, Rec, Base, Typed, ListsOK, Good
<1>2. /\ asked' = Append(asked, e) /\ entries' = Append(entries, e) /\ UNCHANGED <<file, acked>>
  BY DEF AddCron
<1>3. Asked = 1..Len(asked) /\ e.id \notin Asked /\ acked \subseteq Asked
  BY <1>1 DEF Asked, Base, ListsOK
<1>4. asked'[e.id] = e /\ \A j \in Asked : asked'[j] = asked[j]
  BY <1>1, <1>2, <1>3, AppendProperties DEF Asked
<1>5. \A f \in Elems(entries) \cup Elems(file) : f.id \in Asked
  BY InElems DEF Base, ListsOK, Good
<1>6. Elems(entries') = Elems(entries) \cup {e}
  BY <1>1, <1>2, AppendList
<1>7. ElemsOK'
  BY <1>1, <1>2, <1>4, <1>5, <1>6 DEF TextsOK, ElemsOK
<1>8. OrderOK(entries, acked)'
  <2>1. /\ DOMAIN entries' = 1..Len(entries) + 1 /\ DOMAIN entries = 1..Len(entries)
        /\ Len(entries) \in Nat
        /\ \A i \in 1..Len(entries) : entries'[i] = entries[i]
        /\ entries'[Len(entries) + 1] = e
    BY <1>1, <1>2, AppendProperties
  <2> SUFFICES ASSUME NEW i \in DOMAIN entries', NEW k \in DOMAIN entries', i <= k,
                      entries'[i].text = "surrogate"
               PROVE  entries'[k].id \notin acked
    BY <1>2 DEF OrderOK
  <2>2. CASE k = Len(entries) + 1
    BY <1>3, <2>1, <2>2
  <2>3. CASE k # Len(entries) + 1
    <3>1. i \in DOMAIN entries /\ k \in DOMAIN entries
      BY <2>1, <2>3
    <3> QED
      BY <2>1, <3>1 DEF TextsOK, OrderOK
  <2> QED
    BY <2>2, <2>3
<1> QED
  BY <1>2, <1>7, <1>8 DEF TextsOK, FileOK

LEMMA RemovalTexts ==
  ASSUME Base, TextsOK, CountDown \/ \E j \in Job : RemoveCron(j)
  PROVE  TextsOK'
<1>1. entries \in Seq(Rec)
  BY DEF Base, ListsOK, Good
<1>2. UNCHANGED <<asked, acked, file>>
  BY DEF CountDown, RemoveCron, history
<1>3. ASSUME NEW j, entries' = Without(entries, j) PROVE TextsOK'
  BY <1>1, <1>2, <1>3, WithoutOrdered, WithoutList, TextsKept DEF Within
<1>4. ASSUME NEW j, NEW count \in Nat, entries' = WithCount(entries, j, count) PROVE TextsOK'
  <2>1. \A e \in Elems(entries') : \E f \in Elems(entries) : e.id = f.id /\ e.text = f.text
    <3>1. ASSUME NEW f \in Elems(entries)
          PROVE  [f EXCEPT !.count = count].id = f.id /\ [f EXCEPT !.count = count].text = f.text
      BY <1>1, InElems DEF Rec
    <3>2. ASSUME NEW e \in Elems(entries')
          PROVE  e \in Elems(entries) \/ \E f \in Elems(entries) : e = [f EXCEPT !.count = count]
      BY <1>1, <1>4, WithCountList
    <3> QED
      BY <3>1, <3>2
  <2> QED
    BY <1>1, <1>2, <1>4, <2>1, WithCountOrdered, TextsKept
<1>5. CASE CountDown
  <2>1. Due.count \in Nat /\ Due.count > 0
    BY <1>5, DueOK DEF CountDown, Base, PlaceOK
  <2> QED
    BY <1>3, <1>4, <1>5, <2>1 DEF CountDown
<1> QED
  BY <1>3, <1>5 DEF RemoveCron

LEMMA LoadCrontabTexts ==
  ASSUME Base, TextsOK, LoadCrontab
  PROVE  TextsOK'
<1>1. UNCHANGED <<asked, acked, file>>
  BY DEF LoadCrontab
<1>2. CASE entries' \in ReadBack(file)
  <2>1. file \in Seq(Rec) /\ \A f \in Elems(file) : f \in Rec
    BY InElems DEF Base, ListsOK, Good
  <2>2. /\ entries' \in Seq(Rec)
        /\ \A e \in Elems(entries') : \E f \in Elems(file) : e \in ReadAs(f)
    BY <1>2, <2>1, ReadBackList
  <2>3. ASSUME NEW e \in Elems(entries')
        PROVE  /\ asked[e.id].text = "plain" => e.text = "plain"
               /\ e.text # "surrogate"
    <3>1. PICK f \in Elems(file) : e \in ReadAs(f)
      BY <2>2
    <3> QED
      BY <2>1, <3>1, ReadAsRec DEF TextsOK, ElemsOK, FileOK
  <2>4. OrderOK(entries, acked)'
    BY <2>3 DEF OrderOK, Elems
  <2> QED
    BY <1>1, <2>3, <2>4 DEF TextsOK, ElemsOK, FileOK
<1>3. CASE entries' = <<>>
  BY <1>1, <1>3, ElemsEmpty DEF TextsOK, ElemsOK, FileOK, OrderOK
<1> QED
  BY <1>2, <1>3 DEF LoadCrontab

LEMMA StepTexts == Base /\ TextsOK /\ [CronNext]_cronVars => TextsOK'
<1> SUFFICES ASSUME Base, TextsOK, [CronNext]_cronVars PROVE TextsOK'
  OBVIOUS
<1>1. CASE \/ Tick \/ Wake \/ ReadKey \/ Snapshot \/ LoopEnds \/ Check \/ Record
           \/ Publish \/ PublishThrows \/ UNCHANGED cronVars
  <2>1. UNCHANGED <<entries, file, asked, acked>>
    BY <1>1 DEF Tick, Wake, ReadKey, Snapshot, LoopEnds, Check, Record, Publish, PublishThrows,
       schedOnly, cronVars, history
  <2> QED
    BY <2>1 DEF TextsOK, ElemsOK, FileOK, OrderOK
<1>2. CASE Die
  <2>1. entries' = <<>> /\ UNCHANGED <<file, asked, acked>>
    BY <1>2 DEF Die
  <2> QED
    BY <2>1, ElemsEmpty DEF TextsOK, ElemsOK, FileOK, OrderOK
<1> QED
  BY <1>1, <1>2, AddCronTexts, RemovalTexts, OpenFileTexts, CloseFileTexts, LoadCrontabTexts DEF CronNext

------------------------------------------------------------------------------
(* How often a job fires.                                                  *)

\* A firing that has not been counted yet.
Pending(j) == IF sched.pc = "count" /\ Due.id = j THEN 1 ELSE 0

Bounded(j) == asked[j].count > 0 /\ asked[j].text # "bar"

\* What has fired and what is left to fire do not exceed what was asked; a crash
\* may have brought one back.
Rest(e, pending) ==
    Bounded(e.id) =>
      /\ e.text # "bar" /\ e.count > 0
      /\ fired[e.id] + e.count <= asked[e.id].count + crashes + pending

RestOK(list) == \A e \in Elems(list) : Rest(e, Pending(e.id))

BoundOK ==
    fails = 0 =>
      /\ \A j \in Asked : Bounded(j) => fired[j] <= asked[j].count + crashes
      /\ RestOK(entries) /\ RestOK(file) /\ RestOK(sched.todo)
      /\ lock = "fire" => \A e \in Elems(entries) : Rest(e, 0)

\* And they are not less, before a crash; nor after it if no save has failed and the
\* texts are plain.
Exact(e) == fails = 0 /\ (crashes = 0 \/ asked[e.id].text = "plain")

Enough(e, pending) ==
    /\ e.count <= asked[e.id].count
    /\ e.count = 0 \/ fired[e.id] + e.count >= asked[e.id].count + pending

EnoughOK ==
    /\ \A e \in Elems(entries) : crashes = 0 \/ Exact(e) => Enough(e, 0)
    /\ \A e \in Elems(sched.todo) : crashes = 0 \/ Exact(e) => Enough(e, Pending(e.id))
    /\ \A e \in Elems(file) : Exact(e) => Enough(e, 0)

CountOK == BoundOK /\ EnoughOK

LEMMA InitCount == CronInit => CountOK
BY ElemsEmpty DEF CronInit, CountOK, BoundOK, EnoughOK, RestOK, Asked, Asleep

\* A step that counts nothing and puts nothing new in a list.
Quiet ==
    /\ UNCHANGED <<asked, crashes, fired, fails>>
    /\ \A j : Pending(j)' = Pending(j)
    /\ Elems(entries') \subseteq Elems(entries)
    /\ Elems(file') \subseteq Elems(file) \cup Elems(entries)
    /\ \/ Elems(sched'.todo) \subseteq Elems(sched.todo)
       \/ Elems(sched'.todo) \subseteq Elems(entries) /\ sched.pc # "count"
    /\ lock' = "fire" => lock = "fire"

LEMMA QuietCount ==
  ASSUME CountOK, Quiet
  PROVE  CountOK'
<1>1. BoundOK'
  BY DEF CountOK, BoundOK, RestOK, Quiet, Rest, Bounded, Asked
<1>2. EnoughOK'
  <2>1. sched.pc # "count" => \A j : Pending(j) = 0
    BY DEF Pending
  <2> QED
    BY <2>1 DEF CountOK, EnoughOK, Quiet, Enough, Exact
<1> QED
  BY <1>1, <1>2 DEF CountOK

\* The steps that are quiet.
LEMMA QuietSteps ==
  ASSUME Base,
         \/ Tick \/ (\E j \in Job : RemoveCron(j))
         \/ OpenFile /\ ~Saved(FALSE)
         \/ Elems(file') \subseteq Elems(entries) /\ Saved(TRUE) /\ lock # "fire"
         \/ Wake \/ ReadKey \/ Snapshot \/ LoopEnds \/ Check \/ Record \/ PublishThrows
         \/ UNCHANGED cronVars
  PROVE  Quiet
<1>0. Good(entries, Asked) /\ entries \in Seq(Rec) /\ Good(sched.todo, Asked) /\ sched.todo \in Seq(Rec)
  BY DEF Base, ListsOK, Good
<1>1. CASE Tick \/ UNCHANGED cronVars
  BY <1>1 DEF Quiet, Pending, Due, Tick, cronVars, history
<1>2. ASSUME NEW j \in Job, RemoveCron(j) PROVE Quiet
  <2>1. Elems(entries') \subseteq Elems(entries)
    BY <1>0, <1>2, WithoutList DEF RemoveCron, Within
  <2> QED
    BY <1>2, <2>1 DEF Quiet, Pending, Due, RemoveCron
<1>3. CASE OpenFile /\ ~Saved(FALSE)
  BY <1>3, ElemsEmpty DEF Quiet, Pending, Due, OpenFile, history
<1>4. CASE Elems(file') \subseteq Elems(entries) /\ Saved(TRUE) /\ lock # "fire"
  BY <1>4 DEF Quiet, Pending, Due, Saved
<1>5. CASE Wake \/ ReadKey
  <2>1. sched'.todo = sched.todo /\ sched'.pc # "count" /\ sched.pc # "count"
    BY <1>5 DEF Wake, ReadKey, Base, Typed
  <2> QED
    BY <1>5, <2>1 DEF Quiet, Pending, Wake, ReadKey, schedOnly, history
<1>6. CASE Snapshot
  <2>1. sched'.todo = entries /\ sched'.pc # "count" /\ sched.pc # "count"
    BY <1>6 DEF Snapshot, Base, Typed
  <2> QED
    BY <1>6, <2>1 DEF Quiet, Pending, Snapshot, schedOnly, history
<1>7. CASE LoopEnds
  <2>1. sched'.todo = sched.todo /\ sched'.pc # "count" /\ sched.pc # "count"
    BY <1>7 DEF LoopEnds, Asleep
  <2> QED
    BY <1>7, <2>1 DEF Quiet, Pending, LoopEnds, schedOnly, history
<1>8. CASE Check
  <2>1. Elems(Tail(sched.todo)) \subseteq Elems(sched.todo)
    BY <1>8, DueOK DEF Check
  <2>2. /\ sched'.todo \in {sched.todo, Tail(sched.todo)}
        /\ sched'.pc # "count" /\ sched.pc # "count"
    BY <1>8 DEF Check, Base, Typed
  <2> QED
    BY <1>8, <2>1, <2>2 DEF Quiet, Pending, Check, schedOnly, history
<1>9. CASE Record
  <2>1. sched'.todo = sched.todo /\ sched'.pc # "count" /\ sched.pc # "count"
    BY <1>9 DEF Record, Base, Typed
  <2> QED
    BY <1>9, <2>1 DEF Quiet, Pending, Record, schedOnly, history
<1>10. CASE PublishThrows
  <2>1. sched'.todo = <<>> /\ sched'.pc # "count" /\ sched.pc # "count"
    BY <1>10, DeadTyped DEF PublishThrows
  <2> QED
    BY <1>10, <2>1, ElemsEmpty DEF Quiet, Pending, PublishThrows, schedOnly, history
<1> QED
  BY <1>1, <1>2, <1>3, <1>4, <1>5, <1>6, <1>7, <1>8, <1>9, <1>10

LEMMA Numbers ==
  ASSUME Base
  PROVE  /\ crashes \in Nat /\ fails \in Nat
         /\ \A j \in Asked : /\ asked[j] \in Rec /\ asked[j].count \in Nat
                              /\ j \in Job /\ fired[j] \in Nat
         /\ \A e \in Elems(entries) \cup Elems(file) \cup Elems(sched.todo) :
              e \in Rec /\ e.id \in Asked /\ e.id \in Job /\ e.count \in Nat
<1>1. /\ crashes \in Nat /\ fails \in Nat /\ asked \in Seq(Rec) /\ fired \in [Job -> Nat]
      /\ Asked \subseteq Job
  BY DEF Base, Typed, ListsOK
<1>2. \A j \in Asked : asked[j] \in Rec /\ j \in Job /\ fired[j] \in Nat
  BY <1>1 DEF Asked
<1>3. \A e \in Elems(entries) \cup Elems(file) \cup Elems(sched.todo) : e \in Rec /\ e.id \in Asked
  BY InElems DEF Base, ListsOK, Good
<1> QED
  BY <1>1, <1>2, <1>3 DEF Rec

LEMMA AddCronCount ==
  ASSUME Base, CountOK, NEW e \in JobEntry, AddCron(e)
  PROVE  CountOK'
<1>1. e \in Rec /\ e.id = Len(asked) + 1 /\ e.id \in Job /\ e.count \in Nat
  BY EntryIsRec DEF AddCron, Rec, JobEntry
<1>2. asked \in Seq(Rec) /\ Asked = 1..Len(asked)
  BY DEF Base, Typed, Asked
<1>3. asked' = Append(asked, e) /\ e.id \notin Asked
  BY <1>1, <1>2 DEF AddCron
<1>4. asked'[e.id] = e /\ Asked' = Asked \cup {e.id} /\ \A j \in Asked : asked'[j] = asked[j]
  BY <1>1, <1>2, <1>3, AppendProperties DEF Asked
<1>5. Elems(entries') = Elems(entries) \cup {e}
  BY <1>1, AppendList DEF AddCron, Base, ListsOK, Good
<1>6. \A f \in Elems(entries) \cup Elems(file) \cup Elems(sched.todo) : f.id \in Asked
  BY InElems DEF Base, ListsOK, Good
<1>7. fired[e.id] = 0
  BY <1>1, <1>3 DEF Base, Typed, ListsOK
<1>8. \A j : Pending(j)' = Pending(j) /\ Pending(j) \in {0, 1}
  BY DEF AddCron, Pending, Due
<1>9. \A f \in Elems(entries) \cup Elems(file) \cup Elems(sched.todo), x \in {0, 1} :
        /\ Rest(f, x)' <=> Rest(f, x)
        /\ Enough(f, x)' <=> Enough(f, x)
        /\ Exact(f)' <=> Exact(f)
  BY <1>4, <1>6 DEF AddCron, Rest, Bounded, Enough, Exact
<1>10. (\A x \in {0, 1} : Rest(e, x)') /\ Enough(e, 0)'
  BY <1>1, <1>4, <1>7 DEF AddCron, Rest, Bounded, Enough, Base, Typed
<1>11. BoundOK'
  <2>2. fails = 0 => \A j \in Asked' : Bounded(j)' => fired[j] <= asked'[j].count + crashes
    <3>1. fails = 0 => \A j \in Asked : Bounded(j)' => fired[j] <= asked'[j].count + crashes
      BY <1>4 DEF CountOK, BoundOK, Bounded
    <3>2. fired[e.id] <= asked'[e.id].count + crashes
      BY <1>1, <1>4, <1>7 DEF Base, Typed
    <3> QED
      BY <1>4, <3>1, <3>2
  <2>3. fails = 0 => RestOK(entries)' /\ RestOK(file)' /\ RestOK(sched.todo)'
    BY <1>5, <1>8, <1>9, <1>10 DEF CountOK, BoundOK, RestOK, AddCron
  <2> QED
    BY <2>2, <2>3 DEF BoundOK, AddCron
<1>12. EnoughOK'
  BY <1>5, <1>8, <1>9, <1>10 DEF CountOK, EnoughOK, AddCron
<1> QED
  BY <1>11, <1>12 DEF CountOK

\* After a save of the scheduler no firing waits to be counted.
LEMMA SavedTodo ==
  ASSUME Base, NEW ok \in BOOLEAN, Saved(ok)
  PROVE  /\ \A e \in Elems(sched'.todo) : e \in Elems(sched.todo) /\ Pending(e.id)' = Pending(e.id)
         /\ lock = "fire" => \A j : Pending(j)' = 0
         /\ lock # "fire" => \A j : Pending(j)' = Pending(j)
<1>1. CASE lock = "fire"
  <2>1. sched.pc = "count" /\ sched.todo # <<>> /\ sched.todo \in Seq(Rec)
    BY <1>1 DEF Base, PlaceOK, ListsOK, Good
  <2>2. sched'.pc = "loop" /\ sched'.todo = Tail(sched.todo)
    BY <1>1 DEF Base, Typed, Saved
  <2>3. /\ Elems(Tail(sched.todo)) \subseteq Elems(sched.todo)
        /\ \A e \in Elems(Tail(sched.todo)) : e.id # Due.id
    BY <2>1, DueOK, InElems DEF Good
  <2> QED
    BY <1>1, <2>1, <2>2, <2>3 DEF Pending
<1>2. CASE lock # "fire"
  BY <1>2 DEF Saved, Pending, Due
<1> QED
  BY <1>1, <1>2

LEMMA FailedSaveCount ==
  ASSUME Base, CountOK, lock # "free", Saved(FALSE)
  PROVE  CountOK'
<1>1. fails' # 0
  BY DEF Saved, Base, Typed
<1>2. Elems(entries') \subseteq Elems(entries)
  BY FrontList DEF Saved, Base, ListsOK, PlaceOK, Good, Within
<1>3. EnoughOK'
  BY <1>1, <1>2, SavedTodo DEF CountOK, EnoughOK, Enough, Exact, Saved
<1> QED
  BY <1>1, <1>3 DEF CountOK, BoundOK

LEMMA FiredSaveCount ==
  ASSUME Base, CountOK, lock = "fire", Saved(TRUE), Elems(file') \subseteq Elems(entries)
  PROVE  CountOK'
<1>1. UNCHANGED <<entries, fails, crashes, asked, fired>> /\ lock' = "free"
  BY DEF Saved
<1>2. BoundOK'
  BY <1>1, SavedTodo DEF CountOK, BoundOK, RestOK, Rest, Bounded, Asked
<1>3. EnoughOK'
  BY <1>1, SavedTodo DEF CountOK, EnoughOK, Enough, Exact
<1> QED
  BY <1>2, <1>3 DEF CountOK

\* A save that throws counts nothing, and may end the scheduler.
LEMMA SaveThrowsCount ==
  ASSUME Base, CountOK, SaveThrows, Elems(file') \subseteq Elems(entries)
  PROVE  CountOK'
<1>1. UNCHANGED <<entries, fails, crashes, asked, fired>> /\ lock' = "free"
  BY DEF SaveThrows, history
<1>2. CASE lock = "fire"
  <2>1. sched' = Dead
    BY <1>2 DEF SaveThrows
  <2>2. Elems(sched'.todo) = {} /\ \A j : Pending(j)' = 0
    BY <2>1, DeadTyped, ElemsEmpty DEF Pending
  <2>3. BoundOK'
    BY <1>1, <1>2, <2>2 DEF CountOK, BoundOK, RestOK, Rest, Bounded, Asked
  <2>4. EnoughOK'
    BY <1>1, <2>2 DEF CountOK, EnoughOK, Enough, Exact
  <2> QED
    BY <2>3, <2>4 DEF CountOK
<1>3. CASE lock # "fire"
  <2>1. UNCHANGED sched
    BY <1>3 DEF SaveThrows
  <2> QED
    BY <1>1, <2>1, QuietCount DEF Quiet, Pending, Due
<1> QED
  BY <1>2, <1>3

LEMMA PublishCount ==
  ASSUME Base, CountOK, Publish
  PROVE  CountOK'
<1>1. /\ sched.todo # <<>> /\ Due \in Elems(sched.todo) /\ Due.id \in Job /\ Due.id \in Asked
      /\ Due.count \in Nat
      /\ Elems(Tail(sched.todo)) \subseteq Elems(sched.todo)
  BY DueOK DEF Base, PlaceOK, Publish
<1>2. /\ fired' = [fired EXCEPT ![Due.id] = @ + 1]
      /\ UNCHANGED <<entries, file, lock, asked, crashes, fails>>
  BY DEF Publish, schedOnly
<1>3. \A j : Pending(j) = 0
  BY DEF Publish, Pending
<1>4. \/ /\ Due.count > 0 /\ sched'.todo = sched.todo
         /\ \A j : Pending(j)' = IF j = Due.id THEN 1 ELSE 0
      \/ /\ Due.count = 0 /\ sched'.todo = Tail(sched.todo)
         /\ \A j : Pending(j)' = 0
  <2>1. CASE Due.count > 0
    <3>1. sched'.todo = sched.todo /\ sched'.pc = "count"
      BY <2>1 DEF Publish, Base, Typed
    <3> QED
      BY <2>1, <3>1 DEF Pending, Due
  <2>2. CASE ~(Due.count > 0)
    <3>1. sched'.todo = Tail(sched.todo) /\ sched'.pc = "loop"
      BY <2>2 DEF Publish, Base, Typed
    <3> QED
      BY <1>1, <2>2, <3>1 DEF Pending
  <2> QED
    BY <2>1, <2>2
<1>5. \A e \in Elems(entries) \cup Elems(file) \cup Elems(sched.todo) :
        e.id \in Job /\ e.id \in Asked /\ e.count \in Nat
  BY Numbers
<1>6. /\ \A j \in Asked : asked[j].count \in Nat /\ fired[j] \in Nat /\ j \in Job
      /\ crashes \in Nat
      /\ fired'[Due.id] = fired[Due.id] + 1
      /\ \A j \in Job : j # Due.id => fired'[j] = fired[j]
  <2>1. fired \in [Job -> Nat]
    BY DEF Base, Typed
  <2> QED
    BY <1>1, <1>2, <2>1, Numbers
<1>7. fails = 0 /\ Bounded(Due.id) => Due.count > 0 /\ fired[Due.id] + 1 <= asked[Due.id].count + crashes
  <2>1. fails = 0 => Rest(Due, 0)
    BY <1>1, <1>3 DEF CountOK, BoundOK, RestOK
  <2> QED
    BY <1>1, <1>6, <2>1 DEF Rest
<1>8. BoundOK'
  <2>1. fails = 0 => \A j \in Asked : Bounded(j) => fired'[j] <= asked[j].count + crashes
    BY <1>1, <1>2, <1>6, <1>7 DEF CountOK, BoundOK, Base, Typed
  <2>2. ASSUME fails = 0, NEW e \in Elems(entries) \cup Elems(file) \cup Elems(sched.todo)
        PROVE  Rest(e, Pending(e.id))'
    <3>1. Rest(e, 0)
      BY <1>3, <2>2 DEF CountOK, BoundOK, RestOK
    <3>2. CASE e.id = Due.id
      <4>1. Bounded(Due.id) => Pending(e.id)' = 1
        BY <1>4, <1>7, <2>2, <3>2
      <4> QED
        BY <1>1, <1>2, <1>5, <1>6, <3>1, <3>2, <4>1 DEF Rest, Bounded
    <3>3. CASE e.id # Due.id
      <4>1. Pending(e.id)' = 0
        BY <1>4, <3>3
      <4> QED
        BY <1>1, <1>2, <1>5, <1>6, <3>1, <3>3, <4>1 DEF Rest, Bounded
    <3> QED
      BY <3>2, <3>3
  <2>3. lock' # "fire"
    BY <1>2 DEF Base, PlaceOK, Publish
  <2> QED
    BY <1>1, <1>2, <1>4, <2>1, <2>2, <2>3 DEF BoundOK, RestOK, Asked, Bounded
<1>9. EnoughOK'
  <2>1. ASSUME NEW e \in Elems(entries) \cup Elems(file) \cup Elems(sched.todo), Enough(e, 0)
        PROVE  Enough(e, 0)' /\ (Due.count > 0 \/ e.id # Due.id => Enough(e, Pending(e.id))')
    <3>1. fired'[e.id] = IF e.id = Due.id THEN fired[e.id] + 1 ELSE fired[e.id]
      BY <1>5, <1>6
    <3>2. Pending(e.id)' \in {0, 1} /\ (e.id # Due.id => Pending(e.id)' = 0)
      BY <1>4
    <3> QED
      BY <1>2, <1>5, <1>6, <2>1, <3>1, <3>2 DEF Enough
  <2>3. \A e : Exact(e)' <=> Exact(e)
    BY <1>2 DEF Exact
  <2>2. ASSUME NEW e \in Elems(sched'.todo) PROVE e \in Elems(sched.todo) /\ (Due.count > 0 \/ e.id # Due.id)
    BY <2>2, <1>1, <1>4, DueOK, InElems DEF Base, ListsOK, Good
  <2> QED
    BY <1>2, <1>3, <2>1, <2>2, <2>3 DEF CountOK, EnoughOK
<1> QED
  BY <1>8, <1>9 DEF CountOK

LEMMA CountDownCount ==
  ASSUME Base, CountOK, CountDown
  PROVE  CountOK'
<1>1. /\ Due \in Elems(sched.todo) /\ Due.id \in Asked /\ Due.count \in Nat /\ Due.count > 0
  BY DueOK DEF Base, PlaceOK, CountDown
<1>2. UNCHANGED <<file, sched, asked, crashes, fails, fired>>
  BY DEF CountDown, history
<1>3. /\ \A j : Pending(j) = IF j = Due.id THEN 1 ELSE 0
      /\ \A j : Pending(j)' = Pending(j)
  BY <1>2 DEF CountDown, Pending, Due
<1>4. /\ entries \in Seq(Rec) /\ Distinct(entries)
      /\ \A e \in Elems(entries) : e \in Rec /\ e.id \in Asked /\ e.count \in Nat
  BY Numbers DEF Base, ListsOK, Good
<1>5. ASSUME NEW e \in Elems(entries')
      PROVE  \/ e \in Elems(entries) /\ e.id # Due.id
             \/ /\ Due.count > 1
                /\ e.id = Due.id /\ e.count = Due.count - 1
                /\ \E f \in Elems(entries) : f.id = e.id /\ f.text = e.text
  <2>1. CASE Due.count = 1
    <3>1. entries' = Without(entries, Due.id)
      BY <2>1 DEF CountDown
    <3>2. entries' \in Seq(Rec) /\ Elems(entries') \subseteq Elems(entries) /\ ~InList(entries', Due.id)
      BY <1>4, <3>1, WithoutList DEF Within
    <3> QED
      BY <1>5, <3>2, InElems
  <2>2. CASE Due.count # 1
    <3>1. Due.count - 1 \in Nat /\ entries' = WithCount(entries, Due.id, Due.count - 1)
      BY <1>1, <2>2 DEF CountDown
    <3>2. \/ e \in Elems(entries) /\ e.id # Due.id
          \/ /\ e.id = Due.id
             /\ \E f \in Elems(entries) : e = [f EXCEPT !.count = Due.count - 1]
      BY <1>4, <1>5, <3>1, WithCountList
    <3> QED
      BY <1>1, <1>4, <2>2, <3>2 DEF Rec
  <2> QED
    BY <2>1, <2>2
<1>6. /\ crashes \in Nat
      /\ \A j \in Asked : asked[j].count \in Nat /\ fired[j] \in Nat
  BY Numbers
<1>7. BoundOK'
  <2>1. ASSUME fails = 0, NEW e \in Elems(entries') PROVE Rest(e, 0)'
    <3>1. Rest(Due, 1)
      BY <1>1, <1>3, <2>1 DEF CountOK, BoundOK, RestOK
    <3>2. \A f \in Elems(entries) : Rest(f, Pending(f.id))
      BY <2>1 DEF CountOK, BoundOK, RestOK
    <3>3. CASE e \in Elems(entries) /\ e.id # Due.id
      BY <1>2, <1>3, <3>2, <3>3 DEF Rest, Bounded
    <3>4. CASE ~(e \in Elems(entries) /\ e.id # Due.id)
      <4>1. PICK f \in Elems(entries) : f.id = e.id /\ f.text = e.text
        BY <1>5, <2>1, <3>4
      <4>2. e.id = Due.id /\ e.count = Due.count - 1 /\ Due.count > 1
        BY <1>5, <2>1, <3>4
      <4>3. Bounded(e.id) => e.text # "bar"
        BY <3>2, <4>1 DEF Rest
      <4> QED
        BY <1>1, <1>2, <1>6, <3>1, <4>2, <4>3 DEF Rest, Bounded
    <3> QED
      BY <3>3, <3>4
  <2>2. fails = 0 => \A e \in Elems(entries') : Rest(e, Pending(e.id))'
    <3>1. ASSUME NEW e \in Elems(entries'), Rest(e, 0)' PROVE Rest(e, Pending(e.id))'
      <4>1. e.id \in Asked /\ e.count \in Nat
        BY <1>1, <1>4, <1>5
      <4>2. Pending(e.id)' \in {0, 1}
        BY <1>3
      <4> QED
        BY <1>2, <1>6, <3>1, <4>1, <4>2 DEF Rest, Bounded
    <3> QED
      BY <2>1, <3>1
  <2>3. fails = 0 => /\ \A j \in Asked' : Bounded(j)' => fired'[j] <= asked'[j].count + crashes'
                     /\ RestOK(file)' /\ RestOK(sched.todo)'
    BY <1>2, <1>3 DEF CountOK, BoundOK, RestOK, Rest, Bounded, Asked
  <2> QED
    BY <1>2, <2>1, <2>2, <2>3 DEF BoundOK, RestOK
<1>8. EnoughOK'
  <2>1. ASSUME NEW e \in Elems(entries'), crashes = 0 \/ Exact(e) PROVE Enough(e, 0)'
    <3>1. e.id = Due.id => Enough(Due, 1)
      <4>1. e.id = Due.id => (crashes = 0 \/ Exact(Due))
        BY <2>1 DEF Exact
      <4> QED
        BY <1>1, <1>3, <4>1 DEF CountOK, EnoughOK
    <3>2. e \in Elems(entries) => Enough(e, 0)
      BY <2>1 DEF CountOK, EnoughOK
    <3> QED
      BY <1>1, <1>2, <1>5, <1>6, <2>1, <3>1, <3>2 DEF Enough
  <2>2. ASSUME NEW e \in Elems(sched'.todo), crashes = 0 \/ Exact(e) PROVE Enough(e, Pending(e.id))'
    BY <1>2, <1>3, <2>2 DEF CountOK, EnoughOK, Enough
  <2>3. ASSUME NEW e \in Elems(file'), Exact(e) PROVE Enough(e, 0)'
    BY <1>2, <2>3 DEF CountOK, EnoughOK, Enough
  <2> QED
    BY <1>2, <2>1, <2>2, <2>3 DEF EnoughOK, Exact
<1> QED
  BY <1>7, <1>8 DEF CountOK

\* A firing that was not saved may happen once more: the crash pays for it.
LEMMA DieCount ==
  ASSUME Base, CountOK, Die
  PROVE  CountOK'
<1>1. /\ crashes' = crashes + 1 /\ Elems(entries') = {} /\ Elems(sched'.todo) = {}
      /\ UNCHANGED <<file, fails, asked, fired>> /\ lock' = "free"
  BY ElemsEmpty DEF Die, Asleep
<1>2. \A j : Pending(j)' = 0 /\ Pending(j) \in {0, 1}
  BY DEF Die, Asleep, Pending
<1>3. \A e \in Elems(file) : Rest(e, Pending(e.id)) => Rest(e, 0)'
  BY <1>1, <1>2, Numbers DEF Rest, Bounded
<1>4. \A j \in Asked : fired[j] <= asked[j].count + crashes => fired[j] <= asked[j].count + crashes'
  BY <1>1, Numbers
<1>5. BoundOK'
  <2>1. fails = 0 => \A j \in Asked : Bounded(j) => fired[j] <= asked[j].count + crashes'
    BY <1>4 DEF CountOK, BoundOK
  <2>2. fails = 0 => \A e \in Elems(file) : Rest(e, 0)'
    BY <1>3 DEF CountOK, BoundOK, RestOK
  <2>3. RestOK(entries)' /\ RestOK(sched.todo)' /\ (fails = 0 => RestOK(file)')
    BY <1>1, <1>2, <2>2 DEF RestOK, Rest, Bounded
  <2> QED
    BY <1>1, <2>1, <2>3 DEF BoundOK, Bounded, Asked
<1>6. EnoughOK'
  <2>1. crashes' # 0 /\ \A e : Exact(e)' => Exact(e)
    BY <1>1, Numbers DEF Exact
  <2> QED
    BY <1>1, <2>1 DEF CountOK, EnoughOK, Enough
<1> QED
  BY <1>5, <1>6 DEF CountOK

LEMMA LoadCrontabCount ==
  ASSUME Base, TextsOK, CountOK, LoadCrontab
  PROVE  CountOK'
<1>1. UNCHANGED <<file, sched, asked, crashes, fails, fired, lock>>
  BY DEF LoadCrontab
<1>2. sched = Asleep /\ crashes # 0 /\ lock = "free"
  BY DEF LoadCrontab, Base, PlaceOK
<1>3. \A j : Pending(j) = 0 /\ Pending(j)' = 0
  BY <1>1, <1>2 DEF Pending, Asleep
<1>4. ASSUME NEW e \in Elems(entries')
      PROVE  \E f \in Elems(file) : /\ f.id = e.id
                                    /\ e = f \/ f.text = "bar"
  <2>1. PICK f \in Elems(file) : e \in ReadAs(f)
    BY <1>4, ReadBackList, ElemsEmpty DEF LoadCrontab, Base, ListsOK, Good
  <2>2. f \in Rec
    BY Numbers
  <2> QED
    BY <2>1, <2>2, ReadAsRec
<1>5. BoundOK'
  <2>1. ASSUME fails = 0, NEW e \in Elems(entries') PROVE Rest(e, 0)'
    <3>1. \A f \in Elems(file) : Rest(f, 0)
      BY <1>3, <2>1 DEF CountOK, BoundOK, RestOK
    <3> QED
      BY <1>1, <1>4, <2>1, <3>1 DEF Rest, Bounded
  <2> QED
    BY <1>1, <1>2, <1>3, <2>1 DEF CountOK, BoundOK, RestOK, Rest, Bounded, Asked
<1>6. EnoughOK'
  <2>1. ASSUME NEW e \in Elems(entries'), Exact(e) PROVE Enough(e, 0)'
    <3>1. PICK f \in Elems(file) : f.id = e.id /\ (e = f \/ f.text = "bar")
      BY <1>4, <2>1
    <3>2. asked[f.id].text = "plain"
      BY <1>2, <2>1, <3>1 DEF Exact
    <3>3. e = f
      BY <3>1, <3>2 DEF TextsOK, ElemsOK
    <3>4. Enough(e, 0)
      BY <2>1, <3>3 DEF CountOK, EnoughOK
    <3> QED
      BY <1>1, <3>4 DEF Enough
  <2>2. Elems(sched'.todo) = {}
    BY <1>1, <1>2, ElemsEmpty DEF Asleep
  <2>3. \A e : Exact(e)' <=> Exact(e)
    BY <1>1 DEF Exact
  <2> QED
    BY <1>1, <1>2, <2>1, <2>2, <2>3 DEF CountOK, EnoughOK, Enough
<1> QED
  BY <1>5, <1>6 DEF CountOK

LEMMA StepCount == Base /\ TextsOK /\ CountOK /\ [CronNext]_cronVars => CountOK'
<1> SUFFICES ASSUME Base, TextsOK, CountOK, [CronNext]_cronVars PROVE CountOK'
  OBVIOUS
<1>1. CASE OpenFile
  BY <1>1, FailedSaveCount, QuietSteps, QuietCount DEF OpenFile
<1>2. CASE CloseFile
  <2>1. PICK n \in 0..Len(entries) :
          \/ file' = SubSeq(entries, 1, n) /\ (Saved(TRUE) \/ SaveThrows)
          \/ Saved(FALSE)
    BY <1>2, CloseFileCases
  <2>2. lock # "free"
    BY <1>2, CloseFileCases
  <2>3. CASE file' = SubSeq(entries, 1, n) /\ (Saved(TRUE) \/ SaveThrows)
    <3>1. Elems(file') \subseteq Elems(entries)
      BY <2>3, SubSeqOfEntries DEF Within
    <3> QED
      BY <2>3, <3>1, FiredSaveCount, SaveThrowsCount, QuietSteps, QuietCount
  <2> QED
    BY <2>1, <2>2, <2>3, FailedSaveCount
<1>3. CASE \/ Tick \/ (\E j \in Job : RemoveCron(j))
           \/ Wake \/ ReadKey \/ Snapshot \/ LoopEnds \/ Check \/ Record \/ PublishThrows
           \/ UNCHANGED cronVars
  BY <1>3, QuietSteps, QuietCount
<1> QED
  BY <1>1, <1>2, <1>3, AddCronCount, PublishCount, CountDownCount, DieCount, LoadCrontabCount
  DEF CronNext

------------------------------------------------------------------------------
(* Once per minute key.                                                    *)

\* No key lies in the future, nor behind the one the scheduler works with.
KeysOK ==
    /\ -1 <= sched.key /\ sched.key <= now
    /\ \A j \in Job : last[j] <= now
    /\ \A m \in marks : m[2] <= now
    /\ sched.pc \notin {"sleep", "key", "dead"} =>
         /\ \A j \in Job : last[j] <= sched.key
         /\ \A m \in marks : m[2] <= sched.key

\* A job that fired does not fire with that key again: it is removed, or remembered
\* with a key that is not older, or it is in no list from which it could fire.
Settled(m) ==
    \/ m[1] \in gone
    \/ last[m[1]] >= m[2]
    \/ /\ ~InList(entries, m[1])
       /\ InList(sched.todo, m[1]) => sched.pc = "count" /\ Due.id = m[1]

\* What the scheduler is about to fire was not fired with this key.
ChosenOK ==
    /\ sched.pc \in {"record", "publish"} => Due.id \in gone \/ <<Due.id, sched.key>> \notin marks
    /\ sched.pc = "publish" => Due.id \in gone \/ last[Due.id] = sched.key

OnceOK ==
    /\ KeysOK
    /\ \A m \in marks : Settled(m)
    /\ ChosenOK
    /\ twice \subseteq gone

LEMMA InitOnce == CronInit => OnceOK
BY DEF CronInit, OnceOK, KeysOK, Settled, ChosenOK, Asleep, Fresh, NoMinute

LEMMA KeysStep == Base /\ KeysOK /\ [CronNext]_cronVars => KeysOK'
<1> SUFFICES ASSUME Base, KeysOK, [CronNext]_cronVars PROVE KeysOK'
  OBVIOUS
<1>1. /\ now \in Nat /\ sched.key \in Int /\ last \in [Job -> Int] /\ marks \subseteq Job \X Int
      /\ sched \in [pc : Steps, wall : Int, key : Int, todo : Seq(Rec)]
  BY DEF Base, Typed
\* The clock moves on or not; the scheduler keeps its key, and keeps working.
<1>2. ASSUME now' \in Nat, now <= now', UNCHANGED marks, sched'.key = sched.key,
             \A j \in Job : last'[j] \in {last[j], -1},
             sched'.pc \notin {"sleep", "key", "dead"} => sched.pc \notin {"sleep", "key", "dead"}
      PROVE  KeysOK'
  BY <1>1, <1>2 DEF KeysOK
<1>3. CASE Tick
  BY <1>1, <1>2, <1>3 DEF Tick, history
<1>4. ASSUME NEW e \in JobEntry, AddCron(e) PROVE KeysOK'
  BY <1>1, <1>2, <1>4 DEF AddCron
<1>5. ASSUME NEW j \in Job, RemoveCron(j) PROVE KeysOK'
  BY <1>1, <1>2, <1>5 DEF RemoveCron, NoMinute
<1>6. ASSUME NEW ok \in BOOLEAN, Saved(ok) PROVE KeysOK'
  <2>1. sched'.key = sched.key /\ (sched'.pc = sched.pc \/ sched.pc = "count")
    BY <1>1, <1>6 DEF Saved, Base, PlaceOK
  <2> QED
    BY <1>1, <1>2, <1>6, <2>1 DEF Saved
\* The thread of the scheduler has ended.
<1>17. ASSUME UNCHANGED <<now, last, marks>>, sched' = Dead PROVE KeysOK'
  BY <1>1, <1>17, DeadTyped DEF KeysOK
<1>7. CASE OpenFile \/ CloseFile
  <2>1. (\E ok \in BOOLEAN : Saved(ok)) \/ SaveThrows \/ UNCHANGED <<now, last, sched, marks>>
    BY <1>7 DEF OpenFile, CloseFile, history
  <2>2. CASE SaveThrows
    BY <1>1, <1>2, <1>17, <2>2 DEF SaveThrows, history
  <2> QED
    BY <1>1, <1>2, <1>6, <2>1, <2>2
<1>8. CASE Wake
  <2>1. sched'.key = sched.key /\ sched'.pc = "key"
    BY <1>1, <1>8 DEF Wake
  <2> QED
    BY <1>1, <1>2, <1>8, <2>1 DEF Wake, schedOnly, history
<1>9. CASE ReadKey
  <2>1. sched'.key = now
    BY <1>1, <1>9 DEF ReadKey
  <2> QED
    BY <1>1, <1>9, <2>1 DEF ReadKey, KeysOK, schedOnly, history
<1>10. CASE Snapshot \/ Check
  <2>1. sched'.key = sched.key /\ sched.pc \notin {"sleep", "key", "dead"}
    BY <1>1, <1>10 DEF Snapshot, Check
  <2> QED
    BY <1>1, <1>2, <1>10, <2>1 DEF Snapshot, Check, schedOnly, history
<1>11. CASE LoopEnds
  BY <1>1, <1>11 DEF LoopEnds, Asleep, NoMinute, KeysOK, schedOnly, history
<1>12. CASE Record
  <2>1. sched'.key = sched.key /\ sched.pc = "record" /\ \A j \in Job : last'[j] \in {last[j], sched.key}
    BY <1>1, <1>12 DEF Record
  <2> QED
    BY <1>1, <1>12, <2>1 DEF Record, KeysOK, schedOnly, history
<1>13. CASE Publish
  <2>1. sched'.key = sched.key /\ sched.pc = "publish"
    BY <1>1, <1>13 DEF Publish
  <2>2. \A m \in marks' : m \in marks \/ m[2] = sched.key
    BY <1>13 DEF Publish
  <2> QED
    BY <1>1, <1>13, <2>1, <2>2 DEF Publish, KeysOK, schedOnly
<1>18. CASE PublishThrows
  BY <1>17, <1>18 DEF PublishThrows, schedOnly, history
<1>14. CASE CountDown
  BY <1>1, <1>2, <1>14 DEF CountDown, NoMinute, history
<1>15. CASE Die
  BY <1>1, <1>15 DEF Die, Asleep, Fresh, NoMinute, KeysOK
<1>16. CASE LoadCrontab \/ UNCHANGED cronVars
  BY <1>1, <1>2, <1>16 DEF LoadCrontab, cronVars, history
<1> QED
  BY <1>3, <1>4, <1>5, <1>7, <1>8, <1>9, <1>10, <1>11, <1>12, <1>13, <1>14, <1>15, <1>16, <1>18
  DEF CronNext

LEMMA ChosenStep == Base /\ OnceOK /\ [CronNext]_cronVars => ChosenOK'
<1> SUFFICES ASSUME Base, OnceOK, [CronNext]_cronVars PROVE ChosenOK'
  OBVIOUS
<1>1. /\ sched \in [pc : Steps, wall : Int, key : Int, todo : Seq(Rec)] /\ last \in [Job -> Int]
  BY DEF Base, Typed
\* The scheduler stands still.
<1>2. ASSUME UNCHANGED <<sched, marks>>, gone \subseteq gone',
             \A j \in Job : last'[j] = last[j] \/ j \in gone'
      PROVE  ChosenOK'
  <2>1. sched.pc = "publish" => Due.id \in Job
    BY DueOK DEF Base, PlaceOK
  <2> QED
    BY <1>2, <2>1 DEF OnceOK, ChosenOK, Due
<1>3. CASE Tick \/ LoadCrontab \/ UNCHANGED cronVars
  BY <1>2, <1>3 DEF Tick, LoadCrontab, cronVars, history
<1>4. ASSUME NEW e \in JobEntry, AddCron(e) PROVE ChosenOK'
  BY <1>2, <1>4 DEF AddCron
<1>5. ASSUME NEW j \in Job, RemoveCron(j) PROVE ChosenOK'
  BY <1>1, <1>2, <1>5 DEF RemoveCron
<1>6. ASSUME NEW ok \in BOOLEAN, Saved(ok) PROVE ChosenOK'
  <2>1. CASE lock = "fire"
    BY <1>1, <1>6, <2>1 DEF Saved, ChosenOK
  <2>2. CASE lock # "fire"
    BY <1>2, <1>6, <2>2 DEF Saved
  <2> QED
    BY <2>1, <2>2
<1>12. ASSUME sched' = Dead PROVE ChosenOK'
  BY <1>12, DeadTyped DEF ChosenOK
<1>13. CASE SaveThrows
  BY <1>2, <1>12, <1>13 DEF SaveThrows, history
<1>7. CASE OpenFile \/ CloseFile
  BY <1>2, <1>6, <1>7, <1>13 DEF OpenFile, CloseFile, history
<1>14. CASE PublishThrows
  BY <1>12, <1>14 DEF PublishThrows
<1>8. CASE Wake \/ ReadKey \/ Snapshot \/ LoopEnds \/ Publish \/ Die
  <2>1. sched'.pc \notin {"record", "publish"}
    <3>1. CASE Wake \/ ReadKey \/ Snapshot \/ Publish
      BY <1>1, <3>1 DEF Wake, ReadKey, Snapshot, Publish
    <3>2. CASE LoopEnds \/ Die
      BY <3>2 DEF LoopEnds, Die, Asleep
    <3> QED
      BY <1>8, <3>1, <3>2
  <2> QED
    BY <2>1 DEF ChosenOK
<1>9. CASE Check
  <2>1. CASE last[Due.id] # sched.key /\ sched.wall \in Due.expr
    <3>1. sched'.todo = sched.todo /\ sched'.key = sched.key /\ sched'.pc = "record" /\ sched.pc = "loop"
      BY <1>1, <1>9, <2>1 DEF Check
    <3>2. UNCHANGED <<marks, gone, last>>
      BY <1>9 DEF Check, history
    <3>3. Due.id \in Job /\ InList(sched.todo, Due.id)
      BY <1>9, DueOK, InElems DEF Check, Base, ListsOK, Good
    <3>4. Due.id \in gone \/ <<Due.id, sched.key>> \notin marks
      <4> SUFFICES ASSUME <<Due.id, sched.key>> \in marks PROVE Due.id \in gone
        OBVIOUS
      <4>1. Settled(<<Due.id, sched.key>>)
        BY DEF OnceOK
      <4>2. last[Due.id] <= sched.key /\ last[Due.id] # sched.key /\ last[Due.id] \in Int /\ sched.key \in Int
        BY <1>1, <2>1, <3>1, <3>3 DEF OnceOK, KeysOK
      <4>3. ~(last[Due.id] >= sched.key)
        BY <4>2
      <4> QED
        BY <3>1, <3>3, <4>1, <4>3 DEF Settled
    <3> QED
      BY <3>1, <3>2, <3>4 DEF ChosenOK, Due
  <2>2. CASE ~(last[Due.id] # sched.key /\ sched.wall \in Due.expr)
    BY <1>1, <1>9, <2>2 DEF Check, ChosenOK
  <2> QED
    BY <2>1, <2>2
<1>10. CASE Record
  <2>1. sched'.todo = sched.todo /\ sched'.key = sched.key /\ sched'.pc = "publish" /\ sched.pc = "record"
    BY <1>1, <1>10 DEF Record
  <2>2. UNCHANGED <<marks, gone>> /\ last' = [last EXCEPT ![Due.id] = sched.key] /\ Due.id \in Job
    BY <1>10, DueOK DEF Record, history, Base, PlaceOK
  <2> QED
    BY <1>1, <2>1, <2>2 DEF OnceOK, ChosenOK, Due
<1>11. CASE CountDown
  BY <1>11 DEF CountDown, ChosenOK, history
<1> QED
  BY <1>3, <1>4, <1>5, <1>7, <1>8, <1>9, <1>10, <1>11, <1>14 DEF CronNext

LEMMA SettledStep ==
  ASSUME Base, Base', OnceOK, [CronNext]_cronVars, NEW m \in marks'
  PROVE  Settled(m)'
<1>1. /\ sched \in [pc : Steps, wall : Int, key : Int, todo : Seq(Rec)] /\ last \in [Job -> Int]
      /\ Good(entries, Asked) /\ entries \in Seq(Rec) /\ Distinct(entries)
      /\ Good(sched.todo, Asked) /\ sched.todo \in Seq(Rec) /\ Asked \subseteq Job
  BY DEF Base, Typed, ListsOK, Good
<1>2. m \in Job \X Int /\ m[1] \in Job /\ m[2] \in Int
  BY DEF Base, Typed
\* The lists lose jobs, the key that is remembered gets no older.
<1>3. ASSUME m \in marks, gone \subseteq gone',
             m[1] \in gone' \/ last'[m[1]] >= last[m[1]],
             InList(entries', m[1]) => InList(entries, m[1]),
             InList(sched'.todo, m[1]) =>
               \/ InList(sched.todo, m[1]) /\ sched.pc # "count"
               \/ InList(sched.todo, m[1]) /\ Due.id # m[1]
               \/ InList(entries, m[1])
               \/ UNCHANGED sched
      PROVE  Settled(m)'
  <2>1. Settled(m)
    BY <1>3 DEF OnceOK
  <2>2. CASE m[1] \in gone
    BY <1>3, <2>2 DEF Settled
  <2>3. CASE last[m[1]] >= m[2]
    <3>1. m[1] \in gone' \/ last'[m[1]] >= m[2]
      <4>1. last \in [Job -> Int] /\ last' \in [Job -> Int]
        BY DEF Base, Typed
      <4> QED
        BY <1>2, <1>3, <2>3, <4>1
    <3> QED
      BY <3>1 DEF Settled
  <2>4. CASE /\ ~InList(entries, m[1])
             /\ InList(sched.todo, m[1]) => sched.pc = "count" /\ Due.id = m[1]
    BY <1>3, <2>4 DEF Settled, Due
  <2> QED
    BY <2>1, <2>2, <2>3, <2>4 DEF Settled
<1>4. CASE Tick \/ Wake \/ ReadKey \/ UNCHANGED cronVars
  <2>1. UNCHANGED <<entries, last, marks, gone>>
    BY <1>4 DEF Tick, Wake, ReadKey, cronVars, schedOnly, history
  <2>2. UNCHANGED sched \/ (sched'.todo = sched.todo /\ sched.pc # "count")
    BY <1>1, <1>4 DEF Tick, Wake, ReadKey, cronVars
  <2> QED
    BY <1>1, <1>2, <1>3, <2>1, <2>2
<1>5. ASSUME NEW e \in JobEntry, AddCron(e) PROVE Settled(m)'
  <2>1. e \in Rec /\ e.id = Len(asked) + 1 /\ m[1] \in Asked /\ Asked = 1..Len(asked) /\ Len(asked) \in Nat
    BY <1>5, EntryIsRec DEF AddCron, Base, Typed, ListsOK, Asked
  <2>2. Elems(entries') = Elems(entries) \cup {e} /\ entries' \in Seq(Rec)
    BY <1>1, <1>5, <2>1, AppendList DEF AddCron
  <2>3. InList(entries', m[1]) => InList(entries, m[1])
    BY <1>1, <2>1, <2>2, InElems
  <2> QED
    BY <1>1, <1>2, <1>3, <1>5, <2>3 DEF AddCron
<1>6. ASSUME NEW j \in Job, RemoveCron(j) PROVE Settled(m)'
  <2>1. InList(entries', m[1]) => InList(entries, m[1])
    BY <1>1, <1>6, WithoutList, InElems DEF RemoveCron, Within
  <2>2. m[1] \in gone' \/ last'[m[1]] >= last[m[1]]
    BY <1>1, <1>2, <1>6 DEF RemoveCron
  <2> QED
    BY <1>3, <1>6, <2>1, <2>2 DEF RemoveCron
<1>7. ASSUME NEW ok \in BOOLEAN, Saved(ok), lock # "free" PROVE Settled(m)'
  <2>1. InList(entries', m[1]) => InList(entries, m[1])
    BY <1>1, <1>7, FrontList, InElems DEF Saved, Within, Base, PlaceOK
  <2>2. CASE lock = "fire"
    <3>1. sched.todo # <<>> /\ sched'.todo = Tail(sched.todo)
      BY <1>1, <1>7, <2>2 DEF Saved, Base, PlaceOK
    <3>2. InList(sched'.todo, m[1]) => InList(sched.todo, m[1]) /\ Due.id # m[1]
      BY <3>1, DueOK
    <3> QED
      BY <1>1, <1>2, <1>3, <1>7, <2>1, <3>2 DEF Saved
  <2>3. CASE lock # "fire"
    BY <1>1, <1>2, <1>3, <1>7, <2>1, <2>3 DEF Saved
  <2> QED
    BY <2>2, <2>3
<1>16. ASSUME UNCHANGED <<entries, last, marks, gone>>, sched' = Dead PROVE Settled(m)'
  <2>1. ~InList(sched'.todo, m[1])
    BY <1>16, DeadTyped, GoodEmpty
  <2> QED
    BY <1>1, <1>2, <1>3, <1>16, <2>1
<1>8. CASE OpenFile \/ CloseFile
  <2>1. \/ \E ok \in BOOLEAN : Saved(ok)
        \/ UNCHANGED <<entries, last, sched, marks, gone>>
        \/ UNCHANGED <<entries, last, marks, gone>> /\ sched' = Dead
    BY <1>8 DEF OpenFile, CloseFile, SaveThrows, history
  <2>2. lock # "free"
    BY <1>8 DEF OpenFile, CloseFile, Base, PlaceOK
  <2> QED
    BY <1>1, <1>2, <1>3, <1>7, <1>16, <2>1, <2>2
<1>17. CASE PublishThrows
  BY <1>16, <1>17 DEF PublishThrows, schedOnly, history
<1>9. CASE Snapshot
  <2>1. sched'.todo = entries /\ UNCHANGED <<entries, last, marks, gone>>
    BY <1>1, <1>9 DEF Snapshot, schedOnly, history
  <2> QED
    BY <1>1, <1>2, <1>3, <2>1
<1>10. CASE LoopEnds
  <2>1. ~InList(sched'.todo, m[1]) /\ UNCHANGED <<entries, last, marks, gone>>
    BY <1>10, GoodEmpty DEF LoopEnds, Asleep, schedOnly, history
  <2> QED
    BY <1>1, <1>2, <1>3, <2>1
<1>11. CASE Check
  <2>1. sched'.todo \in {sched.todo, Tail(sched.todo)} /\ sched.pc # "count"
    BY <1>1, <1>11 DEF Check
  <2>2. InList(sched'.todo, m[1]) => InList(sched.todo, m[1])
    BY <1>11, <2>1, DueOK DEF Check
  <2>3. UNCHANGED <<entries, last, marks, gone>>
    BY <1>11 DEF Check, schedOnly, history
  <2> QED
    BY <1>1, <1>2, <1>3, <2>1, <2>2, <2>3
<1>12. CASE Record
  <2>1. Due.id \in Job /\ last' = [last EXCEPT ![Due.id] = sched.key] /\ last[Due.id] <= sched.key
    BY <1>12, DueOK DEF Record, Base, PlaceOK, OnceOK, KeysOK
  <2>2. last'[m[1]] >= last[m[1]]
    BY <1>1, <1>2, <2>1
  <2>3. sched'.todo = sched.todo /\ sched.pc # "count" /\ UNCHANGED <<entries, marks, gone>>
    BY <1>1, <1>12 DEF Record, schedOnly, history
  <2> QED
    BY <1>2, <1>3, <2>2, <2>3
<1>13. CASE Publish
  <2>1. /\ sched'.todo \in {sched.todo, Tail(sched.todo)} /\ sched.pc = "publish"
        /\ UNCHANGED <<entries, last, gone>> /\ marks' = marks \cup {<<Due.id, sched.key>>}
        /\ sched.todo # <<>>
    BY <1>1, <1>13 DEF Publish, schedOnly, Base, PlaceOK
  <2>2. InList(sched'.todo, m[1]) => InList(sched.todo, m[1])
    BY <2>1, DueOK
  <2>3. CASE m \in marks
    BY <1>1, <1>2, <1>3, <2>1, <2>2, <2>3
  <2>4. CASE m = <<Due.id, sched.key>>
    <3>1. m[1] \in gone \/ last[m[1]] = m[2]
      BY <2>1, <2>4 DEF OnceOK, ChosenOK
    <3> QED
      BY <1>1, <1>2, <2>1, <3>1 DEF Settled
  <2> QED
    BY <2>1, <2>3, <2>4
<1>14. CASE CountDown
  <2>1. sched.pc = "count" /\ Due.id \in Job /\ Due.count \in Nat /\ Due.count > 0
    BY <1>14, DueOK DEF CountDown, Base, PlaceOK
  <2>2. UNCHANGED <<sched, gone, marks>>
    BY <1>14 DEF CountDown, history
  <2>3. CASE Due.count = 1 /\ m[1] = Due.id
    <3>1. ~InList(entries', m[1])
      BY <1>1, <1>14, <2>3, WithoutList DEF CountDown
    <3> QED
      BY <2>1, <2>2, <2>3, <3>1 DEF Settled, Due
  <2>4. CASE Due.count = 1 /\ m[1] # Due.id
    <3>1. InList(entries', m[1]) => InList(entries, m[1])
      BY <1>1, <1>14, <2>4, WithoutList, InElems DEF CountDown, Within
    <3>2. last'[m[1]] = last[m[1]]
      BY <1>1, <1>2, <1>14, <2>4 DEF CountDown
    <3> QED
      BY <1>1, <1>2, <1>3, <2>2, <3>1, <3>2
  <2>5. CASE Due.count # 1
    <3>1. Due.count - 1 \in Nat /\ entries' = WithCount(entries, Due.id, Due.count - 1) /\ UNCHANGED last
      BY <1>14, <2>1, <2>5 DEF CountDown
    <3>2. InList(entries', m[1]) => InList(entries, m[1])
      BY <1>1, <3>1, WithCountList, AlikeList
    <3> QED
      BY <1>1, <1>2, <1>3, <2>2, <3>1, <3>2
  <2> QED
    BY <2>3, <2>4, <2>5
<1>15. CASE Die \/ LoadCrontab
  BY <1>15 DEF Die, LoadCrontab, Base, PlaceOK, history
<1> QED
  BY <1>4, <1>5, <1>6, <1>8, <1>9, <1>10, <1>11, <1>12, <1>13, <1>14, <1>15, <1>17 DEF CronNext

LEMMA StepOnce == Base /\ Base' /\ OnceOK /\ [CronNext]_cronVars => OnceOK'
<1> SUFFICES ASSUME Base, Base', OnceOK, [CronNext]_cronVars PROVE OnceOK'
  OBVIOUS
<1>1. twice' \subseteq gone'
  <2>1. CASE Publish
    BY <2>1 DEF Publish, OnceOK, ChosenOK
  <2>2. CASE ~Publish
    <3>1. UNCHANGED twice /\ gone \subseteq gone'
      BY <2>2 DEF CronNext, Tick, AddCron, RemoveCron, OpenFile, CloseFile, Saved, SaveThrows, Wake, ReadKey, Snapshot,
         LoopEnds, Check, Record, PublishThrows, CountDown, Die, LoadCrontab, cronVars, schedOnly, history
    <3> QED
      BY <3>1 DEF OnceOK
  <2> QED
    BY <2>1, <2>2
<1> QED
  BY <1>1, KeysStep, ChosenStep, SettledStep DEF OnceOK

------------------------------------------------------------------------------
(* No job is lost.                                                         *)

Live(j) == j \in acked \ gone /\ (asked[j].count = 0 \/ fired[j] < asked[j].count)

\* No save failed, the file was read at each start, and with the job's line.
Whole(j) == fails = 0 /\ ~torn /\ ~unread /\ (asked[j].text = "plain" \/ crashes = 0)

\* Where a job is that has to be somewhere.
Kept(j) ==
    /\ crashes = 0 => InList(entries, j)
    /\ Whole(j) => /\ up => InList(entries, j)
                   /\ ~opened => InList(file, j)

KeptOK == \A j \in Job : Live(j) => Kept(j)

LEMMA InitKept == CronInit => KeptOK
BY DEF CronInit, KeptOK, Live

\* A job that is live was so before, or its add has just been answered.
LEMMA LiveBefore ==
  ASSUME Base, [CronNext]_cronVars, NEW j \in Job, Live(j)'
  PROVE  j \notin gone' /\ (j \in acked => Live(j))
<1>1. gone \subseteq gone'
  BY DEF CronNext, Tick, AddCron, RemoveCron, OpenFile, CloseFile, Saved, SaveThrows, Wake, ReadKey, Snapshot,
     LoopEnds, Check, Record, Publish, PublishThrows, CountDown, Die, LoadCrontab, cronVars, schedOnly, history
<1>2. j \in acked => asked'[j] = asked[j]
  <2>1. ASSUME NEW e \in JobEntry, AddCron(e), j \in Asked PROVE asked'[j] = asked[j]
    BY <2>1, EntryIsRec, AppendProperties DEF AddCron, Base, Typed, Asked
  <2>2. CASE \A e \in JobEntry : ~AddCron(e)
    BY <2>2 DEF CronNext, Tick, RemoveCron, OpenFile, CloseFile, Saved, SaveThrows, Wake, ReadKey, Snapshot,
       LoopEnds, Check, Record, Publish, PublishThrows, CountDown, Die, LoadCrontab, cronVars, schedOnly, history
  <2> QED
    BY <2>1, <2>2 DEF Base, ListsOK
<1>3. fired[j] <= fired'[j] /\ fired[j] \in Nat /\ fired'[j] \in Nat
  <2>1. fired \in [Job -> Nat]
    BY DEF Base, Typed
  <2>2. CASE Publish
    BY <2>1, <2>2 DEF Publish
  <2>3. CASE ~Publish
    <3>1. UNCHANGED fired
      BY <2>3 DEF CronNext, Tick, AddCron, RemoveCron, OpenFile, CloseFile, Saved, SaveThrows, Wake, ReadKey, Snapshot,
         LoopEnds, Check, Record, PublishThrows, CountDown, Die, LoadCrontab, cronVars, schedOnly, history
    <3> QED
      BY <2>1, <3>1
  <2> QED
    BY <2>2, <2>3
<1>4. j \in acked => asked[j].count \in Nat
  BY Numbers DEF Base, ListsOK
<1> QED
  BY <1>1, <1>2, <1>3, <1>4 DEF Live

\* What was so of the job's texts and of the file, before the step.
LEMMA WholeBefore ==
  ASSUME Base, [CronNext]_cronVars, NEW j \in Asked, Whole(j)'
  PROVE  Whole(j)
<1>1. /\ fails \in Nat /\ crashes \in Nat /\ torn \in BOOLEAN /\ unread \in BOOLEAN
  BY DEF Base, Typed
<1>2. asked'[j] = asked[j]
  <2>1. ASSUME NEW e \in JobEntry, AddCron(e) PROVE asked'[j] = asked[j]
    BY <2>1, EntryIsRec, AppendProperties DEF AddCron, Base, Typed, Asked
  <2>2. CASE \A e \in JobEntry : ~AddCron(e)
    BY <2>2 DEF CronNext, Tick, RemoveCron, OpenFile, CloseFile, Saved, SaveThrows, Wake, ReadKey, Snapshot,
       LoopEnds, Check, Record, Publish, PublishThrows, CountDown, Die, LoadCrontab, cronVars, schedOnly, history
  <2> QED
    BY <2>1, <2>2
<1>3. (fails' = fails \/ fails' = fails + 1) /\ (crashes' = crashes \/ crashes' = crashes + 1)
  BY DEF CronNext, Tick, AddCron, RemoveCron, OpenFile, CloseFile, Saved, SaveThrows, Wake, ReadKey, Snapshot,
     LoopEnds, Check, Record, Publish, PublishThrows, CountDown, Die, LoadCrontab, cronVars, schedOnly, history
<1>4. (torn => torn') /\ (unread => unread')
  <2>1. CASE Die
    BY <2>1 DEF Die
  <2>2. CASE LoadCrontab
    BY <2>2 DEF LoadCrontab
  <2>3. CASE ~Die /\ ~LoadCrontab
    <3>1. UNCHANGED <<torn, unread>>
      BY <2>3 DEF CronNext, Tick, AddCron, RemoveCron, OpenFile, CloseFile, Saved, SaveThrows, Wake, ReadKey,
         Snapshot, LoopEnds, Check, Record, Publish, PublishThrows, CountDown, cronVars, schedOnly, history
    <3> QED
      BY <3>1
  <2> QED
    BY <2>1, <2>2, <2>3
<1> QED
  BY <1>1, <1>2, <1>3, <1>4 DEF Whole

LEMMA StepKept == Base /\ Base' /\ TextsOK /\ CountOK /\ KeptOK /\ [CronNext]_cronVars => KeptOK'
<1> SUFFICES ASSUME Base, Base', TextsOK, CountOK, KeptOK, [CronNext]_cronVars, NEW j \in Job, Live(j)'
             PROVE  Kept(j)'
  BY DEF KeptOK
<1>1. /\ Good(entries, Asked) /\ entries \in Seq(Rec) /\ Good(file, Asked) /\ file \in Seq(Rec)
      /\ sched \in [pc : Steps, wall : Int, key : Int, todo : Seq(Rec)]
      /\ fails \in Nat /\ crashes \in Nat
  BY DEF Base, Typed, ListsOK, Good
<1>2. /\ j \notin gone' /\ j \in acked' /\ (j \in acked => Kept(j))
      /\ j \in acked => j \in Asked
  BY LiveBefore DEF KeptOK, Live, Base, ListsOK
<1>17. j \in acked /\ Whole(j)' => Whole(j)
  BY <1>2, WholeBefore
\* Nobody touches the file, and the job is not taken out.
<1>3. ASSUME UNCHANGED <<up, opened, file, crashes, acked>>,
             Kept(j) /\ InList(entries, j) /\ (crashes = 0 \/ Whole(j)) => InList(entries', j)
      PROVE  Kept(j)'
  <2>1. j \in acked
    BY <1>2, <1>3
  <2>2. crashes' = 0 => InList(entries', j)
    BY <1>2, <1>3, <2>1 DEF Kept
  <2>3. Whole(j)' => (up' => InList(entries', j)) /\ (~opened' => InList(file', j))
    BY <1>2, <1>3, <1>17, <2>1 DEF Kept
  <2> QED
    BY <2>2, <2>3 DEF Kept
<1>4. CASE \/ Tick \/ Wake \/ ReadKey \/ Snapshot \/ LoopEnds \/ Check \/ Record \/ Publish \/ PublishThrows
           \/ UNCHANGED cronVars
  BY <1>3, <1>4 DEF Tick, Wake, ReadKey, Snapshot, LoopEnds, Check, Record, Publish, PublishThrows, cronVars,
     schedOnly, history
<1>5. ASSUME NEW e \in JobEntry, AddCron(e) PROVE Kept(j)'
  <2>1. Elems(entries') = Elems(entries) \cup {e} /\ entries' \in Seq(Rec)
    BY <1>1, <1>5, EntryIsRec, AppendList DEF AddCron
  <2>2. InList(entries, j) => InList(entries', j)
    BY <1>1, <2>1, InElems
  <2> QED
    BY <1>3, <1>5, <2>2 DEF AddCron
<1>6. ASSUME NEW k \in Job, RemoveCron(k) PROVE Kept(j)'
  <2>1. k # j
    BY <1>2, <1>6 DEF RemoveCron
  <2>2. InList(entries, j) => InList(entries', j)
    BY <1>1, <1>6, <2>1, WithoutList DEF RemoveCron
  <2> QED
    BY <1>3, <1>6, <2>2 DEF RemoveCron
\* A failed save says nothing of the file, and takes back only a job whose add was
\* not answered.
<1>7. ASSUME lock # "free", Saved(FALSE) PROVE Kept(j)'
  <2>1. fails' # 0 /\ UNCHANGED <<crashes, acked>>
    BY <1>1, <1>7 DEF Saved
  <2>2. InList(entries, j) => InList(entries', j)
    <3>1. CASE lock = "add"
      <4>1. entries' = Front(entries) /\ entries # <<>> /\ Last(entries).id # j
        BY <1>2, <1>7, <2>1, <3>1 DEF Saved, Base, PlaceOK
      <4> QED
        BY <1>1, <4>1, FrontList
    <3>2. CASE lock # "add"
      BY <1>7, <3>2 DEF Saved
    <3> QED
      BY <3>1, <3>2
  <2> QED
    BY <1>2, <2>1, <2>2 DEF Kept, Whole
<1>8. CASE OpenFile
  <2>1. CASE Saved(FALSE)
    BY <1>7, <1>8, <2>1 DEF OpenFile
  <2>2. CASE opened' /\ UNCHANGED <<up, entries, crashes, acked>>
    BY <1>2, <1>17, <2>2 DEF Kept
  <2> QED
    BY <1>8, <2>1, <2>2 DEF OpenFile, history
\* A line that cannot be written stands behind every job that was answered.
<1>9. CASE CloseFile
  <2>1. up /\ opened /\ lock # "free"
    BY <1>9, CloseFileCases
  <2>2. PICK n \in 0..Len(entries) :
          /\ Writes(entries, n)
          /\ \/ file' = SubSeq(entries, 1, n) /\ n = Len(entries) /\ Saved(TRUE)
             \/ file' = SubSeq(entries, 1, n) /\ n < Len(entries) /\ SaveThrows
             \/ Saved(FALSE)
    BY <1>9, CloseFileCases
  <2>3. CASE file' = SubSeq(entries, 1, n) /\ n = Len(entries) /\ Saved(TRUE)
    <3>1. UNCHANGED <<entries, up, crashes>> /\ up
      BY <2>1, <2>3 DEF Saved
    <3>2. InList(entries, j) => InList(file', j)
      BY <1>1, <2>3, SubSeqOfEntries, InElems DEF InList
    <3>3. CASE j \in acked
      BY <1>2, <1>17, <2>1, <3>1, <3>2, <3>3 DEF Kept
    <3>4. CASE j \notin acked
      <4>1. entries # <<>> /\ j = Last(entries).id
        BY <1>2, <2>3, <3>4 DEF Saved, Base, PlaceOK
      <4>2. InList(entries, j)
        BY <1>1, <4>1, FrontList, InElems
      <4> QED
        BY <3>1, <3>2, <4>2 DEF Kept
    <3> QED
      BY <3>3, <3>4
  <2>4. CASE file' = SubSeq(entries, 1, n) /\ n < Len(entries) /\ SaveThrows
    <3>1. UNCHANGED <<entries, up, crashes, acked>> /\ up
      BY <2>1, <2>4 DEF SaveThrows, history
    <3>2. ASSUME InList(entries, j) PROVE InList(file', j)
      <4>1. PICK k \in DOMAIN entries : entries[k].id = j
        BY <3>2 DEF InList
      <4>2. n + 1 \in DOMAIN entries /\ entries[n + 1].text = "surrogate" /\ k \in Nat
        BY <1>1, <2>2, <2>4 DEF Writes
      <4>3. ~(n + 1 <= k)
        BY <1>2, <3>1, <4>1, <4>2 DEF TextsOK, OrderOK
      <4>4. entries[k] \in Elems(SubSeq(entries, 1, n))
        BY <4>1, <4>2, <4>3, SubSeqOfEntries
      <4> QED
        BY <2>4, <4>1, <4>4, SubSeqOfEntries, InElems
    <3> QED
      BY <1>2, <1>17, <2>1, <3>1, <3>2 DEF Kept
  <2> QED
    BY <1>7, <2>1, <2>2, <2>3, <2>4
\* Only a job that has fired as often as asked is taken out.
<1>10. CASE CountDown
  <2>1. Due \in Elems(sched.todo) /\ Due.count \in Nat /\ Due.count > 0 /\ Due.id \in Asked
    BY <1>10, DueOK DEF CountDown, Base, PlaceOK
  <2>2. CASE Due.count = 1 /\ j = Due.id
    <3>1. crashes = 0 \/ Whole(j) => Enough(Due, 1)
      BY <1>10, <2>1, <2>2 DEF CountDown, CountOK, EnoughOK, Pending, Exact, Whole
    <3>2. asked[j].count \in Nat /\ fired[j] \in Nat
      BY <2>1, <2>2, Numbers
    <3>3. UNCHANGED <<asked, fired>>
      BY <1>10 DEF CountDown, history
    <3>4. ~(crashes = 0 \/ Whole(j))
      BY <2>2, <3>1, <3>2, <3>3 DEF Enough, Live
    <3> QED
      BY <1>3, <1>10, <3>4 DEF CountDown, history
  <2>3. CASE Due.count = 1 /\ j # Due.id
    <3>1. InList(entries, j) => InList(entries', j)
      BY <1>1, <1>10, <2>3, WithoutList DEF CountDown
    <3> QED
      BY <1>3, <1>10, <3>1 DEF CountDown, history
  <2>4. CASE Due.count # 1
    <3>1. Due.count - 1 \in Nat /\ entries' = WithCount(entries, Due.id, Due.count - 1)
      BY <1>10, <2>1, <2>4 DEF CountDown
    <3>2. InList(entries, j) => InList(entries', j)
      BY <1>1, <3>1, WithCountList, AlikeList
    <3> QED
      BY <1>3, <1>10, <3>2 DEF CountDown, history
  <2> QED
    BY <2>2, <2>3, <2>4
<1>11. CASE Die
  <2>1. crashes' # 0 /\ ~up' /\ (~torn' => ~torn /\ ~opened) /\ UNCHANGED <<file, acked>> /\ up
    BY <1>1, <1>11 DEF Die, Base, Typed
  <2>2. Whole(j)' => Whole(j) /\ ~opened
    BY <1>2, <1>17, <2>1 DEF Whole
  <2> QED
    BY <1>2, <2>1, <2>2 DEF Kept
<1>12. CASE LoadCrontab
  <2>1. UNCHANGED <<file, crashes, acked, opened, asked>>
    BY <1>12 DEF LoadCrontab
  <2>2. crashes # 0 /\ ~opened /\ j \in acked
    BY <1>2, <1>12, <2>1 DEF LoadCrontab, Base, PlaceOK
  <2>3. ASSUME Whole(j)' PROVE InList(file, j) /\ InList(entries', j)
    <3>1. Whole(j) /\ InList(file, j) /\ asked[j].text = "plain"
      BY <1>2, <1>17, <2>1, <2>2, <2>3 DEF Kept, Whole
    <3>2. entries' \in ReadBack(file)
      BY <1>12, <2>3 DEF LoadCrontab, Whole
    <3>3. PICK f \in Elems(file) : f.id = j
      BY <1>1, <3>1, InElems
    <3>4. f.text # "newline"
      BY <3>1, <3>3 DEF TextsOK, ElemsOK
    <3>5. InList(entries', f.id)
      BY <1>1, <3>2, <3>3, <3>4, ReadBackList
    <3> QED
      BY <3>1, <3>3, <3>5
  <2> QED
    BY <2>1, <2>2, <2>3 DEF Kept
<1> QED
  BY <1>4, <1>5, <1>6, <1>8, <1>9, <1>10, <1>11, <1>12 DEF CronNext

------------------------------------------------------------------------------
(* The theorems.                                                           *)

IInv == Base /\ TextsOK /\ CountOK /\ OnceOK /\ KeptOK

\* Every step of the requests, the saves, the scheduler and the crashes keeps the invariant.
THEOREM Invariance == CronSpec => []IInv
<1>1. CronInit => IInv
  BY InitBase, InitTexts, InitCount, InitOnce, InitKept DEF IInv
<1>2. IInv /\ [CronNext]_cronVars => IInv'
  BY StepBase, StepTexts, StepCount, StepOnce, StepKept DEF IInv
<1> QED
  BY <1>1, <1>2, PTL DEF CronSpec

\* Whatever crashes and saves do: a job fires once more than asked for each crash at
\* most, as long as no save fails, and never twice with one key of a run
\* (_scheduler_loop, _save_crontab, _load_crontab).
THEOREM FiringBounded == CronSpec => []FiringIsBounded
<1>1. IInv => FiringIsBounded
  BY DEF IInv, CountOK, BoundOK, Bounded, OnceOK, FiringIsBounded, Asked
<1> QED
  BY <1>1, Invariance, PTL

\* A job whose add was answered with 0 stays in the list whatever saves fail, as long
\* as the process lives; in the file too, as long as no save fails, nobody dies with the
\* file open and it is read at every start; and over the crashes, if its texts are plain
\* (_handle_add_cron, _handle_remove_cron, _save_crontab, _load_crontab).
THEOREM JobsKept == CronSpec => []JobsSurvive
<1>1. IInv => JobsSurvive
  <2> SUFFICES ASSUME IInv, lock = "free", NEW j \in acked \ gone,
                      asked[j].count = 0 \/ fired[j] < asked[j].count
               PROVE  /\ crashes = 0 => InList(entries, j)
                      /\ Whole(j) => InList(file, j) /\ (up => InList(entries, j))
    BY DEF JobsSurvive, Whole
  <2>1. Kept(j)
    BY DEF IInv, Base, ListsOK, KeptOK, Live
  <2>2. ~opened
    BY DEF IInv, Base, PlaceOK
  <2> QED
    BY <2>1, <2>2 DEF Kept
<1> QED
  BY <1>1, Invariance, PTL

------------------------------------------------------------------------------
(* The speaker.                                                            *)

SpeakSteps == {"new", "refused", "accepted", "failed", "synthesize", "clear", "play", "popen",
               "wait", "reset", "take", "terminate", "finally", "done"}

SpeakerTyped ==
    /\ speaking \in BOOLEAN /\ stopFlag \in BOOLEAN
    /\ process \in Speak \cup {Nobody}
    /\ sound \in [Speak -> {"none", "playing", "over"}]
    /\ pc \in [Speak -> SpeakSteps]

\* What plays is the one program that AudioPlayer knows.
PlayerOK == \A s \in Speak : sound[s] = "playing" => process = s

\* Who synthesises or plays holds the busy flag, alone.
FlagOK == \A s \in Speak : Active(s) => speaking /\ \A t \in Speak : Active(t) => s = t

\* Nobody stops anything, and nothing plays when a thread is about to start a
\* program or to forget one.
ThreadsOK ==
    /\ handler \in {"idle", "start"} /\ ~stopFlag
    /\ \A s \in Speak :
         /\ pc[s] \notin {"take", "terminate"}
         /\ pc[s] \in {"popen", "reset"} => \A t \in Speak : sound[t] # "playing"

Exclusive == SpeakerTyped /\ PlayerOK /\ FlagOK /\ ThreadsOK

SpeakerInv == stops \in Nat /\ (stops = 0 => Exclusive)

LEMMA InitSpeaker == SpeakerInit => SpeakerInv
<1> SUFFICES ASSUME SpeakerInit PROVE SpeakerInv
  OBVIOUS
<1>1. SpeakerTyped
  BY DEF SpeakerInit, SpeakerTyped, SpeakSteps
<1>2. PlayerOK /\ FlagOK /\ ThreadsOK
  BY DEF SpeakerInit, PlayerOK, FlagOK, ThreadsOK, Active
<1> QED
  BY <1>1, <1>2 DEF SpeakerInit, SpeakerInv, Exclusive

------------------------------------------------------------------------------
\* Each step of the requests and their threads, while nobody has said stop.
LEMMA HandleSpeakStep ==
  ASSUME Exclusive, NEW s \in Speak, HandleSpeak(s)
  PROVE  Exclusive'
<1>1. CASE speaking
  BY <1>1 DEF Exclusive, SpeakerTyped, SpeakSteps, PlayerOK, FlagOK, ThreadsOK, Active, HandleSpeak, Step
<1>2. CASE ~speaking
  <2>1. \A t \in Speak : ~Active(t)
    BY <1>2 DEF Exclusive, FlagOK
  <2>2. /\ pc' = [pc EXCEPT ![s] = "accepted"] /\ speaking' = TRUE /\ handler' = "start"
        /\ UNCHANGED <<stopFlag, process, sound>>
    BY <1>2 DEF HandleSpeak, Step
  <2>3. SpeakerTyped' /\ PlayerOK' /\ ThreadsOK'
    BY <2>2 DEF Exclusive, SpeakerTyped, SpeakSteps, PlayerOK, ThreadsOK
  <2>4. FlagOK'
    BY <2>1, <2>2 DEF Exclusive, SpeakerTyped, FlagOK, Active
  <2> QED
    BY <2>3, <2>4 DEF Exclusive
<1> QED
  BY <1>1, <1>2

LEMMA StartThreadStep ==
  ASSUME Exclusive, NEW s \in Speak, StartThread(s)
  PROVE  Exclusive'
BY DEF Exclusive, SpeakerTyped, SpeakSteps, PlayerOK, FlagOK, ThreadsOK, Active, StartThread, Step

\* A thread that does no more than go on, or that ends.
LEMMA QuietStep ==
  ASSUME Exclusive, NEW s \in Speak, Synthesize(s) \/ ClearStop(s) \/ Finally(s)
  PROVE  Exclusive'
<1>1. CASE Synthesize(s)
  BY <1>1 DEF Exclusive, SpeakerTyped, SpeakSteps, PlayerOK, FlagOK, ThreadsOK, Active, Synthesize, Step
<1>2. CASE ClearStop(s)
  BY <1>2 DEF Exclusive, SpeakerTyped, SpeakSteps, PlayerOK, FlagOK, ThreadsOK, Active, ClearStop, Step
<1>3. CASE Finally(s)
  BY <1>3 DEF Exclusive, SpeakerTyped, SpeakSteps, PlayerOK, FlagOK, ThreadsOK, Active, Finally, Step
<1> QED
  BY <1>1, <1>2, <1>3

\* play(): a program is started only when none plays.
LEMMA BeginPlayStep ==
  ASSUME Exclusive, NEW s \in Speak, BeginPlay(s)
  PROVE  Exclusive'
<1>1. CASE IsPlaying
  BY <1>1 DEF Exclusive, SpeakerTyped, SpeakSteps, PlayerOK, FlagOK, ThreadsOK, Active, BeginPlay, Step
<1>2. CASE ~IsPlaying
  <2>1. \A t \in Speak : sound[t] # "playing"
    BY <1>2, SpeakerAssumption DEF Exclusive, PlayerOK, IsPlaying
  <2> QED
    BY <1>2, <2>1 DEF Exclusive, SpeakerTyped, SpeakSteps, PlayerOK, FlagOK, ThreadsOK, Active, BeginPlay, Step
<1> QED
  BY <1>1, <1>2

LEMMA StartPlayerStep ==
  ASSUME Exclusive, NEW s \in Speak, StartPlayer(s)
  PROVE  Exclusive'
BY DEF Exclusive, SpeakerTyped, SpeakSteps, PlayerOK, FlagOK, ThreadsOK, Active, StartPlayer, Step

\* The wait ends when the program is over, and nothing else plays then.
LEMMA WaitStep ==
  ASSUME Exclusive, NEW s \in Speak, Wait(s)
  PROVE  Exclusive'
<1>1. ~stopFlag
  BY DEF Exclusive, ThreadsOK
<1>2. pc'[s] = "reset" => \A t \in Speak : sound[t] # "playing"
  BY <1>1 DEF Exclusive, SpeakerTyped, PlayerOK, Wait, Step
<1> QED
  BY <1>1, <1>2 DEF Exclusive, SpeakerTyped, SpeakSteps, PlayerOK, FlagOK, ThreadsOK, Active, Wait, Step

LEMMA ResetPlayerStep ==
  ASSUME Exclusive, NEW s \in Speak, ResetPlayer(s)
  PROVE  Exclusive'
BY DEF Exclusive, SpeakerTyped, SpeakSteps, PlayerOK, FlagOK, ThreadsOK, Active, ResetPlayer, Step

LEMMA SoundEndsStep ==
  ASSUME Exclusive, NEW s \in Speak, SoundEnds(s)
  PROVE  Exclusive'
BY DEF Exclusive, SpeakerTyped, PlayerOK, FlagOK, ThreadsOK, Active, SoundEnds

LEMMA StepSpeaker == SpeakerInv /\ [SpeakerNext]_speakerVars => SpeakerInv'
<1> SUFFICES ASSUME SpeakerInv, [SpeakerNext]_speakerVars PROVE SpeakerInv'
  OBVIOUS
<1>1. CASE HandleStop
  BY <1>1 DEF SpeakerInv, HandleStop
<1>2. CASE LookAtPlayer \/ StopPlayer \/ ReleaseSpeaker
  BY <1>2 DEF SpeakerInv, Exclusive, ThreadsOK, LookAtPlayer, StopPlayer, ReleaseSpeaker
<1>3. ASSUME NEW s \in Speak, HandleSpeak(s) \/ StartThread(s) \/ ThreadStep(s) \/ SoundEnds(s)
      PROVE  SpeakerInv'
  <2>1. UNCHANGED stops
    BY <1>3 DEF HandleSpeak, StartThread, ThreadStep, SoundEnds, Synthesize, ClearStop, BeginPlay, StartPlayer,
       Wait, ResetPlayer, HaltPlayer, Finally
  <2>2. CASE stops = 0
    <3>1. Exclusive
      BY <2>2 DEF SpeakerInv
    <3>2. ~HaltPlayer(s)
      BY <3>1 DEF Exclusive, ThreadsOK, HaltPlayer, Step
    <3>3. Exclusive'
      BY <1>3, <3>1, <3>2, HandleSpeakStep, StartThreadStep, QuietStep, BeginPlayStep, StartPlayerStep, WaitStep,
         ResetPlayerStep, SoundEndsStep DEF ThreadStep
    <3> QED
      BY <2>1, <3>3 DEF SpeakerInv
  <2> QED
    BY <2>1, <2>2 DEF SpeakerInv
<1>4. CASE UNCHANGED speakerVars
  BY <1>4 DEF speakerVars, SpeakerInv, Exclusive, SpeakerTyped, PlayerOK, FlagOK, ThreadsOK, Active
<1> QED
  BY <1>1, <1>2, <1>3, <1>4 DEF SpeakerNext

\* Until the first stop one speak at a time is synthesised or played, and what
\* plays can be found and stopped (_handle_speak, _synthesize_and_play, play).
THEOREM OneAtATime == SpeakerSpec => []SpeakingIsExclusive
<1>1. SpeakerInv => SpeakingIsExclusive
  BY DEF SpeakerInv, Exclusive, PlayerOK, FlagOK, SpeakingIsExclusive
<1> QED
  BY <1>1, InitSpeaker, StepSpeaker, PTL DEF SpeakerSpec
==============================================================================
