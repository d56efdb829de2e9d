------------------------- MODULE CacheDBRec_proofs -------------------------
(***************************************************************************)
(* Proofs about the records of a database, for any keys, values, number of *)
(* records and of sessions.                                                *)
(***************************************************************************)
EXTENDS CacheDBRec, SequenceTheorems, WellFoundedInduction, TLAPS

\* Sessions read a database in the format it was written in, and a method that is called
\* back fetches nothing: it is called by an add, for another look or another add.
Regular == ~Mixed /\ \A c \in Nested : c[1] = "add" /\ c[2] # "fetch"

-----------------------------------------------------------------------------
(* Entries, cells, and where they lie.                                     *)

Entries == {r \in [key : Keys, val : Values, bin : BOOLEAN, start : Nat, zlen : Nat, len : Nat] :
               r.zlen = ZLen(r.val, r.bin) /\ r.len = PLen(r.val, r.bin)}
Cell    == [key : Keys, val : Values, bin : BOOLEAN, at : Nat]

\* The record of an entry is in full in the data after at units.
LiesAt(r, data, at) ==
    /\ at + r.zlen <= Len(data)
    /\ \A k \in 1..r.zlen : data[at + k] = [key |-> r.key, val |-> r.val, bin |-> r.bin, at |-> k]

\* The records lie one after the other, to the end of the data.
Lies(ix, data) ==
    /\ ix \in Seq(Entries) /\ data \in Seq(Cell)
    /\ \A i \in 1..Len(ix) : LiesAt(ix[i], data, Sums(ix)[i - 1])
    /\ Sums(ix)[Len(ix)] = Len(data)

\* The offsets in memory count from the start of a stream with a header.
Placed(ix, header) == \A i \in 1..Len(ix) : ix[i].start = header + Sums(ix)[i - 1]

AddCall   == [op : {"add"}, key : Keys, val : Values, code : BOOLEAN]
FetchCall == [op : {"fetch"}, rec : Entries, cells : Seq(Cell), code : BOOLEAN]

Typed ==
    /\ file \in [index : Seq(Entries), data : Seq(Cell), exists : BOOLEAN]
    /\ st \in {"closed", "open", "misuse"}
    /\ mode \in {"r", "w", "c"}
    /\ bin \in BOOLEAN
    /\ index \in Seq(Entries)
    /\ base \in [data : Seq(Cell), hlen : Nat, pos : Nat, next : Nat]
    /\ tmp \in [data : Seq(Cell), len : Nat, pos : Nat, next : Nat]
    /\ last \in 0..Len(index)
    /\ calls \in Seq(AddCall \cup FetchCall)
    /\ st # "open" => calls = <<>>

\* The database file is in order, and in one format.
FileOK ==
    /\ Lies(file.index, file.data)
    /\ \A i, j \in 1..Len(file.index) : file.index[i].bin = file.index[j].bin

\* The index of a session fits the two streams.
IndexOK ==
    /\ Lies(index, base.data \o tmp.data) /\ Placed(index, base.hlen)
    /\ \A i \in 1..Len(index) : InBase(index[i]) => index[i].start + index[i].zlen <= BaseLen
    /\ \A i \in 1..Len(index) : index[i].bin = bin
    /\ tmp.len = Len(tmp.data)

\* The record being fetched, and the stream left behind it.
Reading(call) ==
    /\ last # 0 /\ call.rec = index[last] /\ call.rec.zlen # 0
    /\ call.cells = Cells(call.rec.key, call.rec.val, call.rec.bin)
    /\ IF InBase(call.rec)
       THEN base.pos = call.rec.start + call.rec.zlen /\ tmp.pos = tmp.next
       ELSE tmp.pos + BaseLen = call.rec.start + call.rec.zlen /\ base.pos = base.next

\* The streams stand where the cached positions say, but in the middle of a call.
Positions ==
    \/ calls = <<>> /\ tmp.pos = tmp.next /\ base.pos = base.next
    \/ /\ calls # <<>> /\ \A i \in 1..Len(calls) : calls[i].op = "add"
       /\ tmp.pos = tmp.len /\ base.pos = base.next
    \/ Len(calls) = 1 /\ calls[1].op = "fetch" /\ Reading(calls[1])

\* What a session has added can be told from the position in the temporary file.
Additions ==
    /\ tmp.len > 0 => tmp.next > 0
    /\ mode # "r" /\ tmp.len = 0 /\ (\A v \in Values : v.n > 0) =>
          /\ mode = "w" => index = LoadIndex(file)
          /\ mode = "c" => index = <<>>

IInv == Typed /\ FileOK /\ (st = "open" => IndexOK /\ Positions /\ Additions)

-----------------------------------------------------------------------------
(* Running sums.                                                           *)

\* Induction over the numbers up to L, in the form of a set.
LEMMA OneByOne ==
  ASSUME NEW L \in Nat, NEW S, 0 \in S, \A k \in 1..L : k - 1 \in S => k \in S
  PROVE  \A k \in 0..L : k \in S
<1> SUFFICES ASSUME NEW n \in 0..L, n \notin S PROVE FALSE
  OBVIOUS
<1> DEFINE T == {k \in 0..L : k \notin S}
           R == OpToRel(<, Nat)
<1>1. \A x, y \in Nat : <<x, y>> \in R <=> x < y
  BY DEF OpToRel
<1>2. IsWellFoundedOn(R, Nat)
  BY NatLessThanWellFounded
<1>7. T \subseteq Nat /\ T # {}
  OBVIOUS
<1> HIDE DEF R, T
<1>3. PICK x \in T : \A y \in T : ~(<<y, x>> \in R)
  BY <1>2, <1>7, WFMin
<1>4. x \in 1..L /\ x \notin S
  BY DEF T
<1>5. x - 1 \in 0..L /\ x - 1 < x /\ x - 1 \in Nat /\ x \in Nat
  BY <1>4
<1>6. x - 1 \notin T
  BY <1>1, <1>3, <1>5
<1> QED  BY <1>4, <1>5, <1>6 DEF T

\* The running sums exist, and are what their definition says.
LEMMA SumsAre ==
  ASSUME NEW ix \in Seq(Entries)
  PROVE  /\ Sums(ix)[0] = 0
         /\ \A i \in 1..Len(ix) : Sums(ix)[i] = Sums(ix)[i - 1] + ix[i].zlen
         /\ \A i \in 0..Len(ix) : Sums(ix)[i] \in Nat
<1> DEFINE L == Len(ix)
           z(i) == ix[i].zlen
           S == {n \in 0..L : \E g : g = [i \in 0..n |-> IF i = 0 THEN 0 ELSE g[i - 1] + z(i)]}
<1>1. L \in Nat /\ \A i \in 1..L : z(i) \in Nat
  BY DEF Entries
<1>2. Sums(ix) = CHOOSE g : g = [i \in 0..L |-> IF i = 0 THEN 0 ELSE g[i - 1] + z(i)]
  BY DEF Sums
<1> DEFINE c == Sums(ix)
<1> HIDE DEF L, z, c
<1>3. 0 \in S
  <2> DEFINE h == [i \in 0..0 |-> 0]
  <2>1. h = [i \in 0..0 |-> IF i = 0 THEN 0 ELSE h[i - 1] + z(i)]
    OBVIOUS
  <2> HIDE DEF h
  <2> QED  BY <1>1, <2>1
<1>4. ASSUME NEW n \in 1..L, n - 1 \in S PROVE n \in S
  <2>1. PICK g : g = [i \in 0..(n - 1) |-> IF i = 0 THEN 0 ELSE g[i - 1] + z(i)]
    BY <1>4
  <2> DEFINE h == [i \in 0..n |-> IF i < n THEN g[i] ELSE g[n - 1] + z(n)]
  <2>2. ASSUME NEW i \in 0..n PROVE h[i] = IF i = 0 THEN 0 ELSE h[i - 1] + z(i)
    <3>1. CASE i = 0
      BY <1>1, <2>1, <3>1
    <3>2. CASE i > 0 /\ i < n
      <4>1. i - 1 \in 0..n /\ i - 1 < n /\ i \in 0..(n - 1)
        BY <1>1, <3>2
      <4> QED  BY <2>1, <3>2, <4>1
    <3>3. CASE i = n
      <4>1. n - 1 \in 0..n /\ n - 1 < n /\ n # 0
        BY <1>1
      <4> QED  BY <3>3, <4>1
    <3> QED  BY <1>1, <3>1, <3>2, <3>3
  <2>3. h = [i \in 0..n |-> h[i]]
    OBVIOUS
  <2> HIDE DEF h
  <2>4. [i \in 0..n |-> h[i]] = [i \in 0..n |-> IF i = 0 THEN 0 ELSE h[i - 1] + z(i)]
    BY <2>2, ZenonT(20)
  <2>5. h = [i \in 0..n |-> IF i = 0 THEN 0 ELSE h[i - 1] + z(i)]
    BY <2>3, <2>4, Zenon
  <2>6. n \in 0..L
    BY <1>1
  <2>7. \E f : f = [i \in 0..n |-> IF i = 0 THEN 0 ELSE f[i - 1] + z(i)]
    BY <2>5, Zenon
  <2> QED  BY <2>6, <2>7, Zenon
<1>5. L \in S
  <2> HIDE DEF S
  <2>1. \A n \in 1..L : n - 1 \in S => n \in S
    BY <1>4
  <2>2. \A n \in 0..L : n \in S
    BY <1>1, <1>3, <2>1, OneByOne
  <2> QED  BY <1>1, <2>2
<1>6. c = [i \in 0..L |-> IF i = 0 THEN 0 ELSE c[i - 1] + z(i)]
  BY <1>2, <1>5 DEF c
<1>7. c[0] = 0 /\ \A i \in 1..L : c[i] = c[i - 1] + z(i)
  <2>1. 0 \in 0..L /\ \A i \in 1..L : i \in 0..L /\ i # 0
    BY <1>1
  <2> QED  BY <1>6, <2>1
<1> DEFINE N == {i \in 0..L : c[i] \in Nat}
<1>8. 0 \in N /\ \A i \in 1..L : i - 1 \in N => i \in N
  BY <1>1, <1>7
<1>9. \A i \in 0..L : i \in N
  <2> HIDE DEF N
  <2> QED  BY <1>1, <1>8, OneByOne
<1> QED  BY <1>7, <1>9 DEF c, L, z

\* The sums depend on nothing but the lengths.
LEMMA SumsAgree ==
  ASSUME NEW ix \in Seq(Entries), NEW jx \in Seq(Entries), Len(ix) <= Len(jx),
         \A i \in 1..Len(ix) : ix[i].zlen = jx[i].zlen
  PROVE  \A i \in 0..Len(ix) : Sums(ix)[i] = Sums(jx)[i]
<1> DEFINE S == {i \in 0..Len(ix) : Sums(ix)[i] = Sums(jx)[i]}
<1>1. Len(ix) \in Nat /\ Len(jx) \in Nat
  OBVIOUS
<1>2. 0 \in S
  BY <1>1, SumsAre
<1>3. \A i \in 1..Len(ix) : i - 1 \in S => i \in S
  <2>1. \A i \in 1..Len(ix) : i \in 1..Len(jx)
    BY <1>1
  <2> QED  BY <1>1, <2>1, SumsAre
<1>4. \A i \in 0..Len(ix) : i \in S
  <2> HIDE DEF S
  <2> QED  BY <1>1, <1>2, <1>3, OneByOne
<1> QED  BY <1>4

-----------------------------------------------------------------------------
(* Entries and cells.                                                      *)

LEMMA EntryIs ==
  ASSUME NEW r \in Entries
  PROVE  /\ r.start \in Nat /\ r.zlen \in Nat /\ r.val \in Values /\ r.bin \in BOOLEAN
         /\ r.zlen = ZLen(r.val, r.bin) /\ r.len = PLen(r.val, r.bin)
         /\ \A at \in Nat :
               LET e == [r EXCEPT !.start = at]
               IN  /\ e \in Entries /\ e.start = at /\ e.key = r.key /\ e.val = r.val
                   /\ e.bin = r.bin /\ e.zlen = r.zlen
BY DEF Entries


LEMMA CellsAre ==
  ASSUME NEW r \in Entries
  PROVE  /\ Cells(r.key, r.val, r.bin) \in Seq(Cell)
         /\ Len(Cells(r.key, r.val, r.bin)) = r.zlen
         /\ \A k \in 1..r.zlen : Cells(r.key, r.val, r.bin)[k] =
                                    [key |-> r.key, val |-> r.val, bin |-> r.bin, at |-> k]
<1> DEFINE c(k) == [key |-> r.key, val |-> r.val, bin |-> r.bin, at |-> k]
<1>1. r.zlen \in Nat /\ r.zlen = ZLen(r.val, r.bin)
  BY DEF Entries
<1>2. Cells(r.key, r.val, r.bin) = [k \in 1..r.zlen |-> c(k)]
  BY <1>1 DEF Cells
<1>3. \A k \in 1..r.zlen : c(k) \in Cell
  BY <1>1 DEF Entries, Cell
<1> HIDE DEF c
<1>4. [k \in 1..r.zlen |-> c(k)] \in Seq(Cell) /\ Len([k \in 1..r.zlen |-> c(k)]) = r.zlen
  BY <1>1, <1>3
<1> QED  BY <1>2, <1>4 DEF c

\* A record that lies in the data is read as it was written.
LEMMA ReadsWhole ==
  ASSUME NEW r \in Entries, NEW data \in Seq(Cell), NEW at \in Nat, LiesAt(r, data, at)
  PROVE  ReadAt(data, at, r.zlen) = Cells(r.key, r.val, r.bin)
<1> DEFINE cs == SubSeq(data, at + 1, at + r.zlen)
<1>1. r.zlen \in Nat /\ Len(data) \in Nat /\ at + r.zlen <= Len(data)
  BY DEF Entries, LiesAt
<1>2. ReadAt(data, at, r.zlen) = cs
  BY <1>1 DEF ReadAt
<1>3. \A i \in (at + 1)..(at + r.zlen) : data[i] \in Cell
  BY <1>1
<1>4. /\ cs \in Seq(Cell)
      /\ Len(cs) = IF at + 1 <= at + r.zlen THEN (at + r.zlen) - (at + 1) + 1 ELSE 0
      /\ \A i \in 1..((at + r.zlen) - (at + 1) + 1) : cs[i] = data[(at + 1) + i - 1]
  BY <1>1, <1>3, SubSeqProperties
<1>5. Len(cs) = r.zlen /\ \A i \in 1..r.zlen : cs[i] = data[at + i]
  BY <1>1, <1>4
<1> DEFINE w == Cells(r.key, r.val, r.bin)
<1>6. /\ w \in Seq(Cell) /\ Len(w) = r.zlen
      /\ \A i \in 1..r.zlen : w[i] = [key |-> r.key, val |-> r.val, bin |-> r.bin, at |-> i]
  BY CellsAre
<1> HIDE DEF cs, w
<1>7. \A i \in 1..r.zlen : cs[i] = w[i]
  BY <1>5, <1>6 DEF LiesAt
<1>8. cs = w
  BY <1>4, <1>5, <1>6, <1>7, SeqEqual
<1> QED  BY <1>2, <1>8 DEF w

\* A record in two streams laid end to end is in one of them.
LEMMA LiesInOne ==
  ASSUME NEW r \in Entries, NEW d \in Seq(Cell), NEW e \in Seq(Cell), NEW at \in Nat,
         LiesAt(r, d \o e, at)
  PROVE  /\ at + r.zlen <= Len(d) => LiesAt(r, d, at)
         /\ at >= Len(d) => LiesAt(r, e, at - Len(d))
<1>1. /\ Len(d) \in Nat /\ Len(e) \in Nat /\ Len(d \o e) = Len(d) + Len(e)
      /\ \A i \in 1..(Len(d) + Len(e)) : (d \o e)[i] = IF i <= Len(d) THEN d[i] ELSE e[i - Len(d)]
  BY ConcatProperties
<1>2. r.zlen \in Nat /\ at + r.zlen <= Len(d) + Len(e)
  BY <1>1 DEF Entries, LiesAt
<1>3. \A k \in 1..r.zlen : (d \o e)[at + k] = [key |-> r.key, val |-> r.val, bin |-> r.bin, at |-> k]
  BY DEF LiesAt
<1>4. ASSUME at + r.zlen <= Len(d) PROVE LiesAt(r, d, at)
  <2>1. ASSUME NEW k \in 1..r.zlen PROVE (d \o e)[at + k] = d[at + k]
    <3>1. at + k \in 1..(Len(d) + Len(e)) /\ at + k <= Len(d)
      BY <1>1, <1>2, <1>4
    <3> QED  BY <1>1, <3>1
  <2> QED  BY <1>3, <1>4, <2>1 DEF LiesAt
<1>5. ASSUME at >= Len(d) PROVE LiesAt(r, e, at - Len(d))
  <2>1. ASSUME NEW k \in 1..r.zlen PROVE (d \o e)[at + k] = e[(at - Len(d)) + k]
    <3>1. at + k \in 1..(Len(d) + Len(e)) /\ ~(at + k <= Len(d)) /\ at + k - Len(d) = (at - Len(d)) + k
      BY <1>1, <1>2, <1>5
    <3> QED  BY <1>1, <3>1
  <2>2. at - Len(d) + r.zlen <= Len(e)
    BY <1>1, <1>2
  <2> QED  BY <1>3, <2>1, <2>2 DEF LiesAt
<1> QED  BY <1>4, <1>5

\* What follows the data does not matter to the records in it.
LEMMA LiesFirst ==
  ASSUME NEW r \in Entries, NEW d \in Seq(Cell), NEW e \in Seq(Cell), NEW at \in Nat,
         LiesAt(r, d, at)
  PROVE  LiesAt(r, d \o e, at)
<1>1. /\ Len(d) \in Nat /\ Len(e) \in Nat /\ Len(d \o e) = Len(d) + Len(e)
      /\ \A i \in 1..(Len(d) + Len(e)) : (d \o e)[i] = IF i <= Len(d) THEN d[i] ELSE e[i - Len(d)]
  BY ConcatProperties
<1>2. r.zlen \in Nat /\ at + r.zlen <= Len(d)
  BY DEF Entries, LiesAt
<1>3. ASSUME NEW k \in 1..r.zlen PROVE (d \o e)[at + k] = d[at + k]
  <2>1. at + k \in 1..(Len(d) + Len(e)) /\ at + k <= Len(d)
    BY <1>1, <1>2
  <2> QED  BY <1>1, <2>1
<1> QED  BY <1>1, <1>2, <1>3 DEF LiesAt

\* A record lies where it has been put, at the end.
LEMMA LiesLast ==
  ASSUME NEW r \in Entries, NEW d \in Seq(Cell)
  PROVE  LiesAt(r, d \o Cells(r.key, r.val, r.bin), Len(d))
<1> DEFINE cs == Cells(r.key, r.val, r.bin)
<1>1. /\ cs \in Seq(Cell) /\ Len(cs) = r.zlen /\ r.zlen \in Nat
      /\ \A k \in 1..r.zlen : cs[k] = [key |-> r.key, val |-> r.val, bin |-> r.bin, at |-> k]
  BY CellsAre DEF Entries
<1> HIDE DEF cs
<1>2. /\ Len(d) \in Nat /\ Len(d \o cs) = Len(d) + Len(cs)
      /\ \A i \in 1..(Len(d) + Len(cs)) : (d \o cs)[i] = IF i <= Len(d) THEN d[i] ELSE cs[i - Len(d)]
  BY <1>1, ConcatProperties
<1>3. ASSUME NEW k \in 1..r.zlen PROVE (d \o cs)[Len(d) + k] = cs[k]
  <2>1. Len(d) + k \in 1..(Len(d) + Len(cs)) /\ ~(Len(d) + k <= Len(d)) /\ Len(d) + k - Len(d) = k
    BY <1>1, <1>2
  <2> QED  BY <1>2, <2>1
<1>4. LiesAt(r, d \o cs, Len(d))
  BY <1>1, <1>2, <1>3 DEF LiesAt
<1> QED  BY <1>4 DEF cs

\* The offsets are not part of where the records lie.
LEMMA LiesAlike ==
  ASSUME NEW ix \in Seq(Entries), NEW jx \in Seq(Entries), Len(ix) = Len(jx),
         \A i \in 1..Len(ix) : /\ ix[i].key = jx[i].key /\ ix[i].val = jx[i].val
                               /\ ix[i].bin = jx[i].bin /\ ix[i].zlen = jx[i].zlen,
         NEW data, Lies(ix, data)
  PROVE  Lies(jx, data) /\ \A i \in 0..Len(ix) : Sums(ix)[i] = Sums(jx)[i]
<1>1. Len(ix) \in Nat /\ \A i \in 1..Len(ix) : i - 1 \in 0..Len(ix)
  OBVIOUS
<1>2. \A i \in 0..Len(ix) : Sums(ix)[i] = Sums(jx)[i]
  BY <1>1, SumsAgree
<1>3. ASSUME NEW i \in 1..Len(jx) PROVE LiesAt(jx[i], data, Sums(jx)[i - 1])
  <2>1. LiesAt(ix[i], data, Sums(jx)[i - 1])
    BY <1>1, <1>2 DEF Lies
  <2> QED  BY <2>1 DEF LiesAt
<1> QED  BY <1>1, <1>2, <1>3 DEF Lies

\* An index grows at its end.
LEMMA LiesAppended ==
  ASSUME NEW ix, NEW data, Lies(ix, data), NEW r \in Entries
  PROVE  /\ Lies(Append(ix, r), data \o Cells(r.key, r.val, r.bin))
         /\ \A i \in 0..Len(ix) : Sums(Append(ix, r))[i] = Sums(ix)[i]
<1> DEFINE jx == Append(ix, r)
           cs == Cells(r.key, r.val, r.bin)
           L  == Len(ix)
<1>1. ix \in Seq(Entries) /\ data \in Seq(Cell) /\ L \in Nat /\ Sums(ix)[L] = Len(data)
  BY DEF Lies
<1>2. /\ jx \in Seq(Entries) /\ Len(jx) = L + 1 /\ jx[L + 1] = r
      /\ \A i \in 1..L : jx[i] = ix[i]
  BY <1>1, AppendProperties
<1>3. cs \in Seq(Cell) /\ Len(cs) = r.zlen
  BY CellsAre
<1> HIDE DEF jx, cs
<1>4. data \o cs \in Seq(Cell) /\ Len(data \o cs) = Len(data) + r.zlen
  <2>1. data \o cs \in Seq(Cell) /\ Len(data \o cs) = Len(data) + Len(cs)
    BY <1>1, <1>3, ConcatProperties
  <2> QED  BY <1>3, <2>1
<1>5. \A i \in 0..L : Sums(jx)[i] = Sums(ix)[i]
  BY <1>1, <1>2, SumsAgree
<1>6. Sums(jx)[Len(jx)] = Len(data \o cs)
  <2>1. Sums(jx)[L + 1] = Sums(jx)[L] + r.zlen
    BY <1>1, <1>2, SumsAre
  <2> QED  BY <1>1, <1>2, <1>4, <1>5, <2>1
<1>7. ASSUME NEW i \in 1..Len(jx) PROVE LiesAt(jx[i], data \o cs, Sums(jx)[i - 1])
  <2>1. CASE i <= L
    <3>1. i \in 1..L /\ i - 1 \in 0..L
      BY <1>1, <2>1
    <3>2. LiesAt(ix[i], data, Sums(ix)[i - 1]) /\ ix[i] \in Entries /\ Sums(ix)[i - 1] \in Nat
      BY <1>1, <3>1, SumsAre DEF Lies
    <3> QED  BY <1>1, <1>2, <1>3, <1>5, <3>1, <3>2, LiesFirst
  <2>2. CASE i = L + 1
    <3>1. Sums(jx)[i - 1] = Len(data)
      BY <1>1, <1>5, <2>2
    <3>2. LiesAt(r, data \o cs, Len(data))
      BY <1>1, LiesLast DEF cs
    <3> QED  BY <1>2, <2>2, <3>1, <3>2
  <2> QED  BY <1>1, <1>2, <2>1, <2>2
<1> QED  BY <1>2, <1>4, <1>5, <1>6, <1>7 DEF Lies, jx, cs


-----------------------------------------------------------------------------
(* The index on disk and in memory.                                        *)

LEMMA OnDiskIs ==
  ASSUME NEW ix \in Seq(Entries)
  PROVE  /\ OnDisk(ix) \in Seq(Entries) /\ Len(OnDisk(ix)) = Len(ix)
         /\ \A i \in 1..Len(ix) :
               /\ OnDisk(ix)[i].key = ix[i].key /\ OnDisk(ix)[i].val = ix[i].val
               /\ OnDisk(ix)[i].bin = ix[i].bin /\ OnDisk(ix)[i].zlen = ix[i].zlen
<1> DEFINE e(i) == [ix[i] EXCEPT !.start = 0]
<1>1. \A i \in 1..Len(ix) :
         /\ e(i) \in Entries /\ e(i).key = ix[i].key /\ e(i).val = ix[i].val
         /\ e(i).bin = ix[i].bin /\ e(i).zlen = ix[i].zlen
  <2> SUFFICES ASSUME NEW i \in 1..Len(ix), NEW r, r = ix[i], NEW d, d = [r EXCEPT !.start = 0]
               PROVE  /\ d \in Entries /\ d.key = r.key /\ d.val = r.val
                      /\ d.bin = r.bin /\ d.zlen = r.zlen
    OBVIOUS
  <2>1. r \in Entries /\ 0 \in Nat
    OBVIOUS
  <2> QED  BY <2>1, EntryIs
<1>2. OnDisk(ix) = [i \in 1..Len(ix) |-> e(i)]
  BY DEF OnDisk
<1> HIDE DEF e
<1>3. [i \in 1..Len(ix) |-> e(i)] \in Seq(Entries) /\ Len([i \in 1..Len(ix) |-> e(i)]) = Len(ix)
  BY <1>1
<1> QED  BY <1>1, <1>2, <1>3

\* An index that has been loaded is in place, if the file is in order.
LEMMA LoadIndexIs ==
  ASSUME NEW f, Lies(f.index, f.data)
  PROVE  LET ix == LoadIndex(f)
         IN  /\ IndexLoads(f)
             /\ ix \in Seq(Entries) /\ Len(ix) = Len(f.index)
             /\ \A i \in 1..Len(ix) : ix[i].key = f.index[i].key /\ ix[i].bin = f.index[i].bin
             /\ Lies(ix, f.data) /\ Placed(ix, HeaderLen(f.index))
<1> DEFINE fx == f.index
           at(i) == HeaderLen(fx) + Sums(fx)[i - 1]
           e(i) == [fx[i] EXCEPT !.start = at(i)]
           ix == LoadIndex(f)
<1>1. fx \in Seq(Entries) /\ Len(fx) \in Nat /\ Sums(fx)[Len(fx)] = Len(f.data)
  BY DEF Lies
<1>2. ix = [i \in 1..Len(fx) |-> e(i)]
  BY DEF LoadIndex
<1> HIDE DEF fx
<1>3. \A i \in 1..Len(fx) : at(i) \in Nat
  <2>1. \A i \in 1..Len(fx) : i - 1 \in 0..Len(fx)
    BY <1>1
  <2> QED  BY <1>1, <2>1, SumsAre DEF HeaderLen
<1> HIDE DEF at
<1>4. \A i \in 1..Len(fx) :
         /\ e(i) \in Entries /\ e(i).key = fx[i].key /\ e(i).val = fx[i].val
         /\ e(i).bin = fx[i].bin /\ e(i).zlen = fx[i].zlen /\ e(i).start = at(i)
  BY <1>1, <1>3, EntryIs
<1> HIDE DEF e, ix
<1>5. ix \in Seq(Entries) /\ Len(ix) = Len(fx) /\ \A i \in 1..Len(fx) : ix[i] = e(i)
  BY <1>1, <1>2, <1>4
<1>6. \A i \in 1..Len(fx) : /\ fx[i].key = ix[i].key /\ fx[i].val = ix[i].val
                            /\ fx[i].bin = ix[i].bin /\ fx[i].zlen = ix[i].zlen
  BY <1>4, <1>5
<1>7. Lies(ix, f.data) /\ \A i \in 0..Len(fx) : Sums(fx)[i] = Sums(ix)[i]
  <2>1. Lies(fx, f.data)
    BY DEF fx
  <2> QED  BY <1>1, <1>5, <1>6, <2>1, LiesAlike
<1>8. Placed(ix, HeaderLen(fx))
  <2>1. \A i \in 1..Len(ix) : i \in 1..Len(fx) /\ i - 1 \in 0..Len(fx)
    BY <1>1, <1>5
  <2> QED  BY <1>4, <1>5, <1>7, <2>1 DEF Placed, at
<1>9. IndexLoads(f)
  BY <1>1 DEF IndexLoads, SumZLen, fx
<1> QED  BY <1>5, <1>6, <1>7, <1>8, <1>9 DEF ix, fx

-----------------------------------------------------------------------------
(* The index of a session and its streams.                                 *)

LEMMA IndexSame ==
  ASSUME IndexOK, index' = index, bin' = bin, base'.data = base.data, base'.hlen = base.hlen,
         tmp'.data = tmp.data, tmp'.len = tmp.len
  PROVE  IndexOK'
BY DEF IndexOK, InBase, BaseLen

\* An entry is in the stream that its offset says, in full.
LEMMA EntryLies ==
  ASSUME Typed, IndexOK, NEW i \in 1..Len(index)
  PROVE  LET r == index[i]
         IN  /\ r \in Entries /\ r.bin = bin /\ BaseLen \in Nat /\ base.hlen <= r.start
             /\ InBase(r) => /\ r.start + r.zlen <= BaseLen
                             /\ LiesAt(r, base.data, r.start - base.hlen)
             /\ ~InBase(r) => r.start >= BaseLen /\ LiesAt(r, tmp.data, r.start - BaseLen)
<1> DEFINE r == index[i]
           at == Sums(index)[i - 1]
<1>1. r \in Entries /\ r.start \in Nat /\ r.zlen \in Nat /\ Len(index) \in Nat /\ i - 1 \in 0..Len(index)
  <2>1. index \in Seq(Entries) /\ Len(index) \in Nat
    BY DEF Typed
  <2>2. r \in Entries /\ i - 1 \in 0..Len(index)
    BY <2>1
  <2> HIDE DEF r
  <2> QED  BY <2>1, <2>2, EntryIs
<1>2. at \in Nat
  BY <1>1, SumsAre DEF Typed
<1>3. r.start = base.hlen + at /\ LiesAt(r, base.data \o tmp.data, at) /\ r.bin = bin
  BY DEF IndexOK, Placed, Lies
<1>4. /\ base.data \in Seq(Cell) /\ tmp.data \in Seq(Cell) /\ base.hlen \in Nat
      /\ Len(base.data) \in Nat /\ BaseLen = base.hlen + Len(base.data)
  BY DEF Typed, BaseLen
<1>5. InBase(r) <=> r.start < BaseLen
  BY DEF InBase
<1>6. InBase(r) => r.start + r.zlen <= BaseLen
  BY DEF IndexOK
<1> HIDE DEF r, at
<1>7. /\ at + r.zlen <= Len(base.data) => LiesAt(r, base.data, at)
      /\ at >= Len(base.data) => LiesAt(r, tmp.data, at - Len(base.data))
  BY <1>1, <1>2, <1>3, <1>4, LiesInOne
<1>8. PICK s, z, h, d, b : s = r.start /\ z = r.zlen /\ h = base.hlen /\ d = Len(base.data) /\ b = BaseLen
  OBVIOUS
<1>9. s \in Nat /\ z \in Nat /\ h \in Nat /\ d \in Nat /\ s = h + at /\ b = h + d
  BY <1>1, <1>3, <1>4, <1>8
<1>10. /\ s - h = at /\ s - b = at - d /\ b \in Nat /\ h <= s
       /\ s + z <= b <=> at + z <= d
       /\ s < b <=> ~(at >= d)
       /\ s >= b <=> at >= d
  BY <1>2, <1>9
<1> QED  BY <1>1, <1>3, <1>5, <1>6, <1>7, <1>8, <1>10 DEF r

\* A stream has been read for an entry, up to an end.
ReadDone(read, f, r, end) ==
    /\ read.cells = Cells(r.key, r.val, r.bin) /\ read.n = r.zlen
    /\ read.after = [f EXCEPT !.pos = end]

\* What is read for an entry, from a stream that stands where its position says.
LEMMA ReadFromIs ==
  ASSUME NEW r \in Entries, r.bin = bin, NEW f, f.pos = f.next, NEW start \in Nat,
         NEW off \in Nat, off <= start, f.data \in Seq(Cell), LiesAt(r, f.data, start - off)
  PROVE  ReadDone(ReadFrom(f, start, off, r), f, r, start + r.zlen)
<1>1. (IF bin THEN r.len ELSE r.zlen) = r.zlen
  BY DEF Entries, ZLen, PLen
<1>2. (IF start # f.next THEN start ELSE f.pos) = start
  OBVIOUS
<1>3. ReadAt(f.data, start - off, r.zlen) = Cells(r.key, r.val, r.bin)
  BY ReadsWhole
<1>4. ReadFrom(f, start, off, r) =
         [cells |-> ReadAt(f.data, start - off, r.zlen), n |-> r.zlen,
          after |-> [f EXCEPT !.pos = start + r.zlen]]
  BY <1>1, <1>2, Zenon DEF ReadFrom
<1> QED  BY <1>3, <1>4 DEF ReadDone

\* It is readable.
LEMMA ReadableIs ==
  ASSUME NEW r \in Entries, NEW b \in BOOLEAN, r.bin = b, r.zlen # 0
  PROVE  /\ Readable(Cells(r.key, r.val, r.bin), r.zlen, r.len, b)
         /\ Cells(r.key, r.val, r.bin)[1].val = r.val
<1> DEFINE cs == Cells(r.key, r.val, r.bin)
<1>1. Len(cs) = r.zlen /\ r.zlen \in Nat
      /\ \A k \in 1..r.zlen : cs[k] = [key |-> r.key, val |-> r.val, bin |-> r.bin, at |-> k]
  BY CellsAre DEF Entries
<1>2. 1 \in 1..r.zlen /\ r.zlen > 0
  BY <1>1
<1> HIDE DEF cs
<1>3. cs[1].key = r.key /\ cs[1].val = r.val
  <2>1. cs[1] = [key |-> r.key, val |-> r.val, bin |-> r.bin, at |-> 1]
    BY <1>1, <1>2
  <2> QED  BY <2>1
<1>4. CASE b
  BY <1>1, <1>3, <1>4 DEF Readable, cs
<1>5. CASE ~b
  <2>1. cs = Cells(cs[1].key, cs[1].val, FALSE)
    BY <1>3, <1>5 DEF cs
  <2>2. r.len = cs[1].val.l
    BY <1>3, <1>5 DEF Entries, PLen
  <2> QED  BY <1>1, <1>2, <1>3, <2>1, <2>2 DEF Readable, cs
<1> QED  BY <1>4, <1>5

-----------------------------------------------------------------------------
(* The steps.                                                              *)

LEMMA NothingLies ==
  Lies(<<>>, <<>>) /\ \A h : Placed(<<>>, h)
<1>1. PICK ix : ix = <<>>
  OBVIOUS
<1>2. PICK d : d = <<>>
  OBVIOUS
<1>3. ix \in Seq(Entries) /\ Len(ix) = 0 /\ d \in Seq(Cell) /\ Len(d) = 0
  BY <1>1, <1>2
<1>4. Sums(ix)[0] = 0
  BY <1>3, SumsAre
<1>5. Lies(ix, d) /\ \A h : Placed(ix, h)
  BY <1>3, <1>4 DEF Lies, Placed
<1> QED  BY <1>1, <1>2, <1>5

LEMMA Initially == Init => IInv
<1> SUFFICES ASSUME Init PROVE IInv
  OBVIOUS
<1>1. /\ <<>> \in Seq(Entries) /\ <<>> \in Seq(Cell) /\ <<>> \in Seq(AddCall \cup FetchCall)
      /\ Len(<<>>) = 0
  OBVIOUS
<1>2. /\ NoFile \in [index : Seq(Entries), data : Seq(Cell), exists : BOOLEAN]
      /\ NoFile.index = <<>> /\ NoFile.data = <<>>
      /\ NoBase \in [data : Seq(Cell), hlen : Nat, pos : Nat, next : Nat]
      /\ NoTmp \in [data : Seq(Cell), len : Nat, pos : Nat, next : Nat]
  BY <1>1 DEF NoFile, NoBase, NoTmp
<1>3. Typed
  <2>1. last \in 0..Len(index)
    BY <1>1 DEF Init
  <2>2. /\ file \in [index : Seq(Entries), data : Seq(Cell), exists : BOOLEAN]
        /\ base \in [data : Seq(Cell), hlen : Nat, pos : Nat, next : Nat]
        /\ tmp \in [data : Seq(Cell), len : Nat, pos : Nat, next : Nat]
    BY <1>2 DEF Init
  <2>3. index \in Seq(Entries) /\ calls \in Seq(AddCall \cup FetchCall)
    BY <1>1 DEF Init
  <2> QED  BY <2>1, <2>2, <2>3 DEF Init, Typed
<1>4. FileOK
  BY <1>1, <1>2, NothingLies DEF Init, FileOK
<1> QED  BY <1>3, <1>4 DEF Init, IInv

\* The database opened is read from a file in order, or starts empty.
LEMMA OpenKeeps ==
  ASSUME Regular, IInv, NEW m \in {"r", "w", "c"}, NEW b \in BOOLEAN, Open(m, b)
  PROVE  IInv'
<1>1. /\ st = "closed" /\ calls' = calls /\ bin' = b /\ last' = 0 /\ got' = <<>> /\ tmp' = NoTmp
      /\ file' = file /\ calls = <<>> /\ Typed /\ FileOK
      /\ m = "c" \/ \A i \in 1..Len(file.index) : file.index[i].bin = b
  BY DEF Open, IInv, Typed, Regular
<1>2. <<>> \in Seq(Entries) /\ <<>> \in Seq(Cell) /\ Len(<<>>) = 0
  OBVIOUS
<1>3. NoTmp \in [data : Seq(Cell), len : Nat, pos : Nat, next : Nat]
      /\ NoTmp.data = <<>> /\ NoTmp.len = 0 /\ NoTmp.pos = NoTmp.next /\ NoTmp.next = 0
  BY <1>2 DEF NoTmp
<1>4. FileOK'
  BY <1>1 DEF FileOK
<1>5. CASE m # "c" /\ file.exists
  <2> DEFINE h == HeaderLen(file.index)
             B == [data |-> file.data, hlen |-> h, pos |-> h, next |-> h]
             ix == LoadIndex(file)
  <2>1. mode' = m /\ st' = (IF IndexLoads(file) THEN "open" ELSE "error") /\ index' = ix /\ base' = B
    BY <1>5 DEF Open
  <2>2. /\ IndexLoads(file) /\ ix \in Seq(Entries) /\ Len(ix) = Len(file.index)
        /\ \A i \in 1..Len(ix) : ix[i].key = file.index[i].key /\ ix[i].bin = file.index[i].bin
        /\ Lies(ix, file.data) /\ Placed(ix, h)
    BY <1>1, LoadIndexIs DEF FileOK
  <2>3. file.data \in Seq(Cell) /\ file.index \in Seq(Entries) /\ Len(file.data) \in Nat
    BY <1>1 DEF Typed
  <2>4. h \in Nat
    BY <2>3 DEF HeaderLen
  <2> HIDE DEF h, ix
  <2>5. /\ B \in [data : Seq(Cell), hlen : Nat, pos : Nat, next : Nat]
        /\ B.data = file.data /\ B.hlen = h /\ B.pos = B.next
    BY <2>3, <2>4
  <2> HIDE DEF B
  <2>6. Typed'
    BY <1>1, <1>3, <2>1, <2>2, <2>5 DEF Typed
  <2>7. base'.data \o tmp'.data = file.data /\ base'.hlen = h
    BY <1>1, <1>3, <2>1, <2>3, <2>5, ConcatEmptySeq
  <2>8. ASSUME NEW i \in 1..Len(ix) PROVE ix[i].start + ix[i].zlen <= h + Len(file.data)
    <3>1. LiesAt(ix[i], file.data, Sums(ix)[i - 1]) /\ ix[i].start = h + Sums(ix)[i - 1]
      BY <2>2 DEF Lies, Placed
    <3>2. i - 1 \in 0..Len(ix) /\ ix[i] \in Entries
      BY <2>2
    <3>3. Sums(ix)[i - 1] \in Nat /\ ix[i].zlen \in Nat
      BY <2>2, <3>2, SumsAre, EntryIs
    <3>4. PICK s, z, at, d : s = ix[i].start /\ z = ix[i].zlen /\ at = Sums(ix)[i - 1] /\ d = Len(file.data)
      OBVIOUS
    <3>5. s = h + at /\ at + z <= d
      BY <3>1, <3>4 DEF LiesAt
    <3>6. s \in Nat /\ z \in Nat /\ at \in Nat /\ d \in Nat
      BY <2>3, <2>4, <3>3, <3>4, <3>5
    <3>7. s + z <= h + d
      BY <2>4, <3>5, <3>6
    <3> QED  BY <3>4, <3>7
  <2>9. IndexOK'
    <3>1. Lies(index', base'.data \o tmp'.data) /\ Placed(index', base'.hlen)
      BY <2>1, <2>2, <2>7
    <3>2. \A i \in 1..Len(index') : index'[i].start + index'[i].zlen <= base'.hlen + Len(base'.data)
      BY <2>1, <2>5, <2>8
    <3>3. \A i \in 1..Len(index') : index'[i].bin = bin'
      BY <1>1, <1>5, <2>1, <2>2
    <3>4. tmp'.len = Len(tmp'.data)
      BY <1>1, <1>2, <1>3
    <3> QED  BY <3>1, <3>2, <3>3, <3>4 DEF IndexOK, BaseLen
  <2>10. Positions' /\ Additions'
    BY <1>1, <1>3, <1>5, <2>1, <2>5 DEF Positions, Additions, ix
  <2> QED  BY <1>4, <2>6, <2>9, <2>10 DEF IInv
<1>6. CASE ~(m # "c" /\ file.exists)
  <2>1. mode' = (IF m = "w" THEN "c" ELSE m) /\ st' = "open" /\ index' = <<>> /\ base' = NoBase
    BY <1>6 DEF Open
  <2>2. /\ NoBase \in [data : Seq(Cell), hlen : Nat, pos : Nat, next : Nat]
        /\ NoBase.data = <<>> /\ NoBase.hlen = 0 /\ NoBase.pos = NoBase.next
    BY <1>2 DEF NoBase
  <2>3. Typed'
    BY <1>1, <1>2, <1>3, <2>1, <2>2 DEF Typed
  <2>4. base'.data \o tmp'.data = <<>>
    BY <1>1, <1>2, <1>3, <2>1, <2>2, ConcatEmptySeq
  <2>5. Lies(<<>>, <<>>) /\ Placed(<<>>, 0)
    BY NothingLies
  <2>6. IndexOK'
    <3>1. Lies(index', base'.data \o tmp'.data) /\ Placed(index', base'.hlen)
      BY <2>1, <2>2, <2>4, <2>5
    <3> QED  BY <1>1, <1>2, <1>3, <2>1, <3>1 DEF IndexOK
  <2>7. Positions' /\ Additions'
    BY <1>1, <1>3, <2>1, <2>2 DEF Positions, Additions
  <2> QED  BY <1>4, <2>3, <2>6, <2>7 DEF IInv
<1> QED  BY <1>5, <1>6

\* A look that finds the key remembers where.
LEMMA FindKeeps ==
  ASSUME Regular, IInv, NEW k \in Keys, Find(k)
  PROVE  IInv'
<1>1. /\ st = "open" /\ "exists" \in Allowed
      /\ last' = (IF Lookup(k) = {} THEN 0 ELSE CHOOSE i \in Lookup(k) : TRUE)
      /\ UNCHANGED <<file, st, mode, bin, index, base, tmp, got, calls>>
      /\ Typed /\ FileOK /\ IndexOK /\ Positions /\ Additions
  BY DEF Find, May, IInv
<1>2. last' \in 0..Len(index')
  <2>1. Len(index) \in Nat
    BY <1>1 DEF Typed
  <2>2. \A i \in Lookup(k) : i \in 1..Len(index)
    BY DEF Lookup
  <2> QED  BY <1>1, <2>1, <2>2
<1>3. Typed' /\ FileOK' /\ Additions'
  BY <1>1, <1>2 DEF Typed, FileOK, Additions
<1>4. IndexOK'
  BY <1>1, IndexSame
<1>5. ~(Len(calls) = 1 /\ calls[1].op = "fetch")
  <2> SUFFICES ASSUME Len(calls) = 1, calls[1].op = "fetch" PROVE FALSE
    OBVIOUS
  <2>1. calls # <<>> /\ Last(calls).op = "fetch"
    BY DEF Last
  <2>2. <<"fetch", "exists">> \in Nested
    BY <1>1, <2>1, Zenon DEF Allowed
  <2> QED  BY <2>2 DEF Regular
<1>6. Positions'
  BY <1>1, <1>5 DEF Positions
<1> QED  BY <1>3, <1>4, <1>6 DEF IInv

\* A fetch that has nothing to read.
LEMMA FetchNothingKeeps ==
  ASSUME IInv, FetchNothing
  PROVE  IInv'
<1>1. /\ UNCHANGED <<file, st, mode, bin, index, base, tmp, last, calls>> /\ st = "open"
      /\ Typed /\ FileOK /\ IndexOK /\ Positions /\ Additions
  BY DEF FetchNothing, May, IInv
<1>2. Typed' /\ FileOK' /\ Additions' /\ IndexOK'
  BY <1>1, IndexSame DEF Typed, FileOK, Additions
<1>3. Positions'
  BY <1>1 DEF Positions, Reading, InBase, BaseLen
<1> QED  BY <1>2, <1>3 DEF IInv

\* With no call in progress, or in an add, a call may come, but not a fetch.
LEMMA CallsAre ==
  ASSUME Regular, Typed, Positions, NEW op \in Allowed
  PROVE  \/ calls = <<>>
         \/ /\ op # "fetch" /\ calls # <<>> /\ \A i \in 1..Len(calls) : calls[i].op = "add"
            /\ tmp.pos = tmp.len /\ base.pos = base.next
<1> SUFFICES ASSUME calls # <<>>
             PROVE  /\ op # "fetch" /\ \A i \in 1..Len(calls) : calls[i].op = "add"
                    /\ tmp.pos = tmp.len /\ base.pos = base.next
  OBVIOUS
<1>1. <<Last(calls).op, op>> \in Nested
  BY Zenon DEF Allowed
<1>2. Last(calls).op = "add" /\ op # "fetch"
  BY <1>1 DEF Regular
<1>3. ~(Len(calls) = 1 /\ calls[1].op = "fetch")
  BY <1>2 DEF Last
<1> QED  BY <1>2, <1>3 DEF Positions

\* What a fetch reads, and where it leaves the stream.
LEMMA BeginFetchReads ==
  ASSUME Typed, IndexOK, BeginFetch, tmp.pos = tmp.next, base.pos = base.next,
         NEW r, r = index[last], last \in 1..Len(index), r.zlen # 0
  PROVE  /\ \E code \in BOOLEAN :
               calls' = Append(calls, [op |-> "fetch", rec |-> r, code |-> code,
                                       cells |-> Cells(r.key, r.val, r.bin)])
         /\ st' = st
         /\ InBase(r) => base' = [base EXCEPT !.pos = r.start + r.zlen] /\ tmp' = tmp
         /\ ~InBase(r) => /\ tmp' = [tmp EXCEPT !.pos = (r.start - BaseLen) + r.zlen]
                          /\ base' = base
<1> DEFINE read == IF InBase(r) THEN ReadFrom(base, LastStart, base.hlen, r)
                   ELSE ReadFrom(tmp, LastStart, 0, r)
           code == ~bin /\ read.cells[1].val.code
<1>1. /\ r \in Entries /\ r.bin = bin /\ BaseLen \in Nat /\ base.hlen <= r.start
      /\ InBase(r) => LiesAt(r, base.data, r.start - base.hlen)
      /\ ~InBase(r) => r.start >= BaseLen /\ LiesAt(r, tmp.data, r.start - BaseLen)
  BY EntryLies
<1>2. LastStart = r.start - (IF InBase(r) THEN 0 ELSE BaseLen)
  BY DEF LastStart
<1>3. IF Readable(read.cells, read.n, r.len, bin)
      THEN /\ calls' = Append(calls, [op |-> "fetch", rec |-> r, cells |-> read.cells, code |-> code])
           /\ base' = (IF InBase(r) THEN read.after ELSE base)
           /\ tmp' = (IF InBase(r) THEN tmp ELSE read.after)
           /\ UNCHANGED <<st, got>>
      ELSE /\ got' = <<>> /\ st' = "error" /\ calls' = <<>>
           /\ UNCHANGED <<base, tmp>>
  BY DEF BeginFetch
<1>4. r.start \in Nat /\ r.zlen \in Nat
  BY <1>1, EntryIs
<1>5. /\ base.hlen \in Nat /\ base.data \in Seq(Cell) /\ tmp.data \in Seq(Cell) /\ 0 \in Nat
      /\ bin \in BOOLEAN
  BY DEF Typed
<1>6. /\ read.cells = Cells(r.key, r.val, r.bin) /\ read.n = r.zlen
      /\ InBase(r) => read.after = [base EXCEPT !.pos = r.start + r.zlen]
      /\ ~InBase(r) => read.after = [tmp EXCEPT !.pos = (r.start - BaseLen) + r.zlen]
  <2>1. CASE InBase(r)
    <3>1. LastStart = r.start
      BY <1>2, <1>4, <2>1
    <3>2. read = ReadFrom(base, r.start, base.hlen, r)
      BY <2>1, <3>1
    <3>3. LiesAt(r, base.data, r.start - base.hlen) /\ base.hlen <= r.start
      BY <1>1, <2>1
    <3> HIDE DEF read
    <3>4. ReadDone(ReadFrom(base, r.start, base.hlen, r), base, r, r.start + r.zlen)
      BY <1>1, <1>4, <1>5, <3>3, ReadFromIs
    <3> QED  BY <2>1, <3>2, <3>4 DEF ReadDone
  <2>2. CASE ~InBase(r)
    <3> DEFINE s == r.start - BaseLen
    <3>1. LastStart = s
      BY <1>2, <1>4, <2>2
    <3>2. read = ReadFrom(tmp, s, 0, r)
      BY <2>2, <3>1
    <3>3. s \in Nat /\ 0 <= s /\ s - 0 = s
      BY <1>1, <1>4, <2>2
    <3>4. LiesAt(r, tmp.data, s)
      BY <1>1, <2>2
    <3> HIDE DEF read, s
    <3>5. LiesAt(r, tmp.data, s - 0)
      BY <3>3, <3>4
    <3>6. ReadDone(ReadFrom(tmp, s, 0, r), tmp, r, s + r.zlen)
      BY <1>1, <1>5, <3>3, <3>5, ReadFromIs
    <3> QED  BY <2>2, <3>2, <3>6 DEF ReadDone, s
  <2> QED  BY <2>1, <2>2
<1> HIDE DEF read
<1>7. Readable(read.cells, read.n, r.len, bin)
  BY <1>1, <1>5, <1>6, ReadableIs
<1>8. code \in BOOLEAN
  OBVIOUS
<1> HIDE DEF code
<1>9. /\ calls' = Append(calls, [op |-> "fetch", rec |-> r, cells |-> read.cells, code |-> code])
      /\ base' = (IF InBase(r) THEN read.after ELSE base)
      /\ tmp' = (IF InBase(r) THEN tmp ELSE read.after)
      /\ st' = st
  BY <1>3, <1>7
<1> QED  BY <1>6, <1>8, <1>9

\* A record is read, and its object is awake.
LEMMA BeginFetchKeeps ==
  ASSUME Regular, IInv, BeginFetch
  PROVE  IInv'
<1>1. /\ st = "open" /\ "fetch" \in Allowed /\ LastZLen # 0
      /\ UNCHANGED <<file, mode, bin, index, last>>
      /\ Typed /\ FileOK /\ IndexOK /\ Positions /\ Additions
  BY DEF BeginFetch, May, IInv
<1>2. calls = <<>> /\ tmp.pos = tmp.next /\ base.pos = base.next
  <2>1. calls = <<>>
    BY <1>1, CallsAre
  <2>2. Len(calls) # 1
    BY <2>1
  <2> QED  BY <1>1, <2>1, <2>2 DEF Positions
<1>3. PICK r : r = index[last]
  OBVIOUS
<1>4. last \in 1..Len(index) /\ last # 0 /\ r.zlen # 0
  <2>1. last # 0
    BY <1>1 DEF LastZLen
  <2>2. last \in 0..Len(index) /\ Len(index) \in Nat
    BY <1>1 DEF Typed
  <2> QED  BY <1>1, <1>3, <2>1, <2>2 DEF LastZLen
<1>5. /\ r \in Entries /\ r.bin = bin /\ BaseLen \in Nat
      /\ ~InBase(r) => r.start >= BaseLen
  BY <1>1, <1>3, <1>4, EntryLies
<1>6. r.start \in Nat /\ r.zlen \in Nat
  BY <1>5, EntryIs
<1>7. PICK code \in BOOLEAN :
         /\ calls' = Append(calls, [op |-> "fetch", rec |-> r, code |-> code,
                                    cells |-> Cells(r.key, r.val, r.bin)])
         /\ st' = st
         /\ InBase(r) => base' = [base EXCEPT !.pos = r.start + r.zlen] /\ tmp' = tmp
         /\ ~InBase(r) => /\ tmp' = [tmp EXCEPT !.pos = (r.start - BaseLen) + r.zlen]
                          /\ base' = base
  BY <1>1, <1>2, <1>3, <1>4, BeginFetchReads
<1>8. PICK call : call = [op |-> "fetch", rec |-> r, code |-> code, cells |-> Cells(r.key, r.val, r.bin)]
  OBVIOUS
<1>9. PICK end : end = IF InBase(r) THEN r.start + r.zlen ELSE (r.start - BaseLen) + r.zlen
  OBVIOUS
<1>10. end \in Nat /\ (InBase(r) => end = r.start + r.zlen) /\ (~InBase(r) => end + BaseLen = r.start + r.zlen)
  BY <1>5, <1>6, <1>9
<1>11. /\ base' \in [data : Seq(Cell), hlen : Nat, pos : Nat, next : Nat]
       /\ base'.data = base.data /\ base'.hlen = base.hlen
       /\ InBase(r) => base'.pos = end
       /\ ~InBase(r) => base' = base
  <2>1. base' = IF InBase(r) THEN [base EXCEPT !.pos = end] ELSE base
    BY <1>7, <1>9
  <2> QED  BY <1>1, <1>10, <2>1 DEF Typed
<1>12. /\ tmp' \in [data : Seq(Cell), len : Nat, pos : Nat, next : Nat]
       /\ tmp'.data = tmp.data /\ tmp'.len = tmp.len /\ tmp'.next = tmp.next
       /\ InBase(r) => tmp' = tmp
       /\ ~InBase(r) => tmp'.pos = end
  <2>1. tmp' = IF InBase(r) THEN tmp ELSE [tmp EXCEPT !.pos = end]
    BY <1>7, <1>9
  <2> QED  BY <1>1, <1>10, <2>1 DEF Typed
<1>13. /\ call \in FetchCall /\ call.op = "fetch" /\ call.rec = r
       /\ call.cells = Cells(r.key, r.val, r.bin)
  <2>1. Cells(r.key, r.val, r.bin) \in Seq(Cell)
    BY <1>5, CellsAre
  <2> QED  BY <1>5, <1>8, <2>1 DEF FetchCall
<1>14. calls' = <<call>>
  BY <1>2, <1>7, <1>8
<1>15. Typed'
  <2>1. calls' \in Seq(AddCall \cup FetchCall)
    BY <1>13, <1>14
  <2> QED  BY <1>1, <1>7, <1>11, <1>12, <2>1 DEF Typed
<1>16. IndexOK'
  BY <1>1, <1>11, <1>12, IndexSame
<1>17. Positions'
  <2>1. Len(calls') = 1 /\ calls'[1] = call
    BY <1>14
  <2>2. BaseLen' = BaseLen /\ (InBase(r)' <=> InBase(r))
    BY <1>1, <1>11 DEF BaseLen, InBase
  <2>3. Reading(call)'
    BY <1>1, <1>2, <1>3, <1>4, <1>10, <1>11, <1>12, <1>13, <2>2 DEF Reading
  <2> QED  BY <1>13, <2>1, <2>3 DEF Positions
<1>18. FileOK' /\ Additions'
  BY <1>1, <1>12 DEF FileOK, Additions
<1> QED  BY <1>1, <1>15, <1>16, <1>17, <1>18 DEF IInv

\* The call in progress ends, and leaves those it came from.
LEMMA CallEnds ==
  ASSUME Typed, calls # <<>>
  PROVE  /\ Len(calls) \in Nat /\ Len(calls) >= 1 /\ Last(calls) = calls[Len(calls)]
         /\ Last(calls) \in AddCall \cup FetchCall
         /\ Front(calls) \in Seq(AddCall \cup FetchCall) /\ Len(Front(calls)) = Len(calls) - 1
         /\ \A i \in 1..Len(Front(calls)) : Front(calls)[i] = calls[i]
<1>1. PICK c : c = calls
  OBVIOUS
<1>2. c \in Seq(AddCall \cup FetchCall) /\ c # <<>>
  BY <1>1 DEF Typed
<1>3. Len(c) \in Nat /\ Len(c) >= 1
  BY <1>2
<1>4. \A i \in 1..(Len(c) - 1) : c[i] \in AddCall \cup FetchCall
  BY <1>2, <1>3
<1>5. Len(c) - 1 \in Int /\ 1 \in Int
  BY <1>3
<1> DEFINE f == SubSeq(c, 1, Len(c) - 1)
<1>6. /\ f \in Seq(AddCall \cup FetchCall)
      /\ Len(f) = IF 1 <= Len(c) - 1 THEN (Len(c) - 1) - 1 + 1 ELSE 0
      /\ \A i \in 1..((Len(c) - 1) - 1 + 1) : f[i] = c[1 + i - 1]
  BY <1>4, <1>5, SubSeqProperties
<1> HIDE DEF f
<1>7. Len(f) = Len(c) - 1 /\ \A i \in 1..Len(f) : f[i] = c[i]
  <2>1. PICK n : n = Len(c) - 1
    OBVIOUS
  <2>2. n \in Nat /\ n - 1 + 1 = n /\ \A i \in 1..n : 1 + i - 1 = i
    BY <1>3, <2>1
  <2>3. Len(f) = n
    BY <1>6, <2>1, <2>2
  <2>4. \A i \in 1..n : f[i] = c[1 + i - 1]
    BY <1>6, <2>1, <2>2
  <2> QED  BY <2>1, <2>2, <2>3, <2>4
<1>8. c[Len(c)] \in AddCall \cup FetchCall
  BY <1>2, <1>3
<1> QED  BY <1>1, <1>3, <1>6, <1>7, <1>8 DEF Front, Last, f

\* A fetch leaves the stream where its cached position says.
LEMMA EndFetchKeeps ==
  ASSUME IInv, EndFetch
  PROVE  IInv'
<1>1. /\ calls # <<>> /\ Last(calls).op = "fetch"
      /\ calls' = Front(calls) /\ UNCHANGED <<file, st, mode, bin, index, last>>
      /\ Typed /\ FileOK
  BY DEF EndFetch, IInv
<1>2. st = "open" /\ IndexOK /\ Positions /\ Additions
  BY <1>1 DEF IInv, Typed
<1>3. /\ Len(calls) \in Nat /\ Len(calls) >= 1 /\ Last(calls) = calls[Len(calls)]
      /\ Front(calls) \in Seq(AddCall \cup FetchCall) /\ Len(Front(calls)) = Len(calls) - 1
  BY <1>1, CallEnds
<1>4. Len(calls) = 1 /\ Reading(Last(calls))
  <2>1. calls[Len(calls)].op # "add" /\ Len(calls) \in 1..Len(calls)
    BY <1>1, <1>3
  <2> QED  BY <1>1, <1>2, <1>3, <2>1 DEF Positions
<1>5. PICK r : r = Last(calls).rec
  OBVIOUS
<1>6. /\ last # 0 /\ r = index[last] /\ r.zlen # 0
      /\ IF InBase(r) THEN base.pos = r.start + r.zlen /\ tmp.pos = tmp.next
         ELSE tmp.pos + BaseLen = r.start + r.zlen /\ base.pos = base.next
  BY <1>4, <1>5 DEF Reading
<1>7. last \in 1..Len(index)
  BY <1>1, <1>6 DEF Typed
<1>8. /\ r \in Entries /\ BaseLen \in Nat
      /\ ~InBase(r) => r.start >= BaseLen
  BY <1>1, <1>2, <1>6, <1>7, EntryLies
<1>9. r.start \in Nat /\ r.zlen \in Nat
  BY <1>8, EntryIs
<1>10. PICK next : next = LastStart + r.zlen
  OBVIOUS
<1>11. /\ base' = (IF InBase(r) THEN [base EXCEPT !.next = next] ELSE base)
       /\ tmp' = (IF InBase(r) THEN tmp ELSE [tmp EXCEPT !.next = next])
  BY <1>5, <1>10 DEF EndFetch
<1>12. /\ base \in [data : Seq(Cell), hlen : Nat, pos : Nat, next : Nat]
       /\ tmp \in [data : Seq(Cell), len : Nat, pos : Nat, next : Nat]
  BY <1>1 DEF Typed
<1>13. next \in Nat /\ next > 0 /\ (InBase(r) => base.pos = next) /\ (~InBase(r) => tmp.pos = next)
  <2>1. tmp.pos \in Nat
    BY <1>12
  <2>2. CASE InBase(r)
    <3>1. LastStart = r.start - 0
      BY <1>6, <2>2 DEF LastStart
    <3> QED  BY <1>6, <1>9, <1>10, <2>2, <3>1
  <2>3. CASE ~InBase(r)
    <3>1. LastStart = r.start - BaseLen
      BY <1>6, <2>3 DEF LastStart
    <3>2. tmp.pos + BaseLen = r.start + r.zlen /\ r.start >= BaseLen /\ r.zlen # 0 /\ BaseLen \in Nat
      BY <1>6, <1>8, <2>3
    <3>3. PICK s, z, b, t : s = r.start /\ z = r.zlen /\ b = BaseLen /\ t = tmp.pos
      OBVIOUS
    <3>4. next = (s - b) + z /\ t + b = s + z /\ s >= b /\ z # 0
      BY <1>10, <3>1, <3>2, <3>3
    <3>5. s \in Nat /\ z \in Nat /\ b \in Nat /\ t \in Nat
      BY <1>9, <2>1, <3>2, <3>3
    <3>6. next \in Nat /\ next > 0 /\ t = next
      BY <3>4, <3>5
    <3> QED  BY <2>3, <3>3, <3>6
  <2> QED  BY <2>2, <2>3
<1>14. /\ base' \in [data : Seq(Cell), hlen : Nat, pos : Nat, next : Nat]
       /\ base'.data = base.data /\ base'.hlen = base.hlen /\ base'.pos = base'.next
  BY <1>6, <1>11, <1>12, <1>13
<1>15. /\ tmp' \in [data : Seq(Cell), len : Nat, pos : Nat, next : Nat]
       /\ tmp'.data = tmp.data /\ tmp'.len = tmp.len /\ tmp'.pos = tmp'.next
       /\ tmp'.next > 0 \/ tmp' = tmp
  BY <1>6, <1>11, <1>12, <1>13
<1>16. calls' = <<>>
  BY <1>1, <1>3, <1>4
<1>17. Typed'
  BY <1>1, <1>3, <1>14, <1>15, <1>16 DEF Typed
<1>18. IndexOK'
  BY <1>1, <1>2, <1>14, <1>15, IndexSame
<1>19. FileOK' /\ Positions'
  BY <1>1, <1>14, <1>15, <1>16 DEF FileOK, Positions
<1>20. Additions'
  BY <1>1, <1>2, <1>15 DEF Additions
<1> QED  BY <1>17, <1>18, <1>19, <1>20 DEF IInv

\* An add begins at the end of the temporary file.
LEMMA BeginAddKeeps ==
  ASSUME Regular, IInv, NEW k \in Keys, NEW v \in Values, BeginAdd(k, v)
  PROVE  IInv'
<1> DEFINE op == IF k \in Adding THEN "same" ELSE "add"
<1>1. /\ st = "open" /\ op \in Allowed
      /\ tmp' = (IF tmp.next # TmpLen THEN [tmp EXCEPT !.pos = TmpLen] ELSE tmp)
      /\ UNCHANGED <<file, st, mode, bin, index, base, last, got>>
      /\ Typed /\ FileOK /\ IndexOK /\ Positions /\ Additions
  BY DEF BeginAdd, May, IInv
<1> HIDE DEF op
<1>2. \/ calls = <<>> /\ tmp.pos = tmp.next /\ base.pos = base.next
      \/ /\ calls # <<>> /\ \A i \in 1..Len(calls) : calls[i].op = "add"
         /\ tmp.pos = tmp.len /\ base.pos = base.next
  <2>1. CASE calls = <<>>
    <3>1. Len(calls) # 1
      BY <2>1
    <3> QED  BY <1>1, <2>1, <3>1 DEF Positions
  <2>2. CASE calls # <<>>
    BY <1>1, <2>2, CallsAre
  <2> QED  BY <2>1, <2>2
<1>3. tmp \in [data : Seq(Cell), len : Nat, pos : Nat, next : Nat]
  BY <1>1 DEF Typed
<1>4. /\ tmp' \in [data : Seq(Cell), len : Nat, pos : Nat, next : Nat]
      /\ tmp'.data = tmp.data /\ tmp'.len = tmp.len /\ tmp'.next = tmp.next /\ tmp'.pos = tmp'.len
  BY <1>1, <1>2, <1>3 DEF TmpLen
<1>5. PICK call \in AddCall : calls' = Append(calls, call)
  <2> DEFINE code == ~bin /\ v.code
  <2>1. calls' = Append(calls, [op |-> "add", key |-> k, val |-> v, code |-> code])
    BY DEF BeginAdd
  <2>2. code \in BOOLEAN
    OBVIOUS
  <2> HIDE DEF code
  <2>3. [op |-> "add", key |-> k, val |-> v, code |-> code] \in AddCall
    BY <2>2 DEF AddCall
  <2> QED  BY <2>1, <2>3
<1>6. calls \in Seq(AddCall \cup FetchCall) /\ call.op = "add" /\ call \in AddCall \cup FetchCall
  BY <1>1 DEF Typed, AddCall
<1>7. /\ calls' \in Seq(AddCall \cup FetchCall) /\ Len(calls') = Len(calls) + 1 /\ Len(calls) \in Nat
      /\ calls'[Len(calls) + 1] = call /\ \A i \in 1..Len(calls) : calls'[i] = calls[i]
  BY <1>5, <1>6, AppendProperties
<1>8. calls' # <<>> /\ \A i \in 1..Len(calls') : calls'[i].op = "add"
  <2>1. ASSUME NEW i \in 1..Len(calls') PROVE calls'[i].op = "add"
    <3>1. CASE i \in 1..Len(calls)
      <4>1. calls # <<>>
        BY <3>1
      <4> QED  BY <1>2, <1>7, <3>1, <4>1
    <3>2. CASE i = Len(calls) + 1
      BY <1>6, <1>7, <3>2
    <3> QED  BY <1>7, <3>1, <3>2
  <2>2. Len(calls') # 0
    BY <1>7
  <2> QED  BY <2>1, <2>2
<1>9. Typed'
  BY <1>1, <1>4, <1>7 DEF Typed
<1>10. IndexOK'
  BY <1>1, <1>4, IndexSame
<1>11. FileOK' /\ Additions'
  BY <1>1, <1>4 DEF FileOK, Additions
<1>12. Positions'
  BY <1>1, <1>2, <1>4, <1>8 DEF Positions
<1> QED  BY <1>9, <1>10, <1>11, <1>12 DEF IInv

\* What is written at the end of the data follows it.
LEMMA WritesLast ==
  ASSUME NEW d \in Seq(Cell), NEW cs \in Seq(Cell)
  PROVE  WriteAt(d, Len(d), cs) = d \o cs
<1>1. Len(d) \in Nat /\ Len(cs) \in Nat /\ d \o cs \in Seq(Cell)
  BY ConcatProperties
<1>2. SubSeq(d, 1, Len(d)) = d
  BY SubSeqFull
<1>3. SubSeq(d, Len(d) + Len(cs) + 1, Len(d)) = <<>>
  BY <1>1, SubSeqEmpty
<1>4. (d \o cs) \o <<>> = d \o cs
  BY <1>1, ConcatEmptySeq
<1> QED  BY <1>2, <1>3, <1>4 DEF WriteAt

\* The entry of an add.
LEMMA EntryOf ==
  ASSUME ConstantsOK, Typed, NEW call \in AddCall, NEW start \in Nat
  PROVE  LET r == Entry(call, start)
         IN  /\ r \in Entries /\ r.start = start /\ r.bin = bin
             /\ r.key = call.key /\ r.val = call.val /\ r.zlen = ZLen(call.val, bin)
             /\ (\A v \in Values : v.n > 0) => r.zlen > 0
<1> DEFINE v == call.val
<1>1. call.key \in Keys /\ v \in Values
  BY DEF AddCall
<1>2. v \in [str : BOOLEAN, code : BOOLEAN, n : Nat, z : Nat \ {0}, l : Nat \ {0}]
  BY <1>1 DEF ConstantsOK
<1>3. v.n \in Nat /\ v.z \in Nat /\ v.z # 0 /\ v.l \in Nat
  BY <1>2
<1>4. bin \in BOOLEAN
  BY DEF Typed
<1> HIDE DEF v
<1>5. ZLen(v, bin) \in Nat /\ PLen(v, bin) \in Nat /\ ((\A w \in Values : w.n > 0) => ZLen(v, bin) > 0)
  BY <1>1, <1>3 DEF ZLen, PLen
<1> QED  BY <1>1, <1>4, <1>5 DEF Entry, Entries, v

\* What an add writes and notes.
LEMMA EndAddWrites ==
  ASSUME ConstantsOK, Typed, IndexOK, EndAdd, tmp.pos = tmp.len,
         NEW call \in AddCall, call = Last(calls), NEW r, r = Entry(call, BaseLen + tmp.len)
  PROVE  /\ r \in Entries /\ BaseLen \in Nat /\ r.start = BaseLen + tmp.len /\ r.bin = bin
         /\ (\A v \in Values : v.n > 0) => r.zlen > 0
         /\ index' = Append(index, r)
         /\ tmp' = [data |-> tmp.data \o Cells(r.key, r.val, r.bin), pos |-> tmp.len + r.zlen,
                    len |-> tmp.len + r.zlen, next |-> tmp.len + r.zlen]
<1>1. /\ tmp.data \in Seq(Cell) /\ tmp.len \in Nat /\ BaseLen \in Nat /\ tmp.len = Len(tmp.data)
  <2>1. /\ base \in [data : Seq(Cell), hlen : Nat, pos : Nat, next : Nat]
        /\ tmp \in [data : Seq(Cell), len : Nat, pos : Nat, next : Nat]
    BY DEF Typed
  <2>2. tmp.len = Len(tmp.data)
    BY DEF IndexOK
  <2>3. base.hlen \in Nat /\ Len(base.data) \in Nat /\ tmp.data \in Seq(Cell) /\ tmp.len \in Nat
    BY <2>1
  <2> QED  BY <2>2, <2>3 DEF BaseLen
<1>2. BaseLen + tmp.len \in Nat
  BY <1>1
<1>3. /\ r \in Entries /\ r.start = BaseLen + tmp.len /\ r.bin = bin
      /\ r.key = call.key /\ r.val = call.val
      /\ (\A v \in Values : v.n > 0) => r.zlen > 0
  BY <1>2, EntryOf
<1> DEFINE cs == Cells(r.key, r.val, r.bin)
<1>4. cs \in Seq(Cell) /\ Len(cs) = r.zlen /\ cs = Cells(call.key, call.val, bin)
  BY <1>3, CellsAre
<1> HIDE DEF cs
<1>5. /\ tmp' = [data |-> WriteAt(tmp.data, tmp.pos, cs), pos |-> tmp.pos + Len(cs),
                 len |-> tmp.len + Len(cs), next |-> tmp.len + Len(cs)]
      /\ index' = Append(index, r)
  BY <1>4 DEF EndAdd
<1>6. WriteAt(tmp.data, tmp.pos, cs) = tmp.data \o cs
  <2>1. PICK d : d = tmp.data
    OBVIOUS
  <2>2. WriteAt(d, Len(d), cs) = d \o cs
    BY <1>1, <1>4, <2>1, WritesLast
  <2> QED  BY <1>1, <2>1, <2>2
<1> QED  BY <1>1, <1>3, <1>4, <1>5, <1>6 DEF cs

\* A record added lies behind the others, and its entry comes last.
LEMMA EndAddKeeps ==
  ASSUME ConstantsOK, IInv, EndAdd
  PROVE  IInv'
<1>1. /\ calls # <<>> /\ Last(calls).op = "add"
      /\ calls' = Front(calls) /\ UNCHANGED <<file, st, mode, bin, base, last, got>>
      /\ Typed /\ FileOK
  BY DEF EndAdd, IInv
<1>2. st = "open" /\ IndexOK /\ Positions /\ Additions
  BY <1>1 DEF IInv, Typed
<1>3. /\ Len(calls) \in Nat /\ Len(calls) >= 1 /\ Last(calls) = calls[Len(calls)]
      /\ Last(calls) \in AddCall \cup FetchCall
      /\ Front(calls) \in Seq(AddCall \cup FetchCall) /\ Len(Front(calls)) = Len(calls) - 1
      /\ \A i \in 1..Len(Front(calls)) : Front(calls)[i] = calls[i]
  BY <1>1, CallEnds
<1>4. /\ \A i \in 1..Len(calls) : calls[i].op = "add"
      /\ tmp.pos = tmp.len /\ base.pos = base.next
  <2>1. ~(Len(calls) = 1 /\ calls[1].op = "fetch")
    BY <1>1, <1>3
  <2> QED  BY <1>1, <1>2, <2>1 DEF Positions
<1>5. PICK call : call = Last(calls)
  OBVIOUS
<1>6. call \in AddCall
  BY <1>1, <1>3, <1>5 DEF FetchCall
<1>7. PICK r : r = Entry(call, BaseLen + tmp.len)
  OBVIOUS
<1>8. /\ r \in Entries /\ BaseLen \in Nat /\ r.start = BaseLen + tmp.len /\ r.bin = bin
      /\ (\A v \in Values : v.n > 0) => r.zlen > 0
      /\ index' = Append(index, r)
      /\ tmp' = [data |-> tmp.data \o Cells(r.key, r.val, r.bin), pos |-> tmp.len + r.zlen,
                 len |-> tmp.len + r.zlen, next |-> tmp.len + r.zlen]
  BY <1>1, <1>2, <1>4, <1>5, <1>6, <1>7, EndAddWrites
<1>9. PICK cs : cs = Cells(r.key, r.val, r.bin)
  OBVIOUS
<1>10. cs \in Seq(Cell) /\ Len(cs) = r.zlen /\ r.zlen \in Nat /\ r.start \in Nat
  BY <1>8, <1>9, CellsAre, EntryIs
<1>11. /\ base.data \in Seq(Cell) /\ tmp.data \in Seq(Cell) /\ tmp.len \in Nat /\ base.hlen \in Nat
       /\ index \in Seq(Entries) /\ Len(index) \in Nat /\ tmp.len = Len(tmp.data)
       /\ BaseLen = base.hlen + Len(base.data) /\ Len(base.data) \in Nat /\ Len(tmp.data) \in Nat
  BY <1>1, <1>2 DEF Typed, IndexOK, BaseLen
<1>12. PICK n : n = tmp.len + r.zlen
  OBVIOUS
<1>13. /\ tmp' = [data |-> tmp.data \o cs, pos |-> n, len |-> n, next |-> n]
       /\ n \in Nat /\ Len(tmp.data \o cs) = n /\ tmp.data \o cs \in Seq(Cell)
  <2>1. Len(tmp.data \o cs) = Len(tmp.data) + Len(cs) /\ tmp.data \o cs \in Seq(Cell)
    BY <1>10, <1>11, ConcatProperties
  <2>2. tmp' = [data |-> tmp.data \o cs, pos |-> n, len |-> n, next |-> n]
    BY <1>8, <1>9, <1>12, Zenon
  <2>3. n \in Nat /\ n = Len(tmp.data) + Len(cs)
    <3>1. PICK l, z : l = tmp.len /\ z = r.zlen
      OBVIOUS
    <3>2. n = l + z /\ l \in Nat /\ z \in Nat /\ l = Len(tmp.data) /\ z = Len(cs)
      BY <1>10, <1>11, <1>12, <3>1
    <3> QED  BY <3>2
  <2> QED  BY <2>1, <2>2, <2>3
<1>14. /\ tmp' \in [data : Seq(Cell), len : Nat, pos : Nat, next : Nat]
       /\ tmp'.data = tmp.data \o cs /\ tmp'.len = n /\ tmp'.pos = n /\ tmp'.next = n
  BY <1>13
<1>15. /\ index' \in Seq(Entries) /\ Len(index') = Len(index) + 1 /\ index'[Len(index) + 1] = r
       /\ \A i \in 1..Len(index) : index'[i] = index[i]
  BY <1>8, <1>11, AppendProperties
<1>16. Typed'
  <2>1. last \in 0..Len(index)
    BY <1>1 DEF Typed
  <2>2. last' \in 0..Len(index')
    BY <1>1, <1>11, <1>15, <2>1
  <2> QED  BY <1>1, <1>2, <1>3, <1>14, <1>15, <2>2 DEF Typed
<1>17. IndexOK'
  <2>1. Lies(index, base.data \o tmp.data) /\ Placed(index, base.hlen)
    BY <1>2 DEF IndexOK
  <2>2. /\ Lies(index', (base.data \o tmp.data) \o cs)
        /\ \A i \in 0..Len(index) : Sums(index')[i] = Sums(index)[i]
    BY <1>8, <1>9, <2>1, LiesAppended
  <2>3. Lies(index', base'.data \o tmp'.data)
    <3>1. (base.data \o tmp.data) \o cs = base.data \o (tmp.data \o cs)
      <4>1. PICK b, t : b = base.data /\ t = tmp.data
        OBVIOUS
      <4>2. b \in Seq(Cell) /\ t \in Seq(Cell) /\ cs \in Seq(Cell)
        BY <1>10, <1>11, <4>1
      <4>3. (b \o t) \o cs = b \o (t \o cs)
        BY <4>2, ConcatAssociative
      <4> QED  BY <4>1, <4>3
    <3> QED  BY <1>1, <1>14, <2>2, <3>1
  <2>4. Placed(index', base'.hlen)
    <3>1. Sums(index)[Len(index)] = Len(base.data) + Len(tmp.data)
      <4>1. Len(base.data \o tmp.data) = Len(base.data) + Len(tmp.data)
        BY <1>11, ConcatProperties
      <4> QED  BY <2>1, <4>1 DEF Lies
    <3>2. r.start = base.hlen + Sums(index)[Len(index)]
      <4>1. r.start = (base.hlen + Len(base.data)) + Len(tmp.data)
        BY <1>8, <1>11
      <4>2. PICK h, b, t : h = base.hlen /\ b = Len(base.data) /\ t = Len(tmp.data)
        OBVIOUS
      <4>3. h \in Nat /\ b \in Nat /\ t \in Nat
        BY <1>11, <4>2
      <4>4. (h + b) + t = h + (b + t)
        BY <4>3
      <4> QED  BY <3>1, <4>1, <4>2, <4>4
    <3>3. ASSUME NEW i \in 1..Len(index') PROVE index'[i].start = base.hlen + Sums(index')[i - 1]
      <4>1. CASE i \in 1..Len(index)
        <5>1. i - 1 \in 0..Len(index)
          BY <1>11, <4>1
        <5> QED  BY <1>15, <2>1, <2>2, <4>1, <5>1 DEF Placed
      <4>2. CASE i = Len(index) + 1
        <5>1. i - 1 = Len(index) /\ Len(index) \in 0..Len(index)
          BY <1>11, <4>2
        <5> QED  BY <1>15, <2>2, <3>2, <4>2, <5>1
      <4> QED  BY <1>11, <1>15, <4>1, <4>2
    <3> QED  BY <1>1, <3>3 DEF Placed
  <2>5. ASSUME NEW i \in 1..Len(index')
        PROVE  /\ index'[i].start < BaseLen => index'[i].start + index'[i].zlen <= BaseLen
               /\ index'[i].bin = bin
    <3>1. CASE i \in 1..Len(index)
      BY <1>2, <1>15, <3>1 DEF IndexOK, InBase
    <3>2. CASE i = Len(index) + 1
      <4>1. ~(BaseLen + tmp.len < BaseLen)
        BY <1>8, <1>11
      <4> QED  BY <1>8, <1>15, <3>2, <4>1
    <3> QED  BY <1>11, <1>15, <3>1, <3>2
  <2>6. BaseLen' = BaseLen
    BY <1>1 DEF BaseLen
  <2>7. tmp'.len = Len(tmp'.data)
    BY <1>13, <1>14
  <2> QED  BY <1>1, <2>3, <2>4, <2>5, <2>6, <2>7 DEF IndexOK, InBase
<1>18. Positions'
  <2>1. CASE calls' = <<>>
    BY <1>1, <1>4, <1>14, <2>1 DEF Positions
  <2>2. CASE calls' # <<>>
    <3>1. \A i \in 1..Len(calls') : i \in 1..Len(calls) /\ calls'[i] = calls[i]
      BY <1>1, <1>3
    <3>2. \A i \in 1..Len(calls') : calls'[i].op = "add"
      BY <1>4, <3>1
    <3> QED  BY <1>1, <1>4, <1>14, <2>2, <3>2 DEF Positions
  <2> QED  BY <2>1, <2>2
<1>19. FileOK'
  BY <1>1 DEF FileOK
<1>20. Additions'
  <2>1. (\A v \in Values : v.n > 0) => tmp'.len # 0
    <3>1. PICK l, z : l = tmp.len /\ z = r.zlen
      OBVIOUS
    <3>2. n = l + z /\ l \in Nat /\ z \in Nat /\ tmp'.len = n
      BY <1>10, <1>11, <1>12, <1>14, <3>1
    <3>3. (\A v \in Values : v.n > 0) => z > 0
      BY <1>8, <3>1
    <3> QED  BY <3>2, <3>3
  <2> QED  BY <1>14, <2>1 DEF Additions
<1> QED  BY <1>16, <1>17, <1>18, <1>19, <1>20 DEF IInv

\* A value that cannot be stored ends the session.
LEMMA AddNonStringKeeps ==
  ASSUME IInv, NEW k \in Keys, NEW v \in Values, AddNonString(k, v)
  PROVE  IInv'
<1>1. st' = "misuse" /\ calls = <<>> /\ Typed /\ FileOK
      /\ UNCHANGED <<file, mode, bin, index, base, tmp, last, calls>>
  BY DEF AddNonString, IInv
<1> QED  BY <1>1 DEF IInv, Typed, FileOK

\* A session that is over is forgotten.
LEMMA Forgotten ==
  ASSUME Typed, Forget, file' \in [index : Seq(Entries), data : Seq(Cell), exists : BOOLEAN], FileOK'
  PROVE  IInv'
<1>1. /\ <<>> \in Seq(Entries) /\ <<>> \in Seq(Cell) /\ <<>> \in Seq(AddCall \cup FetchCall)
      /\ Len(<<>>) = 0
  OBVIOUS
<1>2. /\ NoBase \in [data : Seq(Cell), hlen : Nat, pos : Nat, next : Nat]
      /\ NoTmp \in [data : Seq(Cell), len : Nat, pos : Nat, next : Nat]
  BY <1>1 DEF NoBase, NoTmp
<1>3. /\ st' = "closed" /\ mode' = "r" /\ bin' = FALSE /\ index' = <<>> /\ base' = NoBase
      /\ tmp' = NoTmp /\ last' = 0 /\ calls' = <<>>
  BY DEF Forget
<1>4. last' \in 0..Len(index')
  BY <1>1, <1>3
<1>5. /\ base' \in [data : Seq(Cell), hlen : Nat, pos : Nat, next : Nat]
      /\ tmp' \in [data : Seq(Cell), len : Nat, pos : Nat, next : Nat]
  BY <1>2, <1>3
<1>6. index' \in Seq(Entries) /\ calls' \in Seq(AddCall \cup FetchCall)
  BY <1>1, <1>3
<1>7. Typed'
  BY <1>3, <1>4, <1>5, <1>6 DEF Typed
<1> QED  BY <1>3, <1>7 DEF IInv

\* A commit writes a file in order: the records of the index, in its order.
LEMMA CloseKeeps ==
  ASSUME IInv, Close
  PROVE  IInv'
<1>1. st = "open" /\ Forget /\ Typed /\ FileOK /\ IndexOK
  BY DEF Close, IInv
<1>2. CASE mode # "r" /\ tmp.next > 0
  <2> DEFINE data == base.data \o tmp.data
             ix == OnDisk(index)
  <2>1. file' = [index |-> ix, data |-> data, exists |-> TRUE]
    BY <1>2 DEF Close
  <2>2. index \in Seq(Entries) /\ Lies(index, data) /\ \A i \in 1..Len(index) : index[i].bin = bin
    BY <1>1 DEF Typed, IndexOK
  <2>3. /\ ix \in Seq(Entries) /\ Len(ix) = Len(index)
        /\ \A i \in 1..Len(index) : /\ ix[i].key = index[i].key /\ ix[i].val = index[i].val
                                    /\ ix[i].bin = index[i].bin /\ ix[i].zlen = index[i].zlen
    BY <2>2, OnDiskIs
  <2> HIDE DEF data, ix
  <2>4. \A i \in 1..Len(index) : /\ index[i].key = ix[i].key /\ index[i].val = ix[i].val
                                 /\ index[i].bin = ix[i].bin /\ index[i].zlen = ix[i].zlen
    BY <2>3
  <2>5. Lies(ix, data)
    BY <2>2, <2>3, <2>4, LiesAlike
  <2>6. ix \in Seq(Entries) /\ data \in Seq(Cell)
    BY <2>3, <2>5 DEF Lies
  <2>7. file' \in [index : Seq(Entries), data : Seq(Cell), exists : BOOLEAN]
    BY <2>1, <2>6
  <2>8. FileOK'
    <3>1. file'.index = ix /\ file'.data = data
      BY <2>1
    <3>2. \A i, j \in 1..Len(ix) : ix[i].bin = ix[j].bin
      BY <2>2, <2>3
    <3> QED  BY <2>5, <3>1, <3>2 DEF FileOK
  <2> QED  BY <1>1, <2>7, <2>8, Forgotten
<1>3. CASE ~(mode # "r" /\ tmp.next > 0)
  <2>1. file' = file
    BY <1>3 DEF Close
  <2> QED  BY <1>1, <2>1, Forgotten DEF FileOK, Typed
<1> QED  BY <1>2, <1>3

LEMMA ShutdownKeeps ==
  ASSUME IInv, Shutdown
  PROVE  IInv'
<1>1. Forget /\ file' = file /\ Typed /\ FileOK
  BY DEF Shutdown, IInv
<1> QED  BY <1>1, Forgotten DEF FileOK, Typed

LEMMA NextKeeps ==
  ASSUME ConstantsOK, Regular, IInv, [Next]_vars
  PROVE  IInv'
<1>1. CASE \E m \in {"r", "w", "c"}, b \in BOOLEAN : Open(m, b)
  BY <1>1, OpenKeeps
<1>2. CASE \E k \in Keys : Find(k)
  BY <1>2, FindKeeps
<1>3. CASE BeginFetch
  BY <1>3, BeginFetchKeeps
<1>4. CASE FetchNothing
  BY <1>4, FetchNothingKeeps
<1>5. CASE EndFetch
  BY <1>5, EndFetchKeeps
<1>6. CASE \E k \in Keys, v \in Values : BeginAdd(k, v) \/ AddNonString(k, v)
  BY <1>6, BeginAddKeeps, AddNonStringKeeps
<1>7. CASE EndAdd
  BY <1>7, EndAddKeeps
<1>8. CASE Close
  BY <1>8, CloseKeeps
<1>9. CASE Shutdown
  BY <1>9, ShutdownKeeps
<1>10. CASE UNCHANGED vars
  <2>1. UNCHANGED <<file, st, mode, bin, index, base, tmp, last, calls>>
    BY <1>10 DEF vars
  <2>2. Typed' /\ FileOK'
    BY <2>1 DEF IInv, Typed, FileOK
  <2>3. st = "open" => IndexOK'
    BY <2>1, IndexSame DEF IInv
  <2>4. st = "open" => Positions' /\ Additions'
    BY <2>1 DEF IInv, Positions, Additions, Reading, InBase, BaseLen
  <2> QED  BY <2>1, <2>2, <2>3, <2>4 DEF IInv
<1> QED  BY <1>1, <1>2, <1>3, <1>4, <1>5, <1>6, <1>7, <1>8, <1>9, <1>10 DEF Next

\* The records lie as the index says, in the file and in a session, and the streams stand
\* where their cached positions say: cachedb.c:602-626, 353-395 and 426-470 agree.
THEOREM Invariance == Regular => (Spec => []IInv)
<1> SUFFICES ASSUME Regular PROVE Spec => []IInv
  OBVIOUS
<1>1. ConstantsOK
  BY ConstantsOK
<1>2. Init => IInv
  BY Initially
<1>3. IInv /\ [Next]_vars => IInv'
  BY <1>1, NextKeeps
<1> QED  BY <1>2, <1>3, PTL DEF Spec

-----------------------------------------------------------------------------
(* The properties.                                                         *)

\* No read and no loading of an index fails: cachedb_read_var (cachedb.c:674-731) finds a
\* record where the index says, of the length it says.
THEOREM NoReadFails == Regular => (Spec => []NoReadError)
<1> SUFFICES ASSUME Regular PROVE Spec => []NoReadError
  OBVIOUS
<1>1. Spec => []IInv
  BY Invariance
<1>2. IInv => NoReadError
  BY DEF IInv, Typed, NoReadError
<1> QED  BY <1>1, <1>2, PTL

\* Every record in the index is whole at its offset, and the records leave no gap.
THEOREM OffsetsTileStreams == Regular => (Spec => []OffsetsTile)
<1> SUFFICES ASSUME Regular PROVE Spec => []OffsetsTile
  OBVIOUS
<1>1. Spec => []IInv
  BY Invariance
<1>2. IInv => OffsetsTile
  <2> SUFFICES ASSUME IInv, st = "open" PROVE OffsetsTile
    BY DEF OffsetsTile
  <2>1. Typed /\ IndexOK
    BY DEF IInv
  <2>2. /\ base.data \in Seq(Cell) /\ tmp.data \in Seq(Cell) /\ base.hlen \in Nat
        /\ tmp.len = Len(tmp.data) /\ Lies(index, base.data \o tmp.data)
    BY <2>1 DEF Typed, IndexOK
  <2>3. ASSUME NEW i \in 1..Len(index), NEW r, r = index[i]
        PROVE  Cells(r.key, r.val, r.bin) =
                   IF r.start < BaseLen
                   THEN ReadAt(base.data, r.start - base.hlen, r.zlen)
                   ELSE ReadAt(tmp.data, r.start - BaseLen, r.zlen)
    <3>1. /\ r \in Entries /\ BaseLen \in Nat /\ base.hlen <= r.start
          /\ InBase(r) => LiesAt(r, base.data, r.start - base.hlen)
          /\ ~InBase(r) => r.start >= BaseLen /\ LiesAt(r, tmp.data, r.start - BaseLen)
      BY <2>1, <2>3, EntryLies
    <3>2. r.start \in Nat
      BY <3>1, EntryIs
    <3>3. CASE InBase(r)
      <4>1. PICK at : at = r.start - base.hlen
        OBVIOUS
      <4>2. at \in Nat /\ LiesAt(r, base.data, at)
        BY <2>2, <3>1, <3>2, <3>3, <4>1
      <4>3. ReadAt(base.data, at, r.zlen) = Cells(r.key, r.val, r.bin)
        BY <2>2, <3>1, <4>2, ReadsWhole
      <4> QED  BY <3>3, <4>1, <4>3 DEF InBase
    <3>4. CASE ~InBase(r)
      <4>1. PICK at : at = r.start - BaseLen
        OBVIOUS
      <4>2. at \in Nat /\ LiesAt(r, tmp.data, at)
        BY <3>1, <3>2, <3>4, <4>1
      <4>3. ReadAt(tmp.data, at, r.zlen) = Cells(r.key, r.val, r.bin)
        BY <2>2, <3>1, <4>2, ReadsWhole
      <4> QED  BY <3>4, <4>1, <4>3 DEF InBase
    <3> QED  BY <3>3, <3>4
  <2>4. SumZLen(index) = Len(base.data) + TmpLen
    <3>1. Len(base.data \o tmp.data) = Len(base.data) + Len(tmp.data)
      BY <2>2, ConcatProperties
    <3> QED  BY <2>2, <3>1 DEF SumZLen, Lies, TmpLen
  <2> QED  BY <2>3, <2>4 DEF OffsetsTile
<1> QED  BY <1>1, <1>2, PTL

\* A fetch returns what was stored under the key that was found: _cachedb_fetch
\* (cachedb.c:353-395).
THEOREM FetchReturns == Regular => (Spec => FetchReturnsStored)
<1> SUFFICES ASSUME Regular PROVE Spec => FetchReturnsStored
  OBVIOUS
<1>1. Spec => []IInv
  BY Invariance
<1>2. IInv /\ [Next]_vars =>
         [EndFetch => LET rec == Last(calls).rec
                      IN  rec.bin = bin => got' = Cells(rec.key, rec.val, bin)]_vars
  <2> SUFFICES ASSUME IInv, EndFetch, NEW rec, rec = Last(calls).rec, rec.bin = bin
               PROVE  got' = Cells(rec.key, rec.val, bin)
    OBVIOUS
  <2>1. calls # <<>> /\ Last(calls).op = "fetch" /\ got' = Last(calls).cells /\ Typed
    BY DEF EndFetch, IInv
  <2>2. Positions
    BY <2>1 DEF IInv, Typed
  <2>3. Len(calls) \in Nat /\ Len(calls) >= 1 /\ Last(calls) = calls[Len(calls)]
    BY <2>1, CallEnds
  <2>4. Reading(Last(calls))
    <3>1. calls[Len(calls)].op # "add" /\ Len(calls) \in 1..Len(calls)
      BY <2>1, <2>3
    <3> QED  BY <2>1, <2>2, <2>3, <3>1 DEF Positions
  <2> QED  BY <2>1, <2>4 DEF Reading
<1> QED  BY <1>1, <1>2, PTL DEF Spec, FetchReturnsStored

\* What a session has added is in the database when it closes, with all that was there:
\* what cachedb.c:44-45 promises, unless a value has length 0.
THEOREM CommitsAdditions ==
  Regular /\ (\A v \in Values : v.n > 0) => (Spec => AdditionsCommitted)
<1> SUFFICES ASSUME Regular, \A v \in Values : v.n > 0 PROVE Spec => AdditionsCommitted
  OBVIOUS
<1>1. Spec => []IInv
  BY Invariance
<1>2. IInv /\ [Next]_vars =>
         [Close /\ mode # "r" /\ index # <<>> =>
            {file'.index[i].key : i \in 1..Len(file'.index)} =
                {index[i].key : i \in 1..Len(index)}]_vars
  <2> SUFFICES ASSUME IInv, Close, mode # "r", index # <<>>
               PROVE  {file'.index[i].key : i \in 1..Len(file'.index)} =
                          {index[i].key : i \in 1..Len(index)}
    OBVIOUS
  <2>1. st = "open" /\ Typed /\ FileOK /\ Additions
    BY DEF Close, IInv
  <2>2. /\ index \in Seq(Entries) /\ tmp.len \in Nat /\ tmp.next \in Nat /\ mode \in {"w", "c"}
    BY <2>1 DEF Typed
  <2>3. PICK ix : ix = file'.index
    OBVIOUS
  <2>4. Len(ix) = Len(index) /\ \A i \in 1..Len(index) : ix[i].key = index[i].key
    <3>1. CASE tmp.next > 0
      <4>1. ix = OnDisk(index)
        <5>1. file' = [index |-> OnDisk(index), data |-> base.data \o tmp.data, exists |-> TRUE]
          BY <3>1 DEF Close
        <5> QED  BY <2>3, <5>1
      <4> QED  BY <2>2, <4>1, OnDiskIs
    <3>2. CASE tmp.next = 0
      <4>1. file' = file
        BY <2>2, <3>2 DEF Close
      <4>2. tmp.len = 0
        BY <2>1, <2>2, <3>2 DEF Additions
      <4>3. index = LoadIndex(file)
        BY <2>1, <2>2, <4>2 DEF Additions
      <4>4. PICK f : f = file
        OBVIOUS
      <4>5. Lies(f.index, f.data) /\ ix = f.index /\ index = LoadIndex(f)
        BY <2>1, <2>3, <4>1, <4>3, <4>4 DEF FileOK
      <4> QED  BY <4>5, LoadIndexIs
    <3> QED  BY <2>2, <3>1, <3>2
  <2>5. {ix[i].key : i \in 1..Len(ix)} = {index[i].key : i \in 1..Len(index)}
    BY <2>4
  <2> QED  BY <2>3, <2>5
<1> QED  BY <1>1, <1>2, PTL DEF Spec, AdditionsCommitted

=============================================================================
