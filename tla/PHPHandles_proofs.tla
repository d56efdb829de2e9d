------------------------- MODULE PHPHandles_proofs -------------------------
(***************************************************************************)
(* Proofs about the table of handles, for any number of processes, slots,  *)
(* blocks and keys, any nesting of opens and time limits at any moment.    *)
(***************************************************************************)
EXTENDS PHPHandles, TLAPS

Snapshots == {None} \cup SUBSET Keys

\* The sessions of the store.
StoreOK ==
    /\ store \in Snapshots
    /\ view \in [Sessions -> Snapshots]
    /\ added \in [Sessions -> SUBSET Keys]
    /\ \A s \in Sessions : view[s] = None => added[s] = {}

\* An open in progress has a block and a session of its own, still without
\* additions: nobody has its handle.
Filling(p) ==
    \A i \in DOMAIN opening[p] :
        LET b == opening[p][i].block
        IN  /\ b \in heap[p]
            /\ view[<<p, b>>] # None /\ added[<<p, b>>] = {}
            /\ \A j \in DOMAIN opening[p] : opening[p][j].block = b => j = i

\* Unless opens nest, the slot an open has found is still free.
Alone(p) ==
    /\ Len(opening[p]) <= 1
    /\ opening[p] # <<>> => db[p][Newest(p).slot] = None

\* What holds of one process: a slot that is being cleared is that of a close in
\* progress, the shutdown leaves the slots it has passed empty, and the parts of
\* SlotsOwnBlocks with what they rest on.
ProcessOK(p) ==
    /\ closed[p] # None => req[p] = "on" /\ db[p][closed[p]] # None
    /\ opening[p] # <<>> => req[p] = "on"
    /\ req[p] = "closing" => \A h \in Handles : h < at[p] => db[p][h] = None
    /\ req[p] = "off" => Open(p) = {} /\ \A b \in Blocks : view[<<p, b>>] = None
    /\ ~cut[p] => NoneDangles(p) /\ Filling(p)
    /\ ~cut[p] /\ ~nested[p] => NoneLost(p) /\ Alone(p)

IInv ==
    /\ TypeOK
    /\ StoreOK
    /\ \A p \in Procs : ProcessOK(p)

\* All that a step of a process leaves to the others.
OthersSame(p) ==
    \A q \in Procs \ {p} :
        /\ req'[q] = req[q] /\ db'[q] = db[q] /\ heap'[q] = heap[q]
        /\ opening'[q] = opening[q] /\ closed'[q] = closed[q] /\ at'[q] = at[q]
        /\ nested'[q] = nested[q] /\ cut'[q] = cut[q]
        /\ \A b \in Blocks : view'[<<q, b>>] = view[<<q, b>>] /\ added'[<<q, b>>] = added[<<q, b>>]

Frame == [slot : Handles, block : Blocks]

\* The stack of opens: one more, and one less.
LEMMA Pushed ==
  ASSUME NEW S, NEW s \in Seq(S), NEW x \in S
  PROVE  /\ Append(s, x) \in Seq(S) /\ Append(s, x) # <<>>
         /\ Len(Append(s, x)) = Len(s) + 1 /\ Append(s, x)[Len(s) + 1] = x
         /\ DOMAIN s = 1..Len(s) /\ Len(s) \in Nat
         /\ DOMAIN Append(s, x) = 1..(Len(s) + 1)
         /\ \A i \in 1..Len(s) : Append(s, x)[i] = s[i]
OBVIOUS

LEMMA Popped ==
  ASSUME NEW S, NEW s \in Seq(S), s # <<>>
  PROVE  /\ SubSeq(s, 1, Len(s) - 1) \in Seq(S)
         /\ Len(s) \in Nat \ {0} /\ DOMAIN s = 1..Len(s) /\ s[Len(s)] \in S
         /\ DOMAIN SubSeq(s, 1, Len(s) - 1) = 1..(Len(s) - 1)
         /\ Len(SubSeq(s, 1, Len(s) - 1)) = Len(s) - 1
         /\ \A i \in 1..(Len(s) - 1) : SubSeq(s, 1, Len(s) - 1)[i] = s[i]
<1>1. Len(s) \in Nat \ {0} /\ DOMAIN s = 1..Len(s)
  OBVIOUS
<1>2. s[Len(s)] \in S
  BY <1>1
<1>3. SubSeq(s, 1, Len(s) - 1) = [i \in 1..(Len(s) - 1) |-> s[i]]
  BY <1>1
<1>4. \A i \in 1..(Len(s) - 1) : s[i] \in S
  BY <1>1
<1>5. SubSeq(s, 1, Len(s) - 1) \in [1..(Len(s) - 1) -> S]
  BY <1>3, <1>4
<1>6. Len(s) - 1 \in Nat
  BY <1>1
<1> QED  BY <1>1, <1>2, <1>3, <1>5, <1>6

LEMMA Frames ==
  ASSUME TypeOK, NEW p \in Procs
  PROVE  /\ opening[p] \in Seq(Frame)
         /\ \A i \in DOMAIN opening[p] : opening[p][i].slot \in Handles /\ opening[p][i].block \in Blocks
<1>1. opening[p] \in Seq(Frame)
  BY DEF TypeOK, Frame
<1>2. \A i \in DOMAIN opening[p] : opening[p][i] \in Frame
  BY <1>1
<1> QED  BY <1>1, <1>2 DEF Frame

LEMMA OthersKeep ==
  ASSUME IInv, NEW p \in Procs, OthersSame(p), NEW q \in Procs \ {p}
  PROVE  ProcessOK(q)'
<1>1. /\ req'[q] = req[q] /\ db'[q] = db[q] /\ heap'[q] = heap[q]
      /\ opening'[q] = opening[q] /\ closed'[q] = closed[q] /\ at'[q] = at[q]
      /\ nested'[q] = nested[q] /\ cut'[q] = cut[q]
      /\ \A b \in Blocks : view'[<<q, b>>] = view[<<q, b>>] /\ added'[<<q, b>>] = added[<<q, b>>]
  BY DEF OthersSame
<1>2. ProcessOK(q)
  BY DEF IInv
<1>3. Owned(q)' = Owned(q) /\ Open(q)' = Open(q) /\ Newest(q)' = Newest(q)
  BY <1>1 DEF Owned, Open, Newest
<1>4. \A h \in Owned(q) : db[q][h] \in Blocks
  BY DEF Owned, IInv, TypeOK
<1>5. \A i \in DOMAIN opening[q] : opening[q][i].block \in Blocks
  BY Frames DEF IInv
<1>6. NoneDangles(q) => NoneDangles(q)'
  BY <1>1, <1>3, <1>4 DEF NoneDangles
<1>7. Filling(q) => Filling(q)'
  BY <1>1, <1>5 DEF Filling
<1>8. NoneLost(q) => NoneLost(q)'
  BY <1>1, <1>3 DEF NoneLost
<1>9. Alone(q) => Alone(q)'
  BY <1>1, <1>3 DEF Alone
<1> QED  BY <1>1, <1>2, <1>3, <1>6, <1>7, <1>8, <1>9 DEF ProcessOK

\* What is left to show of a step of p, once the others are settled.
LEMMA StepSettled ==
  ASSUME IInv, NEW p \in Procs, OthersSame(p), TypeOK', StoreOK', ProcessOK(p)'
  PROVE  IInv'
<1>1. \A q \in Procs : ProcessOK(q)'
  <2> TAKE q \in Procs
  <2> QED  BY OthersKeep
<1> QED  BY <1>1 DEF IInv

-----------------------------------------------------------------------------
(* One lemma for each action.                                              *)

LEMMA RInitKeeps ==
  ASSUME IInv, NEW p \in Procs, RInit(p)
  PROVE  IInv' /\ OthersSame(p)
<1> USE ConstantsOK DEF IInv, RInit
<1>1. TypeOK' /\ OthersSame(p)
  BY DEF TypeOK, OthersSame, NoTable, storeVars
<1>2. StoreOK'
  BY DEF StoreOK, storeVars
<1>3. ProcessOK(p) /\ req[p] = "off"
  OBVIOUS
<1>4. /\ db'[p] = NoTable /\ closed'[p] = None /\ view' = view /\ req'[p] = "on"
      /\ added' = added /\ opening'[p] = <<>> /\ opening[p] = <<>>
  BY <1>3 DEF TypeOK, ProcessOK, storeVars
<1>5. Owned(p)' = {}
  BY <1>4 DEF Owned, NoTable
<1>6. \A b \in Blocks : added'[<<p, b>>] = {}
  BY <1>3, <1>4 DEF ProcessOK, StoreOK, Sessions
<1>7. NoneDangles(p)' /\ Filling(p)' /\ NoneLost(p)' /\ Alone(p)'
  BY <1>4, <1>5, <1>6 DEF NoneDangles, Filling, NoneLost, Alone
<1>8. ProcessOK(p)'
  BY <1>4, <1>7 DEF ProcessOK
<1> QED  BY <1>1, <1>2, <1>8, StepSettled

LEMMA CallOpenKeeps ==
  ASSUME IInv, NEW p \in Procs, NEW b \in Blocks, NEW m \in {"r", "w", "c"}, CallOpen(p, b, m)
  PROVE  IInv' /\ OthersSame(p)
<1> USE ConstantsOK DEF IInv
<1>1. PICK h \in Handles :
         /\ FirstFree(p, h)
         /\ opening' = [opening EXCEPT ![p] = Append(@, [slot |-> h, block |-> b])]
  BY DEF CallOpen
<1> DEFINE fr == [slot |-> h, block |-> b]
<1>2. PICK v \in {DB!Contents, {}} : view' = [view EXCEPT ![<<p, b>>] = v]
  BY DEF CallOpen, DB!Open
<1>3. v \in SUBSET Keys /\ v # None
  BY <1>2 DEF DB!Contents, StoreOK, Snapshots
<1>4. <<p, b>> \in Sessions /\ view[<<p, b>>] = None /\ added[<<p, b>>] = {}
      /\ UNCHANGED <<store, added>> /\ b \notin heap[p]
  BY DEF CallOpen, DB!Open, Sessions, StoreOK
<1>5. fr \in Frame /\ opening[p] \in Seq(Frame) /\ opening'[p] = Append(opening[p], fr)
  BY <1>1, Frames DEF Frame, TypeOK
<1>6. /\ opening'[p] \in Seq(Frame) /\ opening'[p] # <<>>
      /\ Len(opening'[p]) = Len(opening[p]) + 1 /\ opening'[p][Len(opening[p]) + 1] = fr
      /\ DOMAIN opening[p] = 1..Len(opening[p]) /\ Len(opening[p]) \in Nat
      /\ DOMAIN opening'[p] = 1..(Len(opening[p]) + 1)
      /\ \A i \in 1..Len(opening[p]) : opening'[p][i] = opening[p][i]
  BY <1>5, Pushed
<1>7. TypeOK'
  <2>1. opening' \in [Procs -> Seq(Frame)]
    BY <1>1, <1>5, <1>6 DEF TypeOK, Frame
  <2> QED  BY <2>1 DEF TypeOK, CallOpen, Frame
<1>8. StoreOK'
  BY <1>2, <1>3, <1>4 DEF StoreOK, Snapshots
<1>9. OthersSame(p)
  BY <1>1, <1>2, <1>4 DEF TypeOK, CallOpen, OthersSame, StoreOK, Sessions
<1>10. /\ closed'[p] = None /\ closed[p] = None /\ req'[p] = "on" /\ req[p] = "on"
       /\ db'[p] = db[p] /\ heap'[p] = heap[p] \cup {b} /\ cut'[p] = cut[p]
       /\ nested'[p] = (nested[p] \/ opening[p] # <<>>)
       /\ Owned(p)' = Owned(p) /\ db[p][h] = None
  BY <1>1 DEF CallOpen, Running, TypeOK, Owned, FirstFree, Open
<1>11. view'[<<p, b>>] = v /\ \A c \in Blocks \ {b} : view'[<<p, c>>] = view[<<p, c>>]
  BY <1>2, <1>4 DEF StoreOK, Sessions
<1>12. \A i \in Owned(p) : db[p][i] \in Blocks
  BY DEF Owned, TypeOK
<1>13. \A i \in 1..Len(opening[p]) : opening[p][i].block \in Blocks
  BY <1>6, Frames
<1>14. ASSUME ~cut'[p]  PROVE NoneDangles(p)' /\ Filling(p)'
  <2>1. NoneDangles(p) /\ Filling(p)
    BY <1>10, <1>14 DEF ProcessOK
  <2>2. \A i \in Owned(p) : db[p][i] # b
    BY <1>4, <2>1 DEF NoneDangles
  <2>3. \A i \in 1..Len(opening[p]) : opening[p][i].block # b
    BY <1>4, <1>6, <2>1 DEF Filling
  <2>4. \A i \in 1..(Len(opening[p]) + 1) : i \in 1..Len(opening[p]) \/ i = Len(opening[p]) + 1
    BY <1>6
  <2>5. NoneDangles(p)'
    <3> SUFFICES ASSUME NEW i \in Owned(p)
                 PROVE  /\ db[p][i] \in heap'[p] /\ view'[<<p, db[p][i]>>] # None
                        /\ \A j \in Owned(p) : db[p][j] = db[p][i] => j = i
                        /\ \A k \in DOMAIN opening'[p] : opening'[p][k].block # db[p][i]
      BY <1>10 DEF NoneDangles
    <3>1. \A k \in DOMAIN opening'[p] : opening'[p][k].block # db[p][i]
      <4>1. \A k \in 1..Len(opening[p]) : opening[p][k].block # db[p][i]
        BY <1>6, <2>1 DEF NoneDangles
      <4>2. opening'[p][Len(opening[p]) + 1].block # db[p][i]
        BY <1>6, <2>2
      <4> HIDE DEF fr
      <4> QED  BY <1>6, <2>4, <4>1, <4>2
    <3> QED  BY <1>10, <1>11, <1>12, <2>1, <2>2, <3>1 DEF NoneDangles
  <2>6. Filling(p)'
    <3> SUFFICES ASSUME NEW i \in 1..(Len(opening[p]) + 1)
                 PROVE  /\ opening'[p][i].block \in heap'[p]
                        /\ view'[<<p, opening'[p][i].block>>] # None
                        /\ added'[<<p, opening'[p][i].block>>] = {}
                        /\ \A j \in 1..(Len(opening[p]) + 1) :
                              opening'[p][j].block = opening'[p][i].block => j = i
      BY <1>6 DEF Filling
    <3>1. CASE i = Len(opening[p]) + 1
      <4>1. opening'[p][i].block = b
        BY <1>6, <3>1
      <4>2. \A j \in 1..Len(opening[p]) : opening'[p][j].block # b
        BY <1>6, <2>3
      <4> QED  BY <1>3, <1>4, <1>10, <1>11, <2>4, <3>1, <4>1, <4>2
    <3>2. CASE i \in 1..Len(opening[p])
      <4>1. opening'[p][i] = opening[p][i] /\ opening[p][i].block \in Blocks \ {b}
        BY <1>6, <1>13, <2>3, <3>2
      <4>2. \A j \in 1..Len(opening[p]) : opening'[p][j].block = opening[p][i].block => j = i
        BY <1>6, <2>1, <3>2 DEF Filling
      <4>3. opening'[p][Len(opening[p]) + 1].block = b
        BY <1>6
      <4>4. /\ opening[p][i].block \in heap[p] /\ view[<<p, opening[p][i].block>>] # None
            /\ added[<<p, opening[p][i].block>>] = {}
        BY <1>6, <2>1, <3>2 DEF Filling
      <4> QED  BY <1>4, <1>10, <1>11, <2>4, <4>1, <4>2, <4>3, <4>4
    <3> QED  BY <2>4, <3>1, <3>2
  <2> QED  BY <2>5, <2>6
<1>15. ASSUME ~cut'[p], ~nested'[p]  PROVE NoneLost(p)' /\ Alone(p)'
  <2>1. ~cut[p] /\ ~nested[p] /\ opening[p] = <<>>
    BY <1>10, <1>15
  <2>4. NoneLost(p) /\ Len(opening[p]) = 0
    BY <2>1 DEF ProcessOK
  <2>2. NoneLost(p)'
    BY <1>4, <1>10, <2>4 DEF NoneLost
  <2>3. Newest(p)' = fr /\ Len(opening'[p]) = 1
    BY <1>6, <2>1, <2>4 DEF Newest
  <2> QED  BY <1>10, <2>2, <2>3 DEF Alone
<1>16. ProcessOK(p)'
  BY <1>10, <1>14, <1>15 DEF ProcessOK
<1> QED  BY <1>7, <1>8, <1>9, <1>16, StepSettled

\* The innermost open is over, however it ends: what is left of the stack is as it
\* was, and alone there was only one.
LEMMA Newly ==
  ASSUME IInv, NEW p \in Procs, opening[p] # <<>>
  PROVE  /\ opening[p] \in Seq(Frame) /\ DOMAIN opening[p] = 1..Len(opening[p])
         /\ Len(opening[p]) \in Nat \ {0} /\ Len(opening[p]) \in DOMAIN opening[p]
         /\ Newest(p).slot \in Handles /\ Newest(p).block \in Blocks
         /\ <<p, Newest(p).block>> \in Sessions
<1>1. opening[p] \in Seq(Frame)
  BY Frames DEF IInv
<1>2. Len(opening[p]) \in Nat \ {0} /\ DOMAIN opening[p] = 1..Len(opening[p])
  BY <1>1, Popped
<1> QED  BY <1>1, <1>2, Frames DEF IInv, Newest, Sessions

LEMMA OpenReturnsKeeps ==
  ASSUME IInv, NEW p \in Procs, OpenReturns(p)
  PROVE  IInv' /\ OthersSame(p)
<1> DEFINE s == Newest(p).slot
           b == Newest(p).block
           n == Len(opening[p])
<1> USE ConstantsOK DEF IInv
<1>1. /\ opening[p] \in Seq(Frame) /\ DOMAIN opening[p] = 1..n /\ n \in Nat \ {0}
      /\ s \in Handles /\ b \in Blocks /\ opening[p] # <<>>
  BY Newly DEF OpenReturns
<1>2. /\ opening'[p] = SubSeq(opening[p], 1, n - 1) /\ opening' \in [Procs -> Seq(Frame)]
      /\ DOMAIN opening'[p] = 1..(n - 1) /\ Len(opening'[p]) = n - 1
      /\ \A i \in 1..(n - 1) : opening'[p][i] = opening[p][i]
  <2>1. opening' = [opening EXCEPT ![p] = SubSeq(opening[p], 1, n - 1)]
    BY DEF OpenReturns
  <2>2. opening \in [Procs -> Seq(Frame)]
    BY DEF TypeOK, Frame
  <2>3. SubSeq(opening[p], 1, n - 1) \in Seq(Frame)
    BY <1>1, Popped
  <2>4. opening'[p] = SubSeq(opening[p], 1, n - 1) /\ opening' \in [Procs -> Seq(Frame)]
    BY <2>1, <2>2, <2>3
  <2> QED  BY <1>1, <2>4, Popped
<1>3. TypeOK' /\ StoreOK'
  BY <1>1, <1>2 DEF TypeOK, StoreOK, OpenReturns, storeVars, history, Frame
<1>4. OthersSame(p)
  BY DEF TypeOK, OpenReturns, OthersSame, storeVars, history
<1>5. /\ closed'[p] = None /\ closed[p] = None /\ req'[p] = "on" /\ req[p] = "on"
      /\ db'[p] = [db[p] EXCEPT ![s] = b]
      /\ heap' = heap /\ cut' = cut /\ nested' = nested /\ view' = view /\ added' = added
  BY <1>1 DEF OpenReturns, Running, TypeOK, storeVars, history
<1>6. Owned(p)' = Owned(p) \cup {s} /\ db'[p][s] = b
      /\ \A h \in Owned(p) \ {s} : db'[p][h] = db[p][h]
  <2>1. db[p] \in [Handles -> Blocks \cup {None}] /\ b # None
    BY <1>1 DEF TypeOK
  <2> HIDE DEF s, b
  <2>2. db'[p][s] = b /\ \A h \in Handles \ {s} : db'[p][h] = db[p][h]
    BY <1>1, <1>5, <2>1
  <2> QED  BY <1>1, <1>5, <2>1, <2>2 DEF Owned, Handles
<1>7. ASSUME ~cut[p]  PROVE NoneDangles(p)' /\ Filling(p)'
  <2>1. NoneDangles(p) /\ Filling(p)
    BY <1>7 DEF ProcessOK
  <2>2. opening[p][n].block = b /\ n \in DOMAIN opening[p]
    BY <1>1 DEF Newest
  <2>3. b \in heap[p] /\ view[<<p, b>>] # None
    BY <2>1, <2>2 DEF Filling
  <2>4. \A h \in Owned(p) : db[p][h] # b
    BY <2>1, <2>2 DEF NoneDangles
  <2>5. \A i \in 1..(n - 1) : i \in DOMAIN opening[p] /\ opening[p][i].block # b
    <3>1. \A i \in DOMAIN opening[p] : opening[p][i].block = b => i = n
      BY <2>1, <2>2 DEF Filling
    <3> HIDE DEF b, n
    <3> QED  BY <1>1, <3>1
  <2>6. Filling(p)'
    <3> SUFFICES ASSUME NEW i \in 1..(n - 1)
                 PROVE  /\ opening[p][i].block \in heap[p]
                        /\ view[<<p, opening[p][i].block>>] # None
                        /\ added[<<p, opening[p][i].block>>] = {}
                        /\ \A j \in 1..(n - 1) : opening[p][j].block = opening[p][i].block => j = i
      BY <1>2, <1>5 DEF Filling
    <3>1. i \in DOMAIN opening[p] /\ \A j \in 1..(n - 1) : j \in DOMAIN opening[p]
      BY <2>5
    <3> QED  BY <2>1, <3>1 DEF Filling
  <2>7. \A h \in Owned(p) \ {s} : \A i \in 1..(n - 1) : opening[p][i].block # db[p][h]
    <3>1. \A h \in Owned(p) : \A i \in DOMAIN opening[p] : opening[p][i].block # db[p][h]
      BY <2>1 DEF NoneDangles
    <3> QED  BY <2>5, <3>1
  <2>8. NoneDangles(p)'
    <3> SUFFICES ASSUME NEW h \in Owned(p) \cup {s}
                 PROVE  /\ db'[p][h] \in heap[p] /\ view[<<p, db'[p][h]>>] # None
                        /\ \A j \in Owned(p) \cup {s} : db'[p][j] = db'[p][h] => j = h
                        /\ \A i \in 1..(n - 1) : opening[p][i].block # db'[p][h]
      <4>1. \A i \in DOMAIN opening'[p] : i \in 1..(n - 1) /\ opening'[p][i] = opening[p][i]
        BY <1>2
      <4>2. heap'[p] = heap[p] /\ view' = view /\ Owned(p)' = Owned(p) \cup {s}
        BY <1>5, <1>6
      <4> HIDE DEF s, b, n
      <4> QED  BY <4>1, <4>2 DEF NoneDangles
    <3> HIDE DEF s, b, n
    <3>1. CASE h = s
      BY <1>6, <2>3, <2>4, <2>5, <3>1
    <3>2. CASE h \in Owned(p) \ {s}
      BY <1>6, <2>1, <2>4, <2>7, <3>2 DEF NoneDangles
    <3> QED  BY <3>1, <3>2
  <2> QED  BY <2>6, <2>8
<1>8. ASSUME ~cut[p], ~nested[p]  PROVE NoneLost(p)' /\ Alone(p)'
  <2>1. NoneLost(p) /\ Alone(p)
    BY <1>8 DEF ProcessOK
  <2>2. n = 1 /\ db[p][s] = None /\ Len(opening'[p]) = 0 /\ opening'[p] = <<>>
    <3>1. n <= 1 /\ n \in Nat \ {0} /\ db[p][s] = None
      BY <1>1, <2>1 DEF Alone
    <3>2. n = 1
      <4> HIDE DEF n, s
      <4> QED  BY <3>1
    <3>3. Len(opening'[p]) = 0 /\ opening'[p] \in Seq(Frame)
      BY <1>2, <3>2
    <3> QED  BY <3>1, <3>2, <3>3
  <2>3. s \notin Owned(p)
    BY <2>2 DEF Owned
  <2>4. NoneLost(p)'
    BY <1>5, <1>6, <2>1, <2>3 DEF NoneLost
  <2> QED  BY <2>2, <2>4 DEF Alone
<1>9. ProcessOK(p)'
  BY <1>5, <1>7, <1>8 DEF ProcessOK
<1> QED  BY <1>3, <1>4, <1>9, StepSettled

\* Without the opens in progress, what is owned stays so.
LEMMA StackDropped ==
  ASSUME IInv, NEW p \in Procs, TypeOK',
         opening'[p] = <<>>, UNCHANGED <<db, closed>>, req'[p] = "on", req[p] = "on",
         nested'[p] = nested[p], cut'[p] = cut[p],
         ~cut[p] => \A h \in Owned(p) :
             db[p][h] \in heap'[p] /\ view'[<<p, db[p][h]>>] = view[<<p, db[p][h]>>],
         \A c \in Blocks : added'[<<p, c>>] # {} => added[<<p, c>>] # {}
  PROVE  ProcessOK(p)'
<1> USE DEF IInv
<1>1. Owned(p)' = Owned(p)
  BY DEF Owned
<1>2. ~cut[p] => NoneDangles(p)' /\ Filling(p)'
  BY <1>1 DEF NoneDangles, Filling, ProcessOK
<1>3. ~cut[p] /\ ~nested[p] => NoneLost(p)' /\ Alone(p)'
  BY <1>1 DEF NoneLost, Alone, ProcessOK
<1> QED  BY <1>2, <1>3 DEF ProcessOK

LEMMA OpenFailsKeeps ==
  ASSUME IInv, NEW p \in Procs, OpenFails(p)
  PROVE  IInv' /\ OthersSame(p)
<1> DEFINE b == Newest(p).block
<1> USE ConstantsOK DEF IInv
<1>1. /\ opening[p] # <<>> /\ b \in Blocks /\ <<p, b>> \in Sessions
      /\ Len(opening[p]) \in DOMAIN opening[p] /\ opening[p][Len(opening[p])].block = b
  BY Newly DEF OpenFails, Newest
<1>2. /\ view' = [view EXCEPT ![<<p, b>>] = None]
      /\ added' = [added EXCEPT ![<<p, b>>] = {}]
      /\ store' = store
  BY DEF OpenFails, DB!Abandon, DB!Finish
<1>3. /\ opening' = [opening EXCEPT ![p] = <<>>]
      /\ heap' \in {heap, [heap EXCEPT ![p] = @ \ {b}]}
      /\ UNCHANGED <<req, db, mode, closed, at, nested, cut>>
      /\ req[p] = "on"
  BY DEF OpenFails, history, Running
<1>4. TypeOK'
  <2>1. heap' \in [Procs -> SUBSET Blocks]
    <3>1. heap \in [Procs -> SUBSET Blocks]
      BY DEF TypeOK
    <3> HIDE DEF b, IInv
    <3> QED  BY <1>3, <3>1
  <2>2. opening' \in [Procs -> Seq(Frame)]
    <3>1. opening \in [Procs -> Seq(Frame)]
      BY DEF TypeOK, Frame
    <3>2. <<>> \in Seq(Frame)
      OBVIOUS
    <3> HIDE DEF b, IInv
    <3> QED  BY <1>3, <3>1, <3>2
  <2> QED  BY <1>3, <2>1, <2>2 DEF TypeOK, Frame
<1>5. StoreOK'
  BY <1>1, <1>2 DEF StoreOK, Snapshots
<1>6. OthersSame(p)
  <2>1. \A q \in Procs \ {p} : heap'[q] = heap[q] /\ opening'[q] = opening[q]
    <3> HIDE DEF b
    <3> QED  BY <1>3 DEF TypeOK
  <2>2. \A q \in Procs \ {p} : \A c \in Blocks :
           view'[<<q, c>>] = view[<<q, c>>] /\ added'[<<q, c>>] = added[<<q, c>>]
    <3> HIDE DEF b
    <3> QED  BY <1>1, <1>2 DEF StoreOK, Sessions
  <2> QED  BY <1>3, <2>1, <2>2 DEF OthersSame
<1>7. ASSUME ~cut[p], NEW h \in Owned(p)
      PROVE  db[p][h] \in heap'[p] /\ view'[<<p, db[p][h]>>] = view[<<p, db[p][h]>>]
  <2>1. db[p][h] # b /\ db[p][h] \in heap[p] /\ db[p][h] \in Blocks
    <3>1. NoneDangles(p)
      BY <1>7 DEF ProcessOK
    <3> HIDE DEF b
    <3> QED  BY <1>1, <3>1 DEF NoneDangles, Owned, TypeOK
  <2> QED  BY <1>1, <1>2, <1>3, <2>1 DEF TypeOK, StoreOK, Sessions
<1>8. \A c \in Blocks : added'[<<p, c>>] # {} => added[<<p, c>>] # {}
  BY <1>1, <1>2 DEF StoreOK, Sessions
<1>9. opening'[p] = <<>> /\ req'[p] = "on" /\ nested'[p] = nested[p] /\ cut'[p] = cut[p]
  BY <1>3 DEF TypeOK
<1>10. ProcessOK(p)'
  BY <1>3, <1>4, <1>7, <1>8, <1>9, StackDropped
<1> QED  BY <1>4, <1>5, <1>6, <1>10, StepSettled

LEMMA BailoutKeeps ==
  ASSUME IInv, NEW p \in Procs, Bailout(p)
  PROVE  IInv' /\ OthersSame(p)
<1> USE ConstantsOK DEF IInv, Bailout
<1>1. TypeOK' /\ OthersSame(p)
  <2>1. <<>> \in Seq([slot : Handles, block : Blocks])
    OBVIOUS
  <2>2. TypeOK'
    BY <2>1 DEF TypeOK, history
  <2>3. OthersSame(p)
    BY DEF TypeOK, OthersSame, storeVars, history
  <2> QED  BY <2>2, <2>3
<1>2. StoreOK'
  BY DEF StoreOK, storeVars
<1>3. /\ opening'[p] = <<>> /\ req'[p] = "on" /\ req[p] = "on" /\ nested'[p] = nested[p]
      /\ cut'[p] = cut[p] /\ UNCHANGED <<db, closed, heap, view, added>>
  BY DEF TypeOK, Running, storeVars, history
<1>4. \A h \in Owned(p) : ~cut[p] => db[p][h] \in heap[p]
  BY DEF ProcessOK, NoneDangles
<1>5. ProcessOK(p)'
  BY <1>1, <1>3, <1>4, StackDropped
<1> QED  BY <1>1, <1>2, <1>5, StepSettled

LEMMA CallAddKeeps ==
  ASSUME IInv, NEW p \in Procs, NEW h \in Handles, NEW k \in Keys, CallAdd(p, h, k)
  PROVE  IInv' /\ OthersSame(p)
<1> DEFINE b == db[p][h]
<1> USE ConstantsOK DEF IInv
<1>1. /\ <<p, b>> \in Sessions /\ b \in Blocks /\ view[<<p, b>>] # None
      /\ closed[p] = None /\ h \in Owned(p)
      /\ added' = [added EXCEPT ![<<p, b>>] = @ \cup {k}]
  BY DEF CallAdd, Open, Owned, Running, TypeOK, Sessions, Handles, DB!Add
<1>2. UNCHANGED <<req, db, heap, mode, opening, closed, at, nested, cut, store, view>>
  BY DEF CallAdd, DB!Add, tableVars, history
<1>3. StoreOK'
  BY <1>1, <1>2 DEF StoreOK
<1>4. TypeOK' /\ OthersSame(p)
  <2>1. \A q \in Procs \ {p} : \A c \in Blocks : added'[<<q, c>>] = added[<<q, c>>]
    <3> HIDE DEF b
    <3> QED  BY <1>1 DEF StoreOK, Sessions
  <2>2. TypeOK'
    BY <1>2 DEF TypeOK
  <2>3. OthersSame(p)
    BY <1>2, <2>1 DEF OthersSame
  <2> QED  BY <2>2, <2>3
<1>5. Owned(p)' = Owned(p) /\ Open(p)' = Open(p) /\ Newest(p)' = Newest(p)
  BY <1>2 DEF Owned, Open, Newest
<1>6. \A c \in Blocks \ {b} : added'[<<p, c>>] = added[<<p, c>>]
  BY <1>1 DEF StoreOK, Sessions
<1>7. ASSUME ~cut[p]  PROVE NoneDangles(p)' /\ Filling(p)'
  <2>1. NoneDangles(p) /\ Filling(p)
    BY <1>7 DEF ProcessOK
  <2>2. \A i \in DOMAIN opening[p] : opening[p][i].block \in Blocks \ {b}
    BY <1>1, <2>1, Frames DEF NoneDangles
  <2> QED  BY <1>2, <1>5, <1>6, <2>1, <2>2 DEF NoneDangles, Filling
<1>8. ASSUME ~cut[p], ~nested[p]  PROVE NoneLost(p)' /\ Alone(p)'
  <2>1. NoneLost(p) /\ Alone(p)
    BY <1>8 DEF ProcessOK
  <2> QED  BY <1>1, <1>2, <1>5, <1>6, <2>1 DEF NoneLost, Alone
<1>9. ProcessOK(p)'
  BY <1>1, <1>2, <1>5, <1>7, <1>8 DEF ProcessOK
<1> QED  BY <1>3, <1>4, <1>9, StepSettled


\* A close of the block of a slot, by the script or by the shutdown: the session
\* is gone, and no other.
LEMMA Close2Ends ==
  ASSUME IInv, NEW p \in Procs, NEW b \in Blocks, NEW force, Close2(p, b, force)
  PROVE  /\ StoreOK'
         /\ heap' = [heap EXCEPT ![p] = @ \ {b}]
         /\ mode' \in [Sessions -> {"r", "w", "c"}]
         /\ view' = [view EXCEPT ![<<p, b>>] = None]
         /\ added' = [added EXCEPT ![<<p, b>>] = {}]
         /\ view[<<p, b>>] # None
         /\ \A c \in Blocks \ {b} : view'[<<p, c>>] = view[<<p, c>>] /\ added'[<<p, c>>] = added[<<p, c>>]
         /\ added'[<<p, b>>] = {}
         /\ \A q \in Procs \ {p} : heap'[q] = heap[q] /\ \A c \in Blocks :
               view'[<<q, c>>] = view[<<q, c>>] /\ added'[<<q, c>>] = added[<<q, c>>]
<1> USE ConstantsOK DEF IInv
<1>1. <<p, b>> \in Sessions
  BY DEF Sessions
<1>2. /\ view[<<p, b>>] # None
      /\ view' = [view EXCEPT ![<<p, b>>] = None]
      /\ added' = [added EXCEPT ![<<p, b>>] = {}]
      /\ store' \in {store, view[<<p, b>>] \cup added[<<p, b>>]}
  BY DEF Close2, DB!Commit, DB!Abandon, DB!Finish
<1>3. StoreOK'
  BY <1>1, <1>2 DEF StoreOK, Snapshots
<1>4. heap' = [heap EXCEPT ![p] = @ \ {b}] /\ mode' \in [Sessions -> {"r", "w", "c"}]
  BY <1>1 DEF Close2, TypeOK
<1>5. \A q \in Procs \ {p} : heap'[q] = heap[q]
  BY <1>4 DEF TypeOK
<1>6. /\ \A c \in Blocks \ {b} : view'[<<p, c>>] = view[<<p, c>>] /\ added'[<<p, c>>] = added[<<p, c>>]
      /\ added'[<<p, b>>] = {}
      /\ \A q \in Procs \ {p} : \A c \in Blocks :
            view'[<<q, c>>] = view[<<q, c>>] /\ added'[<<q, c>>] = added[<<q, c>>]
  BY <1>1, <1>2 DEF StoreOK, Sessions
<1> QED  BY <1>2, <1>3, <1>4, <1>5, <1>6

\* With its slot out of use, the others own what they did.
LEMMA WithoutSlot ==
  ASSUME IInv, NEW p \in Procs, NEW h \in Owned(p), ~cut[p], cut'[p] = cut[p], nested'[p] = nested[p],
         heap'[p] = heap[p] \ {db[p][h]}, opening'[p] = opening[p],
         \A c \in Blocks \ {db[p][h]} :
             view'[<<p, c>>] = view[<<p, c>>] /\ added'[<<p, c>>] = added[<<p, c>>],
         added'[<<p, db[p][h]>>] = {},
         Owned(p)' = Owned(p) \ {h},
         \A i \in Owned(p) \ {h} : db'[p][i] = db[p][i],
         \A i \in Handles : db'[p][i] # db[p][i] => db'[p][i] = None
  PROVE  NoneDangles(p)' /\ Filling(p)' /\ (~nested[p] => NoneLost(p)' /\ Alone(p)')
<1> DEFINE b == db[p][h]
<1> USE ConstantsOK DEF IInv
<1>1. NoneDangles(p) /\ Filling(p) /\ (~nested[p] => NoneLost(p) /\ Alone(p))
  BY DEF ProcessOK
<1>2. \A i \in Owned(p) : db[p][i] \in Blocks
  BY DEF Owned, TypeOK
<1>3. \A i \in Owned(p) \ {h} : db[p][i] # b
  BY <1>1 DEF NoneDangles
<1>4. \A i \in DOMAIN opening[p] : opening[p][i].block \in Blocks \ {b}
  BY <1>1, Frames DEF NoneDangles
<1>5. NoneDangles(p)'
  <2> SUFFICES ASSUME NEW i \in Owned(p) \ {h}
               PROVE  /\ db[p][i] \in heap'[p] /\ view'[<<p, db[p][i]>>] # None
                      /\ \A j \in Owned(p) \ {h} : db[p][j] = db[p][i] => j = i
                      /\ \A k \in DOMAIN opening[p] : opening[p][k].block # db[p][i]
    BY DEF NoneDangles
  <2> QED  BY <1>1, <1>2, <1>3 DEF NoneDangles
<1>6. Filling(p)'
  BY <1>1, <1>4 DEF Filling
<1>7. ASSUME ~nested[p]  PROVE NoneLost(p)'
  <2> SUFFICES ASSUME NEW c \in Blocks, added'[<<p, c>>] # {}
               PROVE  \E i \in Owned(p) \ {h} : db[p][i] = c
    BY DEF NoneLost
  <2>1. c # b /\ added[<<p, c>>] # {}
    OBVIOUS
  <2> QED  BY <1>1, <1>7, <2>1 DEF NoneLost
<1>8. ASSUME ~nested[p]  PROVE Alone(p)'
  <2>1. Len(opening'[p]) <= 1 /\ Newest(p)' = Newest(p)
    BY <1>1, <1>8 DEF Alone, Newest
  <2>2. opening[p] # <<>> => db'[p][Newest(p).slot] = None
    BY <1>1, <1>8, Newly DEF Alone
  <2> QED  BY <2>1, <2>2 DEF Alone
<1> QED  BY <1>5, <1>6, <1>7, <1>8

LEMMA CallCloseKeeps ==
  ASSUME IInv, NEW p \in Procs, NEW h \in Handles, NEW force, CallClose(p, h, force)
  PROVE  IInv' /\ OthersSame(p)
<1> DEFINE b == db[p][h]
<1> USE ConstantsOK DEF IInv
<1>1. b \in Blocks /\ b # None /\ closed[p] = None /\ req[p] = "on" /\ h \in Owned(p)
  BY DEF CallClose, Running, Open, Owned, TypeOK, Handles
<1>2. /\ Close2(p, b, force) /\ closed' = [closed EXCEPT ![p] = h]
      /\ UNCHANGED <<req, db, opening, at, nested, cut>>
  BY DEF CallClose, history
<1>3. /\ StoreOK'
      /\ heap' = [heap EXCEPT ![p] = @ \ {b}]
      /\ mode' \in [Sessions -> {"r", "w", "c"}]
      /\ \A c \in Blocks \ {b} : view'[<<p, c>>] = view[<<p, c>>] /\ added'[<<p, c>>] = added[<<p, c>>]
      /\ added'[<<p, b>>] = {}
      /\ \A q \in Procs \ {p} : heap'[q] = heap[q] /\ \A c \in Blocks :
            view'[<<q, c>>] = view[<<q, c>>] /\ added'[<<q, c>>] = added[<<q, c>>]
  BY <1>1, <1>2, Close2Ends
<1>4. heap'[p] = heap[p] \ {b} /\ heap' \in [Procs -> SUBSET Blocks]
  <2>1. heap \in [Procs -> SUBSET Blocks]
    BY DEF TypeOK
  <2> HIDE DEF b, IInv
  <2> QED  BY <1>3, <2>1
<1>5. TypeOK'
  BY <1>1, <1>2, <1>3, <1>4 DEF TypeOK
<1>6. OthersSame(p)
  BY <1>2, <1>3 DEF TypeOK, OthersSame
<1>7. Owned(p)' = Owned(p) \ {h} /\ closed'[p] = h
  BY <1>1, <1>2 DEF Owned, TypeOK, Handles
<1>8. ~cut[p] => NoneDangles(p)' /\ Filling(p)' /\ (~nested[p] => NoneLost(p)' /\ Alone(p)')
  BY <1>1, <1>2, <1>3, <1>4, <1>7, WithoutSlot
<1>9. ProcessOK(p)'
  BY <1>1, <1>2, <1>7, <1>8 DEF ProcessOK
<1> QED  BY <1>3, <1>5, <1>6, <1>9, StepSettled

LEMMA ClearSlotKeeps ==
  ASSUME IInv, NEW p \in Procs, ClearSlot(p)
  PROVE  IInv' /\ OthersSame(p)
<1> DEFINE c == closed[p]
<1> USE ConstantsOK DEF IInv
<1>1. /\ c \in Handles /\ req[p] = "on"
      /\ db' = [db EXCEPT ![p][c] = None] /\ closed' = [closed EXCEPT ![p] = None]
      /\ UNCHANGED <<req, heap, mode, opening, at, nested, cut, store, view, added>>
  BY DEF ClearSlot, TypeOK, history, storeVars
<1>2. TypeOK' /\ OthersSame(p)
  BY <1>1 DEF TypeOK, OthersSame
<1>3. StoreOK'
  BY <1>1 DEF StoreOK
<1>4. db'[p] = [db[p] EXCEPT ![c] = None] /\ closed'[p] = None /\ req'[p] = "on"
  BY <1>1 DEF TypeOK
<1>5. Owned(p)' = Owned(p) /\ \A i \in Owned(p) : db'[p][i] = db[p][i]
  BY <1>1, <1>4 DEF Owned, TypeOK, Handles
<1>6. ASSUME ~cut[p]  PROVE NoneDangles(p)' /\ Filling(p)'
  <2>1. NoneDangles(p) /\ Filling(p)
    BY <1>6 DEF ProcessOK
  <2> QED  BY <1>1, <1>5, <2>1 DEF NoneDangles, Filling
<1>7. ASSUME ~cut[p], ~nested[p]  PROVE NoneLost(p)' /\ Alone(p)'
  <2>1. NoneLost(p) /\ Alone(p)
    BY <1>7 DEF ProcessOK
  <2>2. opening[p] # <<>> => db'[p][Newest(p).slot] = None
    BY <1>4, <2>1, Newly DEF Alone, TypeOK
  <2>3. Newest(p)' = Newest(p)
    BY <1>1 DEF Newest
  <2> QED  BY <1>1, <1>5, <2>1, <2>2, <2>3 DEF NoneLost, Alone
<1>8. ProcessOK(p)'
  BY <1>1, <1>4, <1>6, <1>7 DEF ProcessOK
<1> QED  BY <1>2, <1>3, <1>8, StepSettled

LEMMA TimeLimitKeeps ==
  ASSUME IInv, NEW p \in Procs, TimeLimit(p)
  PROVE  IInv' /\ OthersSame(p)
<1> USE ConstantsOK DEF IInv
<1>1. /\ closed' = [closed EXCEPT ![p] = None] /\ opening' = [opening EXCEPT ![p] = <<>>]
      /\ cut' = [cut EXCEPT ![p] = TRUE] /\ req[p] = "on"
      /\ UNCHANGED <<req, db, heap, mode, at, nested, store, view, added>>
  BY DEF TimeLimit, storeVars
<1>2. TypeOK'
  <2>1. <<>> \in Seq([slot : Handles, block : Blocks])
    OBVIOUS
  <2> QED  BY <1>1, <2>1 DEF TypeOK
<1>6. OthersSame(p)
  BY <1>1 DEF TypeOK, OthersSame
<1>3. StoreOK'
  BY <1>1 DEF StoreOK
<1>4. closed'[p] = None /\ opening'[p] = <<>> /\ cut'[p] = TRUE
  BY <1>1 DEF TypeOK
<1>5. ProcessOK(p)'
  BY <1>1, <1>4 DEF ProcessOK
<1> QED  BY <1>2, <1>6, <1>3, <1>5, StepSettled


LEMMA EndScriptKeeps ==
  ASSUME IInv, NEW p \in Procs, EndScript(p)
  PROVE  IInv' /\ OthersSame(p)
<1> USE ConstantsOK DEF IInv
<1>1. /\ req' = [req EXCEPT ![p] = "closing"] /\ at' = [at EXCEPT ![p] = 0]
      /\ UNCHANGED <<db, heap, mode, opening, closed, nested, cut, store, view, added>>
      /\ closed[p] = None /\ opening[p] = <<>>
  BY DEF EndScript, Running, tableVars, history, storeVars
<1>2. TypeOK'
  <2>1. req' \in [Procs -> {"off", "on", "closing"}] /\ at' \in [Procs -> 0..MAX_DB_FILES]
    BY <1>1 DEF TypeOK
  <2> QED  BY <1>1, <2>1 DEF TypeOK
<1>3. OthersSame(p)
  BY <1>1 DEF TypeOK, OthersSame
<1>4. StoreOK'
  BY <1>1 DEF StoreOK
<1>5. req'[p] = "closing" /\ at'[p] = 0
  BY <1>1 DEF TypeOK
<1>6. Owned(p)' = Owned(p) /\ Newest(p)' = Newest(p)
  BY <1>1 DEF Owned, Newest
<1>7. /\ NoneDangles(p)' = NoneDangles(p) /\ Filling(p)' = Filling(p)
      /\ NoneLost(p)' = NoneLost(p) /\ Alone(p)' = Alone(p)
  BY <1>1, <1>6 DEF NoneDangles, Filling, NoneLost, Alone
<1>8. ProcessOK(p)'
  BY <1>1, <1>5, <1>7 DEF ProcessOK, Handles
<1> QED  BY <1>2, <1>3, <1>4, <1>8, StepSettled

LEMMA ShutdownSlotKeeps ==
  ASSUME IInv, NEW p \in Procs, ShutdownSlot(p)
  PROVE  IInv' /\ OthersSame(p)
<1> DEFINE h == at[p]
           b == db[p][at[p]]
<1> USE ConstantsOK DEF IInv
<1>1. h \in Handles /\ h \in Nat /\ b \in Blocks /\ b # None /\ closed[p] = None /\ req[p] = "closing"
  BY DEF ShutdownSlot, Open, TypeOK, ProcessOK, Handles
<1>2. h \in Owned(p)
  BY <1>1 DEF Owned, Handles
<1>3. /\ Close2(p, b, "r")
      /\ db' = [db EXCEPT ![p][h] = None] /\ at' = [at EXCEPT ![p] = h + 1]
      /\ UNCHANGED <<req, opening, closed, nested, cut>>
  BY DEF ShutdownSlot, history
<1>4. /\ StoreOK'
      /\ heap' = [heap EXCEPT ![p] = @ \ {b}]
      /\ mode' \in [Sessions -> {"r", "w", "c"}]
      /\ \A c \in Blocks \ {b} : view'[<<p, c>>] = view[<<p, c>>] /\ added'[<<p, c>>] = added[<<p, c>>]
      /\ added'[<<p, b>>] = {}
      /\ \A q \in Procs \ {p} : heap'[q] = heap[q] /\ \A c \in Blocks :
            view'[<<q, c>>] = view[<<q, c>>] /\ added'[<<q, c>>] = added[<<q, c>>]
  BY <1>1, <1>3, Close2Ends
<1>5. heap'[p] = heap[p] \ {b} /\ heap' \in [Procs -> SUBSET Blocks]
  <2>1. heap \in [Procs -> SUBSET Blocks]
    BY DEF TypeOK
  <2> HIDE DEF b, IInv
  <2> QED  BY <1>4, <2>1
<1>6. TypeOK'
  <2>1. db' \in [Procs -> [Handles -> Blocks \cup {None}]] /\ at' \in [Procs -> 0..MAX_DB_FILES]
    BY <1>1, <1>3 DEF TypeOK, Handles
  <2> QED  BY <1>3, <1>4, <1>5, <2>1 DEF TypeOK
<1>7. OthersSame(p)
  BY <1>3, <1>4 DEF TypeOK, OthersSame
<1>8. db'[p] = [db[p] EXCEPT ![h] = None] /\ at'[p] = h + 1 /\ db[p] \in [Handles -> Blocks \cup {None}]
  BY <1>3 DEF TypeOK
<1>9. Owned(p)' = Owned(p) \ {h} /\ \A i \in Owned(p) \ {h} : db'[p][i] = db[p][i]
  BY <1>1, <1>3, <1>8 DEF Owned
<1>10. ~cut[p] => NoneDangles(p)' /\ Filling(p)' /\ (~nested[p] => NoneLost(p)' /\ Alone(p)')
  <2>1. \A i \in Handles : db'[p][i] # db[p][i] => db'[p][i] = None
    BY <1>8
  <2> QED  BY <1>2, <1>3, <1>4, <1>5, <1>9, <2>1, WithoutSlot
<1>11. \A i \in Handles : i < at'[p] => db'[p][i] = None
  BY <1>1, <1>8 DEF ProcessOK, Handles
<1>12. ProcessOK(p)'
  BY <1>1, <1>3, <1>10, <1>11 DEF ProcessOK
<1> QED  BY <1>4, <1>6, <1>7, <1>12, StepSettled

\* A step of the shutdown that passes a slot which nobody owns.
LEMMA PassKeeps ==
  ASSUME IInv, NEW p \in Procs, ShutdownEmpty(p) \/ StalePassed(p)
  PROVE  IInv' /\ OthersSame(p)
<1> USE ConstantsOK DEF IInv
<1>1. /\ at[p] \in Handles /\ at' = [at EXCEPT ![p] = @ + 1] /\ req[p] = "closing"
      /\ db' = [db EXCEPT ![p][at[p]] = None]
      /\ UNCHANGED <<req, heap, mode, opening, closed, nested, cut, store, view, added>>
  BY DEF ShutdownEmpty, StalePassed, Open, TypeOK, tableVars, history, storeVars
<1>2. opening[p] = <<>> /\ closed[p] = None
  BY <1>1 DEF ProcessOK
<1>3. TypeOK'
  <2>1. db' \in [Procs -> [Handles -> Blocks \cup {None}]] /\ at' \in [Procs -> 0..MAX_DB_FILES]
    BY <1>1 DEF TypeOK, Handles
  <2> QED  BY <1>1, <2>1 DEF TypeOK
<1>4. OthersSame(p)
  BY <1>1 DEF TypeOK, OthersSame
<1>5. StoreOK'
  BY <1>1 DEF StoreOK
<1>6. at'[p] = at[p] + 1 /\ db'[p] = [db[p] EXCEPT ![at[p]] = None]
      /\ db[p] \in [Handles -> Blocks \cup {None}]
  BY <1>1 DEF TypeOK
<1>7. \A i \in Handles : i < at'[p] => db'[p][i] = None
  BY <1>1, <1>6 DEF ProcessOK, Handles
<1>8. ASSUME ~cut[p]
      PROVE  NoneDangles(p)' /\ Filling(p)' /\ (~nested[p] => NoneLost(p)' /\ Alone(p)')
  <2>1. NoneDangles(p) /\ Filling(p) /\ (~nested[p] => NoneLost(p) /\ Alone(p))
    BY <1>8 DEF ProcessOK
  <2>2. at[p] \notin Open(p)
    BY <1>1, <1>2, <2>1 DEF ShutdownEmpty, StalePassed, NoneDangles, Open, Owned, Handles
  <2>3. db'[p] = db[p]
    BY <1>1, <1>6, <2>2 DEF Open
  <2>4. Owned(p)' = Owned(p)
    BY <1>1, <2>3 DEF Owned
  <2> QED  BY <1>1, <1>2, <2>1, <2>3, <2>4 DEF NoneDangles, Filling, NoneLost, Alone
<1>9. ProcessOK(p)'
  BY <1>1, <1>2, <1>7, <1>8 DEF ProcessOK
<1> QED  BY <1>3, <1>4, <1>5, <1>9, StepSettled

\* The process is through, or dead, and keeps nothing.
LEMMA DropKeeps ==
  ASSUME IInv, NEW p \in Procs, ShutdownDone(p) \/ StaleUse(p)
  PROVE  IInv' /\ OthersSame(p)
<1> USE ConstantsOK DEF IInv
<1>1. DropProcess(p) /\ closed[p] = None
  BY DEF ShutdownDone, StaleUse, Running, ProcessOK
<1>2. /\ req' = [req EXCEPT ![p] = "off"] /\ at' = [at EXCEPT ![p] = 0]
      /\ heap' = [heap EXCEPT ![p] = {}]
      /\ view' = [s \in Sessions |-> IF s[1] = p THEN None ELSE view[s]]
      /\ added' = [s \in Sessions |-> IF s[1] = p THEN {} ELSE added[s]]
      /\ UNCHANGED <<store, mode, closed, nested, cut>>
  BY <1>1 DEF DropProcess, history
<1>3. /\ db' \in {db, [db EXCEPT ![p] = NoTable]}
      /\ opening' \in {opening, [opening EXCEPT ![p] = <<>>]}
      /\ db'[p] = NoTable /\ opening'[p] = <<>>
  <2>1. CASE ShutdownDone(p)
    <3>1. db[p] \in [Handles -> Blocks \cup {None}] /\ \A h \in Handles : db[p][h] = None
      BY <2>1 DEF ShutdownDone, ProcessOK, Handles, TypeOK
    <3>2. db[p] = NoTable
      BY <3>1 DEF NoTable
    <3>3. opening[p] = <<>>
      BY <2>1 DEF ShutdownDone, ProcessOK
    <3> QED  BY <2>1, <3>2, <3>3 DEF ShutdownDone
  <2>2. CASE StaleUse(p)
    BY <2>2 DEF StaleUse, TypeOK
  <2> QED  BY <2>1, <2>2
<1>4. TypeOK'
  <2>1. <<>> \in Seq([slot : Handles, block : Blocks]) /\ NoTable \in [Handles -> Blocks \cup {None}]
    BY DEF NoTable
  <2>2. db' \in [Procs -> [Handles -> Blocks \cup {None}]]
    BY <1>3, <2>1 DEF TypeOK
  <2>3. opening' \in [Procs -> Seq([slot : Handles, block : Blocks])]
    BY <1>3, <2>1 DEF TypeOK
  <2>4. /\ req' \in [Procs -> {"off", "on", "closing"}] /\ at' \in [Procs -> 0..MAX_DB_FILES]
        /\ heap' \in [Procs -> SUBSET Blocks]
    BY <1>2 DEF TypeOK
  <2> QED  BY <1>2, <2>2, <2>3, <2>4 DEF TypeOK
<1>5. StoreOK'
  BY <1>2 DEF StoreOK, Snapshots
<1>6. OthersSame(p)
  <2>1. \A q \in Procs \ {p} : db'[q] = db[q] /\ opening'[q] = opening[q]
    BY <1>3 DEF TypeOK
  <2>2. \A q \in Procs \ {p} : \A c \in Blocks :
            view'[<<q, c>>] = view[<<q, c>>] /\ added'[<<q, c>>] = added[<<q, c>>]
    BY <1>2 DEF Sessions
  <2> QED  BY <1>2, <2>1, <2>2 DEF OthersSame, TypeOK
<1>7. req'[p] = "off" /\ closed'[p] = None /\ \A c \in Blocks :
         view'[<<p, c>>] = None /\ added'[<<p, c>>] = {}
  BY <1>1, <1>2 DEF TypeOK, Sessions
<1>8. Owned(p)' = {} /\ Open(p)' = {}
  BY <1>3 DEF Owned, Open, NoTable
<1>9. NoneDangles(p)' /\ Filling(p)' /\ NoneLost(p)' /\ Alone(p)'
  BY <1>3, <1>7, <1>8 DEF NoneDangles, Filling, NoneLost, Alone
<1>10. ProcessOK(p)'
  BY <1>3, <1>7, <1>8, <1>9 DEF ProcessOK
<1> QED  BY <1>4, <1>5, <1>6, <1>10, StepSettled

-----------------------------------------------------------------------------
\* The inductive invariant: in a request that no time limit has cut short, the
\* slots a call may use and the opens in progress lead to blocks and sessions of
\* their own; unless opens nest, the slot of the one in progress stays free, so that
\* nothing that was added is lost; and the shutdown empties the table in order.
THEOREM Invariance == Spec => []IInv
<1>1. Init => IInv
  <2> SUFFICES ASSUME Init PROVE IInv
    OBVIOUS
  <2>1. TypeOK
    <3>1. <<>> \in Seq([slot : Handles, block : Blocks])
      OBVIOUS
    <3> QED  BY ConstantsOK, <3>1 DEF Init, TypeOK, NoTable
  <2>2. StoreOK
    BY ConstantsOK DEF Init, DB!Init, StoreOK, Snapshots
  <2>3. \A p \in Procs : Owned(p) = {} /\ Open(p) = {}
    BY DEF Init, NoTable, Owned, Open
  <2>4. ASSUME NEW p \in Procs  PROVE ProcessOK(p)
    <3>1. opening[p] = <<>> /\ closed[p] = None /\ req[p] = "off"
          /\ \A b \in Blocks : view[<<p, b>>] = None /\ added[<<p, b>>] = {}
      BY DEF Init, DB!Init, Sessions
    <3>2. NoneDangles(p) /\ Filling(p) /\ NoneLost(p) /\ Alone(p)
      BY <2>3, <3>1 DEF NoneDangles, Filling, NoneLost, Alone
    <3> QED  BY <2>3, <3>1, <3>2 DEF ProcessOK
  <2> QED  BY <2>1, <2>2, <2>4 DEF IInv
<1>2. IInv /\ [Next]_vars => IInv'
  <2> SUFFICES ASSUME IInv, [Next]_vars PROVE IInv'
    OBVIOUS
  <2>1. ASSUME NEW p \in Procs, Call(p) PROVE IInv'
    BY <2>1, CallOpenKeeps, OpenReturnsKeeps, OpenFailsKeeps, BailoutKeeps, CallAddKeeps,
       CallCloseKeeps, ClearSlotKeeps, TimeLimitKeeps DEF Call
  <2>2. ASSUME NEW p \in Procs, RInit(p) \/ Shutdown(p) PROVE IInv'
    BY <2>2, RInitKeeps, EndScriptKeeps, ShutdownSlotKeeps, PassKeeps, DropKeeps DEF Shutdown
  <2>3. CASE UNCHANGED vars
    <3>1. UNCHANGED <<req, db, heap, mode, opening, closed, at, nested, cut, store, view, added>>
      BY <2>3 DEF vars, tableVars, history, storeVars
    <3>2. TypeOK' = TypeOK /\ StoreOK' = StoreOK
      BY <3>1 DEF TypeOK, StoreOK
    <3>3. \A p \in Procs : ProcessOK(p)' = ProcessOK(p)
      BY <3>1 DEF ProcessOK, NoneDangles, Filling, NoneLost, Alone, Owned, Open, Newest
    <3> QED  BY <3>2, <3>3 DEF IInv
  <2> QED  BY <2>1, <2>2, <2>3 DEF Next
<1> QED  BY <1>1, <1>2, PTL DEF Spec

\* Type correctness of the table of handles.
THEOREM TypeCorrect == Spec => []TypeOK
<1>1. IInv => TypeOK
  BY DEF IInv
<1> QED  BY <1>1, Invariance, PTL

\* No handle dangles, none is shared, and no session with additions loses its handle,
\* in any request without an open within an open and without a time limit in the
\* middle of a close; and no request starts with anything open.
THEOREM SlotsOwn == Spec => []SlotsOwnBlocks
<1>1. IInv => SlotsOwnBlocks
  BY DEF IInv, SlotsOwnBlocks, ProcessOK
<1> QED  BY <1>1, Invariance, PTL

\* Every step is the business of one process.
LEMMA StepIsLocal ==
  ASSUME IInv, NEW p \in Procs, RInit(p) \/ Call(p) \/ Shutdown(p)
  PROVE  IInv' /\ OthersSame(p)
BY RInitKeeps, CallOpenKeeps, OpenReturnsKeeps, OpenFailsKeeps, BailoutKeeps, CallAddKeeps,
   CallCloseKeeps, ClearSlotKeeps, TimeLimitKeeps, EndScriptKeeps, ShutdownSlotKeeps,
   PassKeeps, DropKeeps DEF Call, Shutdown

\* A shutdown dumps what was added: no step of a request in its shutdown that empties
\* a slot or ends the request changes the store, whatever the handles lead to.
THEOREM ShutdownLosesAdditions == Spec => ShutdownCommitsNothing
<1> DEFINE Loses(p) == req[p] = "closing" /\ (db[p] # db'[p] \/ req'[p] # "closing")
                          => UNCHANGED store
<1>1. IInv /\ [Next]_vars => [\A p \in Procs : Loses(p)]_vars
  <2> SUFFICES ASSUME IInv, NEW q \in Procs, RInit(q) \/ Call(q) \/ Shutdown(q), NEW p \in Procs
               PROVE  Loses(p)
    BY DEF Next
  <2>1. CASE p # q
    BY <2>1, StepIsLocal DEF OthersSame
  <2>2. CASE p = q
    <3> SUFFICES ASSUME req[p] = "closing"  PROVE UNCHANGED store
      OBVIOUS
    <3>1. ~Call(p) /\ ~RInit(p) /\ ~EndScript(p)
      BY DEF Call, RInit, EndScript, CallOpen, OpenReturns, OpenFails, Bailout, CallAdd, CallClose,
             ClearSlot, TimeLimit, Running
    <3>2. CASE ShutdownSlot(p)
      BY <3>2 DEF ShutdownSlot, Close2, DB!Abandon
    <3>3. CASE ShutdownEmpty(p) \/ ShutdownDone(p) \/ StaleUse(p) \/ StalePassed(p)
      BY <3>3 DEF ShutdownEmpty, ShutdownDone, StaleUse, StalePassed, DropProcess, storeVars
    <3> QED  BY <2>2, <3>1, <3>2, <3>3 DEF Shutdown
  <2> QED  BY <2>1, <2>2
<1> QED  BY <1>1, Invariance, PTL DEF Spec, ShutdownCommitsNothing

-----------------------------------------------------------------------------
(* What the script sees of its handles.                                    *)

Slots == Procs \X Handles

\* A request of which nothing is claimed: opens nest in it, or a close is cut.
Exempt(p) == nested[p] \/ cut[p]

\* A handle with nothing to see before a step and after it, or with the same session.
LEMMA SameHandle ==
  ASSUME NEW x \in Slots, Held(x)' = Held(x),
         Held(x) => /\ Session(x)' = Session(x)
                    /\ view'[Session(x)] = view[Session(x)]
                    /\ added'[Session(x)] = added[Session(x)]
  PROVE  HandleView'[x] = HandleView[x] /\ HandleAdded'[x] = HandleAdded[x]
BY DEF HandleView, HandleAdded, Slots

LEMMA HeldSession ==
  ASSUME IInv, NEW p \in Procs, NEW h \in Handles, Held(<<p, h>>)
  PROVE  /\ Session(<<p, h>>) \in Sessions /\ Session(<<p, h>>)[1] = p
         /\ Session(<<p, h>>)[2] \in Blocks
<1>1. CASE Pending(<<p, h>>)
  BY <1>1, Newly DEF Pending, Session, Sessions
<1>2. CASE ~Pending(<<p, h>>)
  <2>1. db[p][h] \in Blocks
    BY <1>2 DEF Held, IInv, TypeOK
  <2> QED  BY <1>2, <2>1 DEF Session, Sessions
<1> QED  BY <1>1, <1>2

\* The handles of the other processes are as they were.
LEMMA OtherHandles ==
  ASSUME IInv, NEW p \in Procs, OthersSame(p), NEW q \in Procs \ {p}, NEW h \in Handles
  PROVE  /\ HandleView'[<<q, h>>] = HandleView[<<q, h>>]
         /\ HandleAdded'[<<q, h>>] = HandleAdded[<<q, h>>]
<1> DEFINE x == <<q, h>>
<1>1. Pending(x)' = Pending(x) /\ Held(x)' = Held(x) /\ Session(x)' = Session(x)
  BY DEF OthersSame, Pending, Held, Session, Newest
<1>2. ASSUME Held(x)  PROVE view'[Session(x)] = view[Session(x)] /\ added'[Session(x)] = added[Session(x)]
  <2>1. \A b \in Blocks : view'[<<q, b>>] = view[<<q, b>>] /\ added'[<<q, b>>] = added[<<q, b>>]
    BY DEF OthersSame
  <2>2. PICK b \in Blocks : Session(x) = <<q, b>>
    BY <1>2, HeldSession DEF Session
  <2> QED  BY <2>1, <2>2
<1> QED  BY <1>1, <1>2, SameHandle DEF Slots

\* The same of the handles of the process that moves, seen as a change of one handle.
LEMMA OneHandle ==
  ASSUME IInv, NEW p \in Procs, OthersSame(p), NEW h \in Handles,
         \A i \in Handles \ {h} : /\ HandleView'[<<p, i>>] = HandleView[<<p, i>>]
                                  /\ HandleAdded'[<<p, i>>] = HandleAdded[<<p, i>>]
  PROVE  /\ HandleView' = [HandleView EXCEPT ![<<p, h>>] = HandleView'[<<p, h>>]]
         /\ HandleAdded' = [HandleAdded EXCEPT ![<<p, h>>] = HandleAdded'[<<p, h>>]]
<1>1. \A x \in Slots \ {<<p, h>>} : HandleView'[x] = HandleView[x] /\ HandleAdded'[x] = HandleAdded[x]
  <2> SUFFICES ASSUME NEW q \in Procs, NEW i \in Handles, <<q, i>> # <<p, h>>
               PROVE  /\ HandleView'[<<q, i>>] = HandleView[<<q, i>>]
                      /\ HandleAdded'[<<q, i>>] = HandleAdded[<<q, i>>]
    BY DEF Slots
  <2> QED  BY OtherHandles
<1> QED  BY <1>1 DEF HandleView, HandleAdded, Slots

LEMMA AllHandles ==
  ASSUME IInv, NEW p \in Procs, OthersSame(p),
         \A i \in Handles : /\ HandleView'[<<p, i>>] = HandleView[<<p, i>>]
                            /\ HandleAdded'[<<p, i>>] = HandleAdded[<<p, i>>]
  PROVE  HandleView' = HandleView /\ HandleAdded' = HandleAdded
<1>1. \A x \in Slots : HandleView'[x] = HandleView[x] /\ HandleAdded'[x] = HandleAdded[x]
  <2> SUFFICES ASSUME NEW q \in Procs, NEW i \in Handles
               PROVE  /\ HandleView'[<<q, i>>] = HandleView[<<q, i>>]
                      /\ HandleAdded'[<<q, i>>] = HandleAdded[<<q, i>>]
    BY DEF Slots
  <2> QED  BY OtherHandles
<1> QED  BY <1>1 DEF HandleView, HandleAdded, Slots

\* Two handles of a request that is not exempt lead to two sessions: through two
\* slots, or one through a slot and the other through the one open in progress,
\* whose slot is free.
LEMMA Apart ==
  ASSUME IInv, NEW p \in Procs, ~Exempt(p), NEW h \in Handles, Held(<<p, h>>)
  PROVE  /\ view[Session(<<p, h>>)] # None
         /\ \A i \in Handles \ {h} : Held(<<p, i>>) => Session(<<p, i>>) # Session(<<p, h>>)
         /\ Pending(<<p, h>>) => db[p][h] = None
         /\ ~Pending(<<p, h>>) => h \in Owned(p)
<1>1. NoneDangles(p) /\ Filling(p) /\ Alone(p)
  BY DEF IInv, ProcessOK, Exempt
<1>2. ASSUME NEW i \in Handles, Held(<<p, i>>)
      PROVE  /\ Pending(<<p, i>>) => /\ opening[p] # <<>> /\ Newest(p).slot = i /\ db[p][i] = None
                                     /\ Session(<<p, i>>) = <<p, Newest(p).block>>
             /\ ~Pending(<<p, i>>) => i \in Owned(p) /\ Session(<<p, i>>) = <<p, db[p][i]>>
  BY <1>1, <1>2 DEF Held, Pending, Session, Owned, Alone
<1>3. opening[p] # <<>> => /\ view[<<p, Newest(p).block>>] # None
                           /\ \A i \in Owned(p) : db[p][i] # Newest(p).block
  BY <1>1, Newly DEF Filling, NoneDangles, Newest
<1>4. view[Session(<<p, h>>)] # None
  BY <1>1, <1>2, <1>3 DEF NoneDangles
<1>5. ASSUME NEW i \in Handles \ {h}, Held(<<p, i>>), Session(<<p, i>>) = Session(<<p, h>>)
      PROVE  FALSE
  <2>1. ~(Pending(<<p, i>>) /\ Pending(<<p, h>>))
    BY <1>2, <1>5
  <2>2. CASE ~Pending(<<p, i>>) /\ ~Pending(<<p, h>>)
    BY <1>1, <1>2, <1>5, <2>2 DEF NoneDangles
  <2>3. CASE Pending(<<p, i>>) /\ ~Pending(<<p, h>>)
    BY <1>2, <1>3, <1>5, <2>3
  <2>4. CASE ~Pending(<<p, i>>) /\ Pending(<<p, h>>)
    BY <1>2, <1>3, <1>5, <2>4
  <2> QED  BY <2>1, <2>2, <2>3, <2>4
<1> QED  BY <1>2, <1>4, <1>5

-----------------------------------------------------------------------------
(* How the steps of a request that is not exempt appear to the script.     *)

\* An open: its handle is the slot it has found.
LEMMA CallOpenMaps ==
  ASSUME IInv, NEW p \in Procs, NEW b \in Blocks, NEW m \in {"r", "w", "c"}, CallOpen(p, b, m),
         ~Exempt(p)'
  PROVE  ByHandle!Next
<1> USE ConstantsOK DEF IInv
<1>1. PICK h \in Handles :
         /\ FirstFree(p, h)
         /\ opening' = [opening EXCEPT ![p] = Append(@, [slot |-> h, block |-> b])]
  BY DEF CallOpen
<1>2. PICK v \in {DB!Contents, {}} : view' = [view EXCEPT ![<<p, b>>] = v]
  BY DEF CallOpen, DB!Open
<1>3. /\ <<p, b>> \in Sessions /\ view[<<p, b>>] = None /\ added[<<p, b>>] = {}
      /\ UNCHANGED <<store, added, db, closed, cut>> /\ db[p][h] = None
      /\ nested' = [nested EXCEPT ![p] = @ \/ opening[p] # <<>>]
  BY <1>1 DEF CallOpen, DB!Open, Sessions, StoreOK, FirstFree, Open
<1>4. ~Exempt(p) /\ opening[p] = <<>>
  BY <1>3 DEF Exempt, TypeOK
<1>5. opening'[p] # <<>> /\ Newest(p)' = [slot |-> h, block |-> b]
  <2> DEFINE fr == [slot |-> h, block |-> b]
  <2>1. fr \in Frame /\ opening[p] \in Seq(Frame)
    BY <1>1, Frames DEF Frame
  <2>2. opening'[p] = Append(opening[p], fr)
    BY <1>1 DEF TypeOK
  <2> HIDE DEF fr
  <2>3. opening'[p] # <<>> /\ Len(opening'[p]) = Len(opening[p]) + 1
        /\ opening'[p][Len(opening[p]) + 1] = fr
    BY <2>1, <2>2, Pushed
  <2>4. Newest(p)' = fr
    BY <2>3 DEF Newest
  <2> QED  BY <2>3, <2>4 DEF fr
<1>6. /\ ~Held(<<p, h>>) /\ Pending(<<p, h>>)' /\ Session(<<p, h>>)' = <<p, b>> /\ Held(<<p, h>>)'
  BY <1>3, <1>4, <1>5 DEF Held, Pending, Session
<1>7. ASSUME NEW i \in Handles \ {h}
      PROVE  /\ HandleView'[<<p, i>>] = HandleView[<<p, i>>]
             /\ HandleAdded'[<<p, i>>] = HandleAdded[<<p, i>>]
  <2>1. ~Pending(<<p, i>>) /\ ~Pending(<<p, i>>)'
    BY <1>4, <1>5 DEF Pending
  <2>2. Held(<<p, i>>)' = Held(<<p, i>>) /\ Session(<<p, i>>)' = Session(<<p, i>>)
    BY <1>3, <2>1 DEF Held, Session
  <2>3. Held(<<p, i>>) => /\ view'[Session(<<p, i>>)] = view[Session(<<p, i>>)]
                          /\ added'[Session(<<p, i>>)] = added[Session(<<p, i>>)]
    <3> SUFFICES ASSUME Held(<<p, i>>)  PROVE view'[Session(<<p, i>>)] = view[Session(<<p, i>>)]
      BY <1>3
    <3>1. Session(<<p, i>>) \in Sessions /\ view[Session(<<p, i>>)] # None
      BY <1>4, Apart, HeldSession
    <3> QED  BY <1>2, <1>3, <3>1 DEF StoreOK
  <2> QED  BY <2>2, <2>3, SameHandle DEF Slots
<1>8. OthersSame(p)
  BY CallOpenKeeps
<1>9. /\ HandleView' = [HandleView EXCEPT ![<<p, h>>] = HandleView'[<<p, h>>]]
      /\ HandleAdded' = [HandleAdded EXCEPT ![<<p, h>>] = HandleAdded'[<<p, h>>]]
  BY <1>7, <1>8, OneHandle
<1>10. HandleView'[<<p, h>>] = v /\ HandleView[<<p, h>>] = None
  <2>1. view'[<<p, b>>] = v
    BY <1>2, <1>3 DEF StoreOK
  <2> QED  BY <1>6, <2>1 DEF HandleView
<1>11. HandleAdded'[<<p, h>>] = {} /\ HandleAdded[<<p, h>>] = {}
  BY <1>3, <1>6 DEF HandleAdded
<1>12. HandleAdded' = HandleAdded
  BY <1>9, <1>11 DEF HandleAdded
<1>13. v \in {ByHandle!Contents, {}}
  BY <1>2 DEF DB!Contents, ByHandle!Contents
<1>14. ByHandle!Open(<<p, h>>)
  BY <1>3, <1>9, <1>10, <1>12, <1>13 DEF ByHandle!Open
<1> QED  BY <1>14 DEF ByHandle!Next

\* An open returns, and its handle leads to the session it led to.
LEMMA OpenReturnsMaps ==
  ASSUME IInv, NEW p \in Procs, OpenReturns(p), ~Exempt(p)
  PROVE  UNCHANGED <<store, HandleView, HandleAdded>>
<1> DEFINE s == Newest(p).slot
           b == Newest(p).block
<1> USE ConstantsOK DEF IInv
<1>1. /\ s \in Handles /\ b \in Blocks /\ b # None /\ opening[p] # <<>> /\ opening[p] \in Seq(Frame)
      /\ closed[p] = None
  BY Newly DEF OpenReturns, Running
<1>2. Len(opening[p]) = 1 /\ db[p][s] = None
  <2> DEFINE n == Len(opening[p])
  <2>1. n <= 1 /\ db[p][s] = None
    BY <1>1 DEF ProcessOK, Exempt, Alone
  <2>2. n \in Nat \ {0}
    BY Newly DEF OpenReturns
  <2>3. n = 1
    <3> HIDE DEF n, s, b
    <3> QED  BY <2>1, <2>2
  <2> QED  BY <2>1, <2>3
<1>3. opening'[p] = <<>>
  <2>1. opening'[p] = SubSeq(opening[p], 1, Len(opening[p]) - 1)
    BY DEF OpenReturns, TypeOK
  <2> QED  BY <1>1, <1>2, <2>1
<1>4. /\ UNCHANGED <<closed, store, view, added>>
      /\ db' = [db EXCEPT ![p][s] = b]
  BY DEF OpenReturns, storeVars
<1>5. db'[p] = [db[p] EXCEPT ![s] = b] /\ db[p] \in [Handles -> Blocks \cup {None}]
  BY <1>4 DEF TypeOK
<1>6. ASSUME NEW i \in Handles
      PROVE  Held(<<p, i>>)' = Held(<<p, i>>) /\ (Held(<<p, i>>) => Session(<<p, i>>)' = Session(<<p, i>>))
  <2>1. ~Pending(<<p, i>>)'
    BY <1>3 DEF Pending
  <2>2. CASE i = s
    <3>1. Pending(<<p, i>>) /\ Session(<<p, i>>) = <<p, b>>
      BY <1>1, <2>2 DEF Pending, Session
    <3>2. db'[p][i] = b /\ closed'[p] # i
      <4> HIDE DEF s, b
      <4>1. db'[p][i] = b
        BY <1>1, <1>5, <2>2
      <4>2. closed'[p] = None /\ i # None
        BY <1>1, <1>4 DEF Handles
      <4> QED  BY <4>1, <4>2
    <3>3. Session(<<p, i>>)' = <<p, b>>
      BY <2>1, <3>2 DEF Session
    <3> QED  BY <1>1, <2>1, <3>1, <3>2, <3>3 DEF Held
  <2>3. CASE i # s
    <3>1. ~Pending(<<p, i>>)
      BY <2>3 DEF Pending
    <3>2. db'[p][i] = db[p][i]
      BY <1>5, <2>3
    <3> QED  BY <1>4, <2>1, <3>1, <3>2 DEF Held, Session
  <2> QED  BY <2>2, <2>3
<1>7. ASSUME NEW i \in Handles
      PROVE  /\ HandleView'[<<p, i>>] = HandleView[<<p, i>>]
             /\ HandleAdded'[<<p, i>>] = HandleAdded[<<p, i>>]
  BY <1>4, <1>6, SameHandle DEF Slots
<1>8. OthersSame(p)
  BY OpenReturnsKeeps
<1> QED  BY <1>4, <1>7, <1>8, AllHandles

\* A session ends: that of one handle, which is then out of use.
LEMMA Ends ==
  ASSUME IInv, NEW p \in Procs, ~Exempt(p), OthersSame(p), NEW h \in Handles, Held(<<p, h>>),
         view' = [view EXCEPT ![Session(<<p, h>>)] = None],
         added' = [added EXCEPT ![Session(<<p, h>>)] = {}],
         \/ store' = store
         \/ /\ added[Session(<<p, h>>)] # {}
            /\ store' = view[Session(<<p, h>>)] \cup added[Session(<<p, h>>)],
         ~Held(<<p, h>>)',
         \A i \in Handles \ {h} : /\ Held(<<p, i>>)' = Held(<<p, i>>)
                                  /\ Held(<<p, i>>) => Session(<<p, i>>)' = Session(<<p, i>>)
  PROVE  ByHandle!Next
<1> DEFINE x == <<p, h>>
           e == Session(<<p, h>>)
<1> USE ConstantsOK DEF IInv
<1>1. e \in Sessions /\ view[e] # None
  BY Apart, HeldSession
<1>2. ASSUME NEW i \in Handles \ {h}
      PROVE  /\ HandleView'[<<p, i>>] = HandleView[<<p, i>>]
             /\ HandleAdded'[<<p, i>>] = HandleAdded[<<p, i>>]
  <2>1. ASSUME Held(<<p, i>>)
        PROVE  /\ view'[Session(<<p, i>>)] = view[Session(<<p, i>>)]
               /\ added'[Session(<<p, i>>)] = added[Session(<<p, i>>)]
    <3>1. Session(<<p, i>>) \in Sessions /\ Session(<<p, i>>) # e
      BY <2>1, Apart, HeldSession
    <3> HIDE DEF e
    <3> QED  BY <3>1 DEF StoreOK, e
  <2> QED  BY <2>1, SameHandle DEF Slots
<1>3. /\ HandleView' = [HandleView EXCEPT ![x] = HandleView'[x]]
      /\ HandleAdded' = [HandleAdded EXCEPT ![x] = HandleAdded'[x]]
  BY <1>2, OneHandle
<1>4. HandleView'[x] = None /\ HandleAdded'[x] = {}
  BY DEF HandleView, HandleAdded
<1>5. HandleView[x] = view[e] /\ HandleAdded[x] = added[e]
  BY DEF HandleView, HandleAdded
<1>6. ByHandle!Finish(x)
  BY <1>1, <1>3, <1>4, <1>5 DEF ByHandle!Finish
<1>7. ByHandle!Commit(x) \/ ByHandle!Abandon(x)
  BY <1>5, <1>6 DEF ByHandle!Commit, ByHandle!Abandon
<1> QED  BY <1>7 DEF ByHandle!Next

\* The engine or a fatal error ends an open, the only one: of its session the script
\* has seen no more than the snapshot.
LEMMA OpenEndsMaps ==
  ASSUME IInv, NEW p \in Procs, OpenFails(p) \/ Bailout(p), ~Exempt(p)
  PROVE  ByHandle!Next
<1> USE ConstantsOK DEF IInv
<1>0. PICK s \in Handles, b \in Blocks : s = Newest(p).slot /\ b = Newest(p).block
  BY Newly DEF OpenFails, Bailout
<1>1. <<p, b>> \in Sessions /\ opening[p] # <<>> /\ db[p][s] = None
  BY <1>0, Newly DEF OpenFails, Bailout, ProcessOK, Exempt, Alone
<1>2. opening'[p] = <<>> /\ UNCHANGED <<db, closed, store>>
  BY DEF OpenFails, Bailout, TypeOK, storeVars, DB!Abandon
<1>3. Held(<<p, s>>) /\ ~Held(<<p, s>>)' /\ Session(<<p, s>>) = <<p, b>>
  BY <1>0, <1>1, <1>2 DEF Held, Pending, Session
<1>4. ASSUME NEW i \in Handles \ {s}
      PROVE  Held(<<p, i>>)' = Held(<<p, i>>) /\ Session(<<p, i>>)' = Session(<<p, i>>)
  <2>1. ~Pending(<<p, i>>) /\ ~Pending(<<p, i>>)'
    BY <1>0, <1>2 DEF Pending
  <2> QED  BY <1>2, <2>1 DEF Held, Session
<1>5. OthersSame(p)
  BY OpenFailsKeeps, BailoutKeeps
<1>6. CASE OpenFails(p)
  <2>1. /\ view' = [view EXCEPT ![<<p, b>>] = None]
        /\ added' = [added EXCEPT ![<<p, b>>] = {}]
    BY <1>0, <1>6 DEF OpenFails, DB!Abandon, DB!Finish
  <2> QED  BY <1>1, <1>2, <1>3, <1>4, <1>5, <2>1, Ends
<1>7. CASE Bailout(p)
  <2>1. UNCHANGED <<view, added>>
    BY <1>7 DEF Bailout, storeVars
  <2>2. \A i \in Handles \ {s} : /\ HandleView'[<<p, i>>] = HandleView[<<p, i>>]
                                 /\ HandleAdded'[<<p, i>>] = HandleAdded[<<p, i>>]
    BY <1>4, <2>1, SameHandle DEF Slots
  <2>3. /\ HandleView' = [HandleView EXCEPT ![<<p, s>>] = HandleView'[<<p, s>>]]
        /\ HandleAdded' = [HandleAdded EXCEPT ![<<p, s>>] = HandleAdded'[<<p, s>>]]
    BY <1>1, <1>5, <2>2, OneHandle
  <2>4. /\ HandleView'[<<p, s>>] = None /\ HandleAdded'[<<p, s>>] = {}
        /\ HandleView[<<p, s>>] = view[<<p, b>>]
    BY <1>1, <1>3 DEF HandleView, HandleAdded
  <2>5. view[<<p, b>>] # None
    BY <1>1, <1>3, Apart
  <2>6. ByHandle!Abandon(<<p, s>>)
    BY <1>2, <2>3, <2>4, <2>5 DEF ByHandle!Abandon, ByHandle!Finish
  <2> QED  BY <1>1, <2>6 DEF ByHandle!Next
<1> QED  BY <1>6, <1>7

LEMMA CallAddMaps ==
  ASSUME IInv, NEW p \in Procs, NEW h \in Handles, NEW k \in Keys, CallAdd(p, h, k), ~Exempt(p)
  PROVE  ByHandle!Next
<1> DEFINE b == db[p][h]
           x == <<p, h>>
<1> USE ConstantsOK DEF IInv
<1>1. /\ b # None /\ b \in Blocks /\ closed[p] = None /\ <<p, b>> \in Sessions
      /\ UNCHANGED <<db, closed, opening, store, view>>
      /\ view[<<p, b>>] # None /\ k \notin view[<<p, b>>] \cup added[<<p, b>>]
      /\ added' = [added EXCEPT ![<<p, b>>] = @ \cup {k}]
  BY DEF CallAdd, Open, TypeOK, Sessions, DB!Add, Running, tableVars
<1>2. ~Pending(x)
  BY <1>1 DEF Pending, ProcessOK, Exempt, Alone
<1>3. Held(x) /\ Session(x) = <<p, b>>
  BY <1>1, <1>2 DEF Held, Session, Handles
<1>4. \A i \in Handles : Held(<<p, i>>)' = Held(<<p, i>>) /\ Session(<<p, i>>)' = Session(<<p, i>>)
  BY <1>1 DEF Held, Session, Pending, Newest
<1>5. ASSUME NEW i \in Handles \ {h}
      PROVE  /\ HandleView'[<<p, i>>] = HandleView[<<p, i>>]
             /\ HandleAdded'[<<p, i>>] = HandleAdded[<<p, i>>]
  <2>1. ASSUME Held(<<p, i>>)  PROVE added'[Session(<<p, i>>)] = added[Session(<<p, i>>)]
    <3>1. Session(<<p, i>>) \in Sessions /\ Session(<<p, i>>) # <<p, b>>
      BY <1>3, <2>1, Apart, HeldSession
    <3> HIDE DEF b
    <3> QED  BY <1>1, <3>1 DEF StoreOK
  <2> QED  BY <1>1, <1>4, <2>1, SameHandle DEF Slots
<1>6. OthersSame(p)
  BY CallAddKeeps
<1>7. /\ HandleView' = [HandleView EXCEPT ![x] = HandleView'[x]]
      /\ HandleAdded' = [HandleAdded EXCEPT ![x] = HandleAdded'[x]]
  BY <1>5, <1>6, OneHandle
<1>8. /\ HandleView[x] = view[<<p, b>>] /\ HandleAdded[x] = added[<<p, b>>]
      /\ HandleView'[x] = view'[<<p, b>>] /\ HandleAdded'[x] = added'[<<p, b>>]
  BY <1>3, <1>4 DEF HandleView, HandleAdded
<1>9. added'[<<p, b>>] = added[<<p, b>>] \cup {k}
  BY <1>1 DEF StoreOK
<1>10. HandleView' = HandleView /\ HandleAdded' = [HandleAdded EXCEPT ![x] = @ \cup {k}]
  <2>1. HandleView'[x] = HandleView[x] /\ HandleAdded'[x] = HandleAdded[x] \cup {k}
    BY <1>1, <1>8, <1>9
  <2>2. HandleView' = HandleView
    BY <1>7, <2>1 DEF HandleView
  <2> QED  BY <1>7, <2>1, <2>2
<1>11. ByHandle!Add(x, k)
  BY <1>1, <1>8, <1>10 DEF ByHandle!Add
<1> QED  BY <1>11 DEF ByHandle!Next

\* A close, by the script or by the shutdown, of the block of a slot.
LEMMA CloseMaps ==
  ASSUME IInv, NEW p \in Procs, NEW h \in Handles, ~Exempt(p),
         \/ \E force \in {"r", "*"} : CallClose(p, h, force)
         \/ ShutdownSlot(p) /\ h = at[p]
  PROVE  ByHandle!Next
<1> DEFINE b == db[p][h]
<1> USE ConstantsOK DEF IInv
<1>1. PICK force \in {"r", "*"} : Close2(p, b, force)
  BY DEF CallClose, ShutdownSlot
<1>2. b # None /\ closed[p] = None /\ UNCHANGED opening /\ h # None
  BY DEF CallClose, ShutdownSlot, Open, Running, ProcessOK, Handles
<1>3. ~Pending(<<p, h>>)
  BY <1>2 DEF Pending, ProcessOK, Exempt, Alone
<1>4. Held(<<p, h>>) /\ Session(<<p, h>>) = <<p, b>>
  BY <1>2, <1>3 DEF Held, Session
<1>5. \/ UNCHANGED db /\ closed' = [closed EXCEPT ![p] = h]
      \/ UNCHANGED closed /\ db' = [db EXCEPT ![p][h] = None]
  BY DEF CallClose, ShutdownSlot
<1>6. \A i \in Handles : Pending(<<p, i>>)' = Pending(<<p, i>>) /\ Newest(p)' = Newest(p)
  BY <1>2 DEF Pending, Newest
<1>7. ~Held(<<p, h>>)'
  BY <1>3, <1>5, <1>6 DEF Held, TypeOK
<1>8. ASSUME NEW i \in Handles \ {h}
      PROVE  Held(<<p, i>>)' = Held(<<p, i>>) /\ Session(<<p, i>>)' = Session(<<p, i>>)
  <2>1. db'[p][i] = db[p][i] /\ (closed'[p] = i) = (closed[p] = i)
    <3>1. i # None /\ i # h
      BY DEF Handles
    <3>2. CASE UNCHANGED db /\ closed' = [closed EXCEPT ![p] = h]
      BY <1>2, <3>1, <3>2 DEF TypeOK
    <3>3. CASE UNCHANGED closed /\ db' = [db EXCEPT ![p][h] = None]
      BY <3>1, <3>3 DEF TypeOK
    <3> QED  BY <1>5, <3>2, <3>3
  <2> QED  BY <1>6, <2>1 DEF Held, Session
<1>9. /\ view' = [view EXCEPT ![<<p, b>>] = None]
      /\ added' = [added EXCEPT ![<<p, b>>] = {}]
      /\ \/ store' = store
         \/ added[<<p, b>>] # {} /\ store' = view[<<p, b>>] \cup added[<<p, b>>]
  BY <1>1 DEF Close2, DB!Commit, DB!Abandon, DB!Finish
<1>10. OthersSame(p)
  BY CallCloseKeeps, ShutdownSlotKeeps
<1> QED  BY <1>4, <1>7, <1>8, <1>9, <1>10, Ends

\* The rest: calls and steps of the shutdown that only the table notices, and the end
\* of the request, when nothing is held.
LEMMA RestMaps ==
  ASSUME IInv, NEW p \in Procs, ~Exempt(p)',
         \/ RInit(p) \/ ClearSlot(p) \/ EndScript(p) \/ ShutdownEmpty(p) \/ StalePassed(p)
         \/ ShutdownDone(p) \/ StaleUse(p)
  PROVE  UNCHANGED <<store, HandleView, HandleAdded>>
<1> USE ConstantsOK DEF IInv
<1>1. OthersSame(p) /\ UNCHANGED store
  BY RInitKeeps, ClearSlotKeeps, EndScriptKeeps, PassKeeps, DropKeeps
     DEF RInit, ClearSlot, EndScript, ShutdownEmpty, StalePassed, ShutdownDone, StaleUse,
         DropProcess, storeVars
<1>2. SUFFICES ASSUME NEW i \in Handles
               PROVE  /\ HandleView'[<<p, i>>] = HandleView[<<p, i>>]
                      /\ HandleAdded'[<<p, i>>] = HandleAdded[<<p, i>>]
  BY <1>1, AllHandles
<1>3. CASE RInit(p)
  <2>1. opening[p] = <<>> /\ opening'[p] = <<>> /\ db[p][i] = None /\ db'[p][i] = None
    BY <1>3 DEF RInit, ProcessOK, Open, NoTable, TypeOK
  <2>2. ~Held(<<p, i>>) /\ ~Held(<<p, i>>)'
    BY <2>1 DEF Held, Pending
  <2> QED  BY <2>2 DEF HandleView, HandleAdded
<1>4. CASE ClearSlot(p)
  <2>1. /\ db' = [db EXCEPT ![p][closed[p]] = None] /\ closed' = [closed EXCEPT ![p] = None]
        /\ UNCHANGED <<opening, view, added>> /\ closed[p] \in Handles /\ i # None
    BY <1>4 DEF ClearSlot, TypeOK, storeVars, Handles
  <2>2. Pending(<<p, i>>)' = Pending(<<p, i>>) /\ Newest(p)' = Newest(p)
    BY <2>1 DEF Pending, Newest
  <2>3. closed'[p] = None /\ (i # closed[p] => db'[p][i] = db[p][i]) /\ (i = closed[p] => db'[p][i] = None)
    BY <2>1 DEF TypeOK
  <2>4. Held(<<p, i>>)' = Held(<<p, i>>) /\ (Held(<<p, i>>) => Session(<<p, i>>)' = Session(<<p, i>>))
    BY <2>1, <2>2, <2>3 DEF Held, Session
  <2> QED  BY <2>1, <2>4, SameHandle DEF Slots
<1>5. CASE EndScript(p) \/ ShutdownEmpty(p)
  <2>1. UNCHANGED <<db, opening, closed, view, added>>
    BY <1>5 DEF EndScript, ShutdownEmpty, tableVars, storeVars
  <2> QED  BY <2>1, SameHandle DEF Slots, Held, Session, Pending, Newest
<1>6. CASE StalePassed(p) \/ StaleUse(p)
  <2>1. NoneDangles(p)
    BY <1>6 DEF StalePassed, StaleUse, DropProcess, history, Exempt, ProcessOK
  <2>2. PICK h \in Open(p) : view[<<p, db[p][h]>>] = None
    BY <1>6 DEF StalePassed, StaleUse
  <2>3. closed[p] = None
    BY <1>6 DEF StalePassed, StaleUse, Running, ProcessOK
  <2> QED  BY <2>1, <2>2, <2>3 DEF NoneDangles, Owned, Open, Handles
<1>7. CASE ShutdownDone(p)
  <2>1. /\ opening[p] = <<>> /\ db[p][i] = None /\ UNCHANGED <<db, opening>>
    BY <1>7 DEF ShutdownDone, ProcessOK, Handles
  <2>2. ~Held(<<p, i>>) /\ ~Held(<<p, i>>)'
    BY <2>1 DEF Held, Pending
  <2> QED  BY <2>2 DEF HandleView, HandleAdded
<1> QED  BY <1>3, <1>4, <1>5, <1>6, <1>7

\* The table implements the snapshot store with handles for sessions, until opens
\* nest in a request or a time limit cuts a close short in it, and then in all
\* others: each call acts on the session its handle was opened for.
THEOREM ImplementsSessions == Spec => HandlesAreSessions
<1>1. Init => ByHandle!Init
  <2> SUFFICES ASSUME Init PROVE ByHandle!Init
    OBVIOUS
  <2>1. \A x \in Slots : ~Held(x)
    BY DEF Init, NoTable, Held, Pending, Slots
  <2>2. HandleView = [x \in Slots |-> None] /\ HandleAdded = [x \in Slots |-> {}]
    BY <2>1 DEF HandleView, HandleAdded, Slots
  <2> QED  BY <2>2 DEF Init, DB!Init, ByHandle!Init, Slots
<1>2. IInv /\ [Next]_vars => [ByHandle!Next \/ \E p \in Procs : Astray(p)]_ByHandle!storeVars
  <2> SUFFICES ASSUME IInv, [Next]_vars
               PROVE  \/ ByHandle!Next \/ UNCHANGED <<store, HandleView, HandleAdded>>
                      \/ \E p \in Procs : Astray(p)
    BY DEF ByHandle!storeVars
  <2>1. ASSUME NEW p \in Procs, RInit(p) \/ Call(p) \/ Shutdown(p), Exempt(p)'
        PROVE  Astray(p)
    <3>1. OthersSame(p) /\ (nested'[p] \/ cut'[p])
      BY <2>1, StepIsLocal DEF Exempt
    <3>2. \A q \in Procs \ {p}, h \in Handles :
             /\ HandleView'[<<q, h>>] = HandleView[<<q, h>>]
             /\ HandleAdded'[<<q, h>>] = HandleAdded[<<q, h>>]
      BY <3>1, OtherHandles
    <3> QED  BY <3>1, <3>2 DEF Astray
  <2>2. ASSUME NEW p \in Procs, RInit(p) \/ Call(p) \/ Shutdown(p), ~Exempt(p)'
        PROVE  ByHandle!Next \/ UNCHANGED <<store, HandleView, HandleAdded>>
    <3>1. ~TimeLimit(p)
      BY <2>2 DEF TimeLimit, Exempt, IInv, TypeOK
    <3>2. CASE \E b \in Blocks, m \in {"r", "w", "c"} : CallOpen(p, b, m)
      BY <2>2, <3>2, CallOpenMaps
    <3>3. CASE OpenReturns(p) \/ OpenFails(p) \/ Bailout(p)
      <4>1. ~Exempt(p)
        BY <2>2, <3>3 DEF OpenReturns, OpenFails, Bailout, history, Exempt
      <4> QED  BY <3>3, <4>1, OpenReturnsMaps, OpenEndsMaps
    <3>4. CASE \E h \in Handles : \E k \in Keys : CallAdd(p, h, k)
      <4>1. ~Exempt(p)
        BY <2>2, <3>4 DEF CallAdd, history, Exempt
      <4> QED  BY <3>4, <4>1, CallAddMaps
    <3>5. CASE (\E h \in Handles : \E force \in {"r", "*"} : CallClose(p, h, force)) \/ ShutdownSlot(p)
      <4>1. ~Exempt(p)
        BY <2>2, <3>5 DEF CallClose, ShutdownSlot, history, Exempt
      <4>2. ShutdownSlot(p) => at[p] \in Handles
        BY DEF ShutdownSlot, Open
      <4> QED  BY <3>5, <4>1, <4>2, CloseMaps
    <3>6. CASE \/ RInit(p) \/ ClearSlot(p) \/ EndScript(p) \/ ShutdownEmpty(p) \/ StalePassed(p)
               \/ ShutdownDone(p) \/ StaleUse(p)
      BY <2>2, <3>6, RestMaps
    <3> QED  BY <2>2, <3>1, <3>2, <3>3, <3>4, <3>5, <3>6 DEF Call, Shutdown
  <2>3. CASE UNCHANGED vars
    BY <2>3 DEF vars, tableVars, storeVars, HandleView, HandleAdded, Held, Session, Pending, Newest
  <2> QED  BY <2>1, <2>2, <2>3 DEF Next
<1> QED  BY <1>1, <1>2, Invariance, PTL DEF Spec, HandlesAreSessions

====
