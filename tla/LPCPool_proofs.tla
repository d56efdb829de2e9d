--------------------------- MODULE LPCPool_proofs ---------------------------
(***************************************************************************)
(* Proofs about the serial pool: first its storage, for any files, shapes, *)
(* blocks and bounds, where up to the growth of the buffer no fact about   *)
(* sizes is needed but that a copy either fits or does not; then the       *)
(* relocation vector, for pools of any size, any radix and any addresses;  *)
(* at last the compression, for any records, gaps and length of a run.     *)
(***************************************************************************)
EXTENDS LPCPool, LPCReloc, LPCRle, SequenceTheorems, FiniteSetTheorems, WellFoundedInduction, TLAPS

MemoryOK ==
    /\ heap \subseteq Block
    /\ holds \in [Block -> Content]
    /\ buffer \in Block \cup {None}
    /\ pool \in [type : {"none", "serial", "ro"}, storage : Block \cup {None}]
    /\ interns \in [file : Files \cup {None}, block : Block \cup {None, OutOfPool}]
    /\ buffer # None => buffer \in heap

\* A call below the top of the stack is installing classes.
StackOK ==
    /\ frames \in Seq(Frame)
    /\ \A i \in 1..(Len(frames) - 1) : frames[i].pc = "copy"
    /\ phase # "on" => frames = <<>>

\* What the top call relies on: it has a buffer, the pool lies in it or has been
\* detached, and the copy is whole as far as it has come.
TopOK ==
    frames # <<>> =>
        /\ Top.pc \in {"build", "serialize", "insert", "fetch"} => buffer # None
        /\ Top.pc \in {"serialize", "catch", "insert", "copy"} => pool.storage \in {None, buffer}
        /\ Top.pc = "serialize" => holds[buffer] = [file |-> Top.file, form |-> "pool"]
        /\ Top.pc = "insert" => holds[buffer] = [file |-> Top.file, form |-> "record"]

\* Until a copy-in whose strings lie in the storage is interrupted, only a copy-in
\* has strings there, and they are those of its own pool.
StringsOK ==
    ~interrupted =>
        /\ ~wild
        /\ ~At("copy") => interns.block \notin Block
        /\ At("copy") => interns.block \in {None, OutOfPool, pool.storage}

IInv ==
    /\ MemoryOK
    /\ StackOK
    /\ TopOK
    /\ Reuse => StorageFreed
    /\ StringsOK

-----------------------------------------------------------------------------
(* The operators the actions are made of.                                  *)

LEMMA StorageGiven ==
  ASSUME MemoryOK, NEW n, PoolStorage(n)
  PROVE  /\ heap' \subseteq Block /\ holds' \in [Block -> Content]
         /\ buffer' \in Block /\ buffer' \in heap'
         /\ (Reuse /\ heap \subseteq {buffer}) => heap' = {buffer'}
<1> USE PoolConstants DEF MemoryOK
<1>1. CASE (~Reuse \/ buffer = None) /\ Malloc(n)
  BY <1>1 DEF Malloc, Junk, Content
<1>2. CASE Reuse /\ buffer # None /\ n > size /\ Realloc(n)
  BY <1>2 DEF Realloc
<1>3. CASE Reuse /\ buffer # None /\ n <= size /\ UNCHANGED memVars
  BY <1>3 DEF memVars
<1> QED  BY <1>1, <1>2, <1>3 DEF PoolStorage

LEMMA PoolDestroyed ==
  ASSUME MemoryOK, DestroyPool, pool.storage \in {None, buffer}
  PROVE  /\ MemoryOK'
         /\ pool' = NoPool /\ interns' = NoStrings
         /\ Reuse => UNCHANGED <<heap, buffer>>
         /\ ~wild /\ (interns.block \in Block => interns.block = pool.storage) => ~wild'
<1> USE PoolConstants DEF MemoryOK, DestroyPool, NoPool, NoStrings
<1>1. MemoryOK'
  OBVIOUS
<1>2. ~(~Reuse /\ pool.storage \in Block \ heap)
  OBVIOUS
<1>3. ~wild /\ (interns.block \in Block => interns.block = pool.storage) => ~wild'
  BY <1>2, Zenon
<1> QED  BY <1>1, <1>3

LEMMA TopReplaced ==
  ASSUME StackOK, frames # <<>>, NEW t \in Frame,
         frames' = [frames EXCEPT ![Len(frames)] = t], phase' = "on"
  PROVE  StackOK' /\ frames' # <<>> /\ Len(frames') = Len(frames) /\ Top' = t
<1>1. Len(frames) \in Nat \ {0} /\ Len(frames') = Len(frames)
  BY DEF StackOK
<1>2. frames' \in Seq(Frame) /\ frames'[Len(frames)] = t
  BY <1>1 DEF StackOK
<1>4. frames \in Seq(Frame)
  BY DEF StackOK
<1>3. \A i \in 1..(Len(frames) - 1) : frames'[i] = frames[i]
  <2>2. PICK n \in Nat : n = Len(frames) /\ DOMAIN frames = 1..n
    BY <1>4
  <2>3. \A i \in 1..(n - 1) : i \in 1..n /\ i # n
    BY <2>2
  <2>1. \A i \in 1..(Len(frames) - 1) : i \in DOMAIN frames /\ i # Len(frames)
    BY <2>2, <2>3
  <2> QED  BY <2>1
<1> QED  BY <1>1, <1>2, <1>3 DEF StackOK, Top

LEMMA TopGone ==
  ASSUME StackOK, frames # <<>>, phase' = "on", Return
  PROVE  /\ StackOK' /\ Len(frames') = Len(frames) - 1
         /\ frames' # <<>> => Top'.pc = "copy"
<1> DEFINE n == Len(frames)
<1>1. n \in Nat \ {0} /\ \A i \in 1..(n - 1) : frames[i] \in Frame
  BY DEF StackOK
<1>2. /\ frames' \in Seq(Frame)
      /\ Len(frames') = IF 1 <= n - 1 THEN (n - 1) - 1 + 1 ELSE 0
      /\ \A i \in 1..((n - 1) - 1 + 1) : frames'[i] = frames[1 + i - 1]
  <2> HIDE DEF n
  <2>1. 1 \in Int /\ n - 1 \in Int
    BY <1>1
  <2>2. frames' = SubSeq(frames, 1, n - 1)
    BY DEF Return, n
  <2> QED  BY <1>1, <2>1, <2>2, SubSeqProperties
<1>3. Len(frames') = n - 1 /\ \A i \in 1..(n - 1) : frames'[i] = frames[i]
  <2> HIDE DEF n
  <2>1. (n - 1) - 1 + 1 = n - 1 /\ \A i \in 1..(n - 1) : 1 + i - 1 = i
    BY <1>1
  <2>2. Len(frames') = n - 1
    BY <1>1, <1>2
  <2> QED  BY <1>2, <2>1, <2>2
<1>4. frames' # <<>> => Top'.pc = "copy"
  BY <1>1, <1>2, <1>3 DEF StackOK, Top
<1> QED  BY <1>1, <1>2, <1>3, <1>4 DEF StackOK

LEMMA TopIsFrame ==
  ASSUME StackOK, frames # <<>>
  PROVE  Top \in Frame /\ Len(frames) \in Nat \ {0}
BY DEF StackOK, Top

\* Nothing the invariant is about depends on which files are cached, the counters
\* or the sizes.
LEMMA StringsFree ==
  ASSUME StringsOK, UNCHANGED <<interns, wild, interrupted>>, ~At("copy"), ~At("copy")'
  PROVE  StringsOK'
BY DEF StringsOK

-----------------------------------------------------------------------------
(* One lemma for each action.                                              *)

LEMMA RequestInitKeeps ==
  ASSUME IInv, RequestInit
  PROVE  IInv'
<1> USE PoolConstants DEF IInv
<1>1. frames = <<>> /\ UNCHANGED <<pool, interns, frames, interrupted, wild>> /\ phase' = "on"
  BY DEF RequestInit, StackOK
<1>2. /\ heap' \subseteq Block /\ holds' \in [Block -> Content] /\ buffer' \in Block \cup {None}
      /\ buffer' # None => buffer' \in heap'
      /\ Reuse => heap' = {buffer'}
  <2>1. CASE Reuse
    <3>1. PICK n : Malloc(n)
      BY <2>1 DEF RequestInit
    <3>2. heap = {}
      BY <2>1 DEF StorageFreed, RequestInit
    <3> QED  BY <3>1, <3>2 DEF Malloc, MemoryOK, Junk, Content
  <2>2. CASE ~Reuse
    BY <2>2 DEF RequestInit, MemoryOK
  <2> QED  BY <2>1, <2>2
<1>3. MemoryOK'
  BY <1>1, <1>2 DEF MemoryOK
<1>4. StackOK' /\ TopOK' /\ ~At("copy") /\ ~At("copy")' /\ Len(frames) = 0
  BY <1>1 DEF StackOK, TopOK, At
<1>5. StringsOK'
  BY <1>1, <1>4, StringsFree
<1>6. Reuse => StorageFreed'
  BY <1>1, <1>2 DEF StorageFreed
<1> QED  BY <1>3, <1>4, <1>5, <1>6

LEMMA IncludeKeeps ==
  ASSUME IInv, NEW f \in Files, Include(f)
  PROVE  IInv'
<1> DEFINE t == [file |-> f, block |-> None, request |-> 0,
                 pc |-> IF f \in cached THEN "book" ELSE "storage"]
<1> USE PoolConstants DEF IInv
<1>1. /\ UNCHANGED <<heap, holds, buffer, size, pool, interns, wild, phase>>
      /\ phase = "on" /\ frames' = Append(frames, t)
      /\ frames = <<>> \/ (Handler /\ At("copy") /\ Len(frames) = 1)
  BY DEF Include, memVars
<1>2. t \in Frame
  BY DEF Frame
<1>3. Len(frames) \in Nat /\ frames' \in Seq(Frame) /\ Len(frames') = Len(frames) + 1
  <2> HIDE DEF t
  <2> QED  BY <1>1, <1>2 DEF StackOK
<1>4. frames'[Len(frames')] = t /\ \A i \in 1..Len(frames) : frames'[i] = frames[i]
  BY <1>1, <1>2, <1>3 DEF StackOK
<1>5. \A i \in 1..Len(frames) : frames[i].pc = "copy"
  BY <1>1, <1>3 DEF StackOK, At, Top
<1>6. Top' = t /\ frames' # <<>>
  BY <1>3, <1>4 DEF Top
<1>7. MemoryOK' /\ StackOK' /\ TopOK' /\ ~At("copy")'
  BY <1>1, <1>3, <1>4, <1>5, <1>6 DEF MemoryOK, StackOK, TopOK, At
<1>8. Reuse => StorageFreed'
  BY <1>1 DEF StorageFreed
<1>9. ~interrupted' => ~interrupted /\ interns.block \notin Block
  <2>1. interrupted' = (interrupted \/ Stranded)
    BY DEF Include
  <2>2. ~interrupted' => ~interrupted /\ ~Stranded
    BY <2>1, Zenon
  <2> QED  BY <2>2 DEF Stranded, StringsOK
<1>10. StringsOK'
  BY <1>1, <1>7, <1>9 DEF StringsOK
<1> QED  BY <1>7, <1>8, <1>10

LEMMA PoolsShutDown ==
  ASSUME IInv, PoolShutdown, UNCHANGED <<holds, pool, interrupted>>,
         ~At("copy"), ~At("copy")'
  PROVE  /\ MemoryOK' /\ StringsOK'
         /\ Reuse => heap' = {} /\ buffer' = None
<1> USE PoolConstants DEF IInv
<1>1. MemoryOK'
  BY DEF PoolShutdown, MemoryOK, NoStrings
<1>2. Reuse => heap' = {} /\ buffer' = None
  BY DEF PoolShutdown, StorageFreed, MemoryOK
<1>3. ASSUME ~interrupted' PROVE ~wild' /\ interns'.block \notin Block
  <2>1. ~wild /\ interns.block \notin Block
    BY <1>3 DEF StringsOK
  <2>2. interns'.block \notin Block
    BY <2>1 DEF PoolShutdown, NoStrings
  <2>3. ~wild'
    BY <2>1, Zenon DEF PoolShutdown
  <2> QED  BY <2>2, <2>3
<1>4. StringsOK'
  BY <1>3 DEF StringsOK
<1> QED  BY <1>1, <1>2, <1>4

LEMMA ShutdownKeeps ==
  ASSUME IInv, RequestShutdown \/ CompileError
  PROVE  IInv'
<1> USE DEF IInv
<1>1. /\ frames' = <<>> /\ UNCHANGED <<pool, holds, interrupted>> /\ PoolShutdown
      /\ ~At("copy")
  BY DEF RequestShutdown, CompileError, Bailout, At
<1>2. StackOK' /\ TopOK' /\ ~At("copy")'
  BY <1>1 DEF StackOK, TopOK, At
<1>3. /\ MemoryOK' /\ StringsOK'
      /\ Reuse => heap' = {} /\ buffer' = None
  BY <1>1, <1>2, PoolsShutDown
<1>4. Reuse => StorageFreed'
  BY <1>3 DEF StorageFreed
<1> QED  BY <1>2, <1>3, <1>4

\* A step of the top call that leaves pool and strings alone, and is not one that
\* ends in the installation of classes.
LEMMA TopSteps ==
  ASSUME IInv, frames # <<>>, phase = "on", UNCHANGED <<phase, interns, interrupted, wild>>,
         NEW t \in Frame, frames' = [frames EXCEPT ![Len(frames)] = t],
         ~At("copy"), t.pc # "copy"
  PROVE  StackOK' /\ frames' # <<>> /\ Top' = t /\ StringsOK'
<1> USE DEF IInv
<1>1. StackOK' /\ frames' # <<>> /\ Len(frames') = Len(frames) /\ Top' = t
  BY TopReplaced
<1>2. ~At("copy")'
  BY <1>1 DEF At
<1> QED  BY <1>1, <1>2, StringsFree

LEMMA BookKeeps ==
  ASSUME IInv, Book \/ BookRead
  PROVE  IInv'
<1> DEFINE at == IF Book THEN "build" ELSE "fetch"
           t == [Top EXCEPT !.pc = at]
<1> USE DEF IInv
<1>1. frames # <<>> /\ phase = "on" /\ ~At("copy") /\ UNCHANGED <<phase, interns, interrupted, wild, pool>>
  BY DEF Book, BookRead, At
<1>2. Top \in Frame /\ Len(frames) \in Nat \ {0}
  BY <1>1, TopIsFrame
<1>3. t \in Frame /\ t.pc \in {"build", "fetch"}
  BY <1>2 DEF Frame
<1>4. frames' = [frames EXCEPT ![Len(frames)] = t]
  BY <1>2 DEF Book, BookRead, Goto, Top, At
<1>5. StackOK' /\ frames' # <<>> /\ Top' = t /\ StringsOK'
  <2> HIDE DEF t
  <2> QED  BY <1>1, <1>3, <1>4, TopSteps
<1>6. PICK n : PoolStorage(n)
  BY DEF Book, BookRead
<1>7. /\ heap' \subseteq Block /\ holds' \in [Block -> Content]
      /\ buffer' \in Block /\ buffer' \in heap'
      /\ (Reuse /\ heap \subseteq {buffer}) => heap' = {buffer'}
  BY <1>6, StorageGiven
<1>8. MemoryOK' /\ TopOK'
  BY <1>1, <1>3, <1>5, <1>7, PoolConstants DEF MemoryOK, TopOK
<1>9. Reuse => StorageFreed'
  BY <1>1, <1>7 DEF StorageFreed
<1> QED  BY <1>5, <1>8, <1>9

LEMMA BuildKeeps ==
  ASSUME IInv, Build
  PROVE  IInv'
<1> DEFINE fits == BuildFits(Top.file, size)
           t == [Top EXCEPT !.pc = IF fits THEN "serialize" ELSE "catch"]
<1> USE PoolConstants DEF IInv
<1>1. /\ frames # <<>> /\ phase = "on" /\ ~At("copy") /\ Top.pc = "build"
      /\ UNCHANGED <<phase, interns, interrupted, wild, heap, buffer>>
  BY DEF Build, At
<1>2. Top \in Frame /\ Len(frames) \in Nat \ {0} /\ buffer \in Block
  BY <1>1, TopIsFrame DEF TopOK, MemoryOK
<1>3. t \in Frame /\ t.pc # "copy"
  BY <1>2 DEF Frame
<1>4. frames' = [frames EXCEPT ![Len(frames)] = t]
  BY <1>2 DEF Build, Goto, Top
<1>5. StackOK' /\ frames' # <<>> /\ Top' = t /\ StringsOK'
  <2> HIDE DEF t
  <2> QED  BY <1>1, <1>3, <1>4, TopSteps
<1>6. /\ pool' = [type |-> "serial", storage |-> buffer]
      /\ holds' = [holds EXCEPT ![buffer] =
                      [file |-> Top.file, form |-> IF fits THEN "pool" ELSE "torn"]]
  BY DEF Build
<1>7. Top.file \in Files /\ t.file = Top.file /\ t.pc = IF fits THEN "serialize" ELSE "catch"
  BY <1>2 DEF Frame
<1>8. holds'[buffer] = [file |-> Top.file, form |-> IF fits THEN "pool" ELSE "torn"]
  BY <1>2, <1>6 DEF MemoryOK
<1>9. MemoryOK'
  BY <1>1, <1>2, <1>6, <1>7 DEF MemoryOK, Content
<1>10. TopOK'
  BY <1>1, <1>2, <1>5, <1>6, <1>7, <1>8 DEF TopOK
<1>11. Reuse => StorageFreed'
  BY <1>1 DEF StorageFreed
<1> QED  BY <1>5, <1>9, <1>10, <1>11

LEMMA SerializeKeeps ==
  ASSUME IInv, Serialize
  PROVE  IInv'
<1> DEFINE vecs == VecsFit(Top.file, size)
           whole == vecs /\ PackFits(Top.file, size)
           t == [Top EXCEPT !.pc = IF whole THEN "insert" ELSE "catch"]
<1> USE PoolConstants DEF IInv
<1>1. /\ frames # <<>> /\ phase = "on" /\ ~At("copy") /\ Top.pc = "serialize"
      /\ UNCHANGED <<phase, interns, interrupted, wild, heap, buffer>>
  BY DEF Serialize, At
<1>2. Top \in Frame /\ Len(frames) \in Nat \ {0} /\ buffer \in Block
  BY <1>1, TopIsFrame DEF TopOK, MemoryOK
<1>3. t \in Frame /\ t.pc # "copy"
  BY <1>2 DEF Frame
<1>4. /\ frames' = [frames EXCEPT ![Len(frames)] = t]
      /\ pool' = [pool EXCEPT !.storage = IF vecs THEN None ELSE @]
      /\ holds' = [holds EXCEPT ![buffer].form = IF whole THEN "record" ELSE "torn"]
  BY <1>2 DEF Serialize, Goto, Top
<1>5. StackOK' /\ frames' # <<>> /\ Top' = t /\ StringsOK'
  <2> HIDE DEF t
  <2> QED  BY <1>1, <1>3, <1>4, TopSteps
<1>6. Top.file \in Files /\ t.file = Top.file /\ t.pc = IF whole THEN "insert" ELSE "catch"
  BY <1>2 DEF Frame
<1>7. holds[buffer] = [file |-> Top.file, form |-> "pool"]
  BY <1>1 DEF TopOK
<1>8. holds' = [holds EXCEPT ![buffer] =
                   [file |-> Top.file, form |-> IF whole THEN "record" ELSE "torn"]]
  <2> HIDE DEF whole
  <2>1. [holds[buffer] EXCEPT !.form = IF whole THEN "record" ELSE "torn"]
          = [file |-> Top.file, form |-> IF whole THEN "record" ELSE "torn"]
    BY <1>7
  <2> QED  BY <1>4, <2>1
<1>9. MemoryOK'
  BY <1>1, <1>2, <1>4, <1>6, <1>8 DEF MemoryOK, Content
<1>10. pool'.storage \in {None, buffer}
  BY <1>1, <1>4 DEF TopOK, MemoryOK
<1>11. TopOK'
  BY <1>1, <1>2, <1>5, <1>6, <1>8, <1>10 DEF TopOK, MemoryOK
<1>12. Reuse => StorageFreed'
  BY <1>1 DEF StorageFreed
<1> QED  BY <1>5, <1>9, <1>11, <1>12

\* Destroying the pool leaves the memory sound, and the strings released.
LEMMA ReleaseKeeps ==
  ASSUME IInv, DestroyPool, frames # <<>>, phase = "on",
         Top.pc \in {"catch", "insert", "copy"}
  PROVE  /\ MemoryOK' /\ (Reuse => UNCHANGED <<heap, buffer>>)
         /\ pool' = NoPool /\ interns' = NoStrings
         /\ ~interrupted => ~wild'
<1> USE PoolConstants DEF IInv
<1>1. pool.storage \in {None, buffer}
  BY DEF TopOK
<1>2. /\ MemoryOK' /\ (Reuse => UNCHANGED <<heap, buffer>>)
      /\ pool' = NoPool /\ interns' = NoStrings
      /\ ~wild /\ (interns.block \in Block => interns.block = pool.storage) => ~wild'
  BY <1>1, PoolDestroyed
<1>3. ASSUME ~interrupted
      PROVE  ~wild /\ (interns.block \in Block => interns.block = pool.storage)
  BY <1>3 DEF StringsOK
<1> QED  BY <1>2, <1>3

LEMMA CatchKeeps ==
  ASSUME IInv, Catch
  PROVE  IInv'
<1> DEFINE t == [[Top EXCEPT !.request = Quantum] EXCEPT !.pc = "storage"]
<1> USE PoolConstants DEF IInv
<1>1. frames # <<>> /\ phase = "on" /\ phase' = "on" /\ Top.pc = "catch" /\ DestroyPool
      /\ UNCHANGED interrupted
  BY DEF Catch, At
<1>2. Top \in Frame /\ Len(frames) \in Nat \ {0}
  BY <1>1, TopIsFrame
<1>3. t \in Frame /\ t.pc = "storage"
  BY <1>2 DEF Frame
<1>4. frames' = [frames EXCEPT ![Len(frames)] = t]
  BY <1>2 DEF Catch, Top, StackOK
<1>5. StackOK' /\ frames' # <<>> /\ Len(frames') = Len(frames) /\ Top' = t
  <2> HIDE DEF t
  <2> QED  BY <1>1, <1>3, <1>4, TopReplaced
<1>6. /\ MemoryOK' /\ (Reuse => UNCHANGED <<heap, buffer>>) /\ interns' = NoStrings
      /\ ~interrupted => ~wild'
  BY <1>1, ReleaseKeeps
<1>7. TopOK' /\ ~At("copy")'
  BY <1>3, <1>5 DEF TopOK, At
<1>8. StringsOK'
  BY <1>1, <1>6, <1>7 DEF StringsOK, NoStrings
<1>9. Reuse => StorageFreed'
  BY <1>1, <1>6 DEF StorageFreed
<1> QED  BY <1>5, <1>6, <1>7, <1>8, <1>9

LEMMA ReturnKeeps ==
  ASSUME IInv, Insert \/ CopyIn
  PROVE  IInv'
<1> USE PoolConstants DEF IInv
<1>1. /\ frames # <<>> /\ phase = "on" /\ phase' = "on" /\ Top.pc \in {"insert", "copy"}
      /\ DestroyPool /\ Return /\ UNCHANGED interrupted
  BY DEF Insert, CopyIn, At
<1>2. /\ StackOK' /\ Len(frames') = Len(frames) - 1
      /\ frames' # <<>> => Top'.pc = "copy"
  BY <1>1, TopGone
<1>3. /\ MemoryOK' /\ (Reuse => UNCHANGED <<heap, buffer>>)
      /\ pool' = NoPool /\ interns' = NoStrings
      /\ ~interrupted => ~wild'
  BY <1>1, ReleaseKeeps
<1>4. TopOK'
  BY <1>2, <1>3 DEF TopOK, NoPool
<1>6. StringsOK'
  BY <1>1, <1>3 DEF StringsOK, NoStrings
<1>7. Reuse => StorageFreed'
  BY <1>1, <1>3 DEF StorageFreed
<1> QED  BY <1>2, <1>3, <1>4, <1>6, <1>7

LEMMA FetchKeeps ==
  ASSUME IInv, Fetch
  PROVE  IInv'
<1> DEFINE t == [[Top EXCEPT !.pc = "copy"] EXCEPT !.block = buffer]
           f == Top.file
<1> USE PoolConstants DEF IInv
<1>1. /\ frames # <<>> /\ phase = "on" /\ ~At("copy") /\ Top.pc = "fetch"
      /\ UNCHANGED <<phase, interrupted, wild, heap, buffer>>
  BY DEF Fetch, At
<1>2. Top \in Frame /\ Len(frames) \in Nat \ {0} /\ buffer \in Block /\ buffer \in heap
  BY <1>1, TopIsFrame DEF TopOK, MemoryOK
<1>3. f \in Files /\ t \in Frame /\ t.pc = "copy" /\ t.file = f /\ t.block = buffer
  BY <1>2 DEF Frame
<1>4. frames' = [frames EXCEPT ![Len(frames)] = t]
  BY <1>2 DEF Fetch, Top, StackOK
<1>5. StackOK' /\ frames' # <<>> /\ Len(frames') = Len(frames) /\ Top' = t
  <2> HIDE DEF t
  <2> QED  BY <1>1, <1>3, <1>4, TopReplaced
<1>6. /\ holds' = [holds EXCEPT ![buffer] = [file |-> f, form |-> "pool"]]
      /\ pool' = [type |-> "ro", storage |-> buffer]
  BY DEF Fetch
<1>7. /\ interns'.block \in {None, OutOfPool, buffer}
      /\ interns' \in [file : Files \cup {None}, block : Block \cup {None, OutOfPool}]
  BY <1>2, <1>3 DEF Fetch, NoStrings
<1>8. MemoryOK'
  BY <1>1, <1>2, <1>3, <1>6, <1>7 DEF MemoryOK, Content
<1>9. TopOK'
  BY <1>3, <1>5, <1>6, <1>1 DEF TopOK
<1>12. At("copy")'
  BY <1>1, <1>3, <1>5 DEF At
<1>13. StringsOK'
  BY <1>1, <1>6, <1>7, <1>12 DEF StringsOK
<1>14. Reuse => StorageFreed'
  BY <1>1 DEF StorageFreed
<1> QED  BY <1>5, <1>8, <1>9, <1>13, <1>14

LEMMA FatalKeeps ==
  ASSUME IInv, NEW at \in Failures, Fatal(at)
  PROVE  IInv'
<1> USE PoolConstants DEF IInv, Fatal, Bailout, memVars
<1>1. /\ frames' = <<>> /\ phase = "on" /\ phase' = "on" /\ Top.pc = at
      /\ UNCHANGED <<heap, holds, buffer, pool, interns, wild>>
  BY DEF At
<1>2. MemoryOK' /\ TopOK' /\ ~At("copy")' /\ (Reuse => StorageFreed')
  BY <1>1 DEF MemoryOK, TopOK, At, StorageFreed
<1>3. StackOK' /\ Len(frames') = 0
  BY <1>1 DEF StackOK
<1>4. ~interrupted' => ~interrupted /\ ~Stranded
  BY Zenon
<1>5. StringsOK'
  BY <1>1, <1>2, <1>4 DEF StringsOK, Stranded
<1> QED  BY <1>2, <1>3, <1>5

-----------------------------------------------------------------------------
\* The inductive invariant of the pool: its storage is the buffer or nothing, the
\* copy in it is as whole as the step of the call that is due, and what the pool
\* holds is released before anything else may take it over.
THEOREM Invariance == Spec => []IInv
<1>1. Init => IInv
  <2> SUFFICES ASSUME Init PROVE IInv
    OBVIOUS
  <2>1. frames = <<>> /\ Len(frames) = 0 /\ phase = "off"
    BY DEF Init
  <2>2. MemoryOK /\ StorageFreed
    BY PoolConstants DEF Init, MemoryOK, Junk, Content, NoPool, NoStrings, StorageFreed
  <2>3. StackOK /\ TopOK
    BY <2>1 DEF StackOK, TopOK
  <2>4. StringsOK
    BY <2>1, PoolConstants DEF StringsOK, At, Init, NoStrings
  <2> QED  BY <2>2, <2>3, <2>4 DEF IInv
<1>2. IInv /\ [Next]_vars => IInv'
  <2> SUFFICES ASSUME IInv, [Next]_vars PROVE IInv'
    OBVIOUS
  <2>1. CASE Step
    BY <2>1, BookKeeps, BuildKeeps, SerializeKeeps, CatchKeeps, ReturnKeeps, FetchKeeps DEF Step
  <2>2. CASE UNCHANGED vars
    BY <2>2 DEF vars, IInv, MemoryOK, StackOK, TopOK, Top, StorageFreed, StringsOK,
                Stranded, At
  <2> QED  BY <2>1, <2>2, RequestInitKeeps, IncludeKeeps, ShutdownKeeps, FatalKeeps
           DEF Next
<1> QED  BY <1>1, <1>2, PTL DEF Spec

\* The storage in use is allocated, whatever fails, overflows or re-enters lpc, with
\* one buffer or a new one each time.
THEOREM StorageStaysLive == Spec => []StorageLive
<1>1. IInv => StorageLive
  BY PoolConstants DEF IInv, MemoryOK, TopOK, StorageLive
<1> QED  BY <1>1, Invariance, PTL

\* A reused buffer is all that is ever allocated, and the end of the request frees it.
THEOREM ReusedStorageIsFreed == Reuse => (Spec => []StorageFreed)
<1> SUFFICES ASSUME Reuse PROVE Spec => []StorageFreed
  OBVIOUS
<1>1. IInv => StorageFreed
  BY DEF IInv
<1> QED  BY <1>1, Invariance, PTL

\* No number of overflows lets a torn record, or one of another file, into the cache.
THEOREM InsertsWholeRecords == Spec => []RecordsWhole
<1>1. IInv => RecordsWhole
  BY DEF IInv, TopOK, RecordsWhole, At
<1> QED  BY <1>1, Invariance, PTL

\* Free and efree are given live allocations of their own until a copy-in whose
\* strings lie in the storage dies or is re-entered, whatever else fails and
\* whatever an error handler includes.
THEOREM FreesOnlyLive == Spec => []WildIfInterrupted
<1>1. IInv => WildIfInterrupted
  BY DEF IInv, StringsOK, WildIfInterrupted
<1> QED  BY <1>1, Invariance, PTL

-----------------------------------------------------------------------------
(* The growth of the buffer.                                               *)

LEMMA LeastNatural ==
  ASSUME NEW T \in SUBSET Nat, T # {}
  PROVE  \E x \in T : \A y \in T : x <= y
<1> DEFINE R == OpToRel(<, Nat)
<1>1. IsWellFoundedOn(R, Nat)
  BY NatLessThanWellFounded
<1>2. \A x, y \in Nat : <<x, y>> \in R <=> x < y
  BY DEF OpToRel
<1> HIDE DEF R
<1>3. PICK x \in T : \A y \in T : ~(<<y, x>> \in R)
  BY <1>1, WFMin
<1>4. \A z \in T : z \in Nat
  OBVIOUS
<1>5. \A y \in T : ~(y < x)
  BY <1>2, <1>3, <1>4
<1> QED  BY <1>4, <1>5

\* A finite set of numbers has a largest: one that the fewest others exceed.
LEMMA LargestOf ==
  ASSUME NEW S \in SUBSET Nat, IsFiniteSet(S), S # {}
  PROVE  Max(S) \in S /\ \A y \in S : Max(S) >= y
<1> DEFINE above(x) == {y \in S : y > x}
           T == {Cardinality(above(x)) : x \in S}
<1>1. \A x \in S : IsFiniteSet(above(x)) /\ Cardinality(above(x)) \in Nat
  <2> SUFFICES ASSUME NEW x \in S PROVE IsFiniteSet(above(x)) /\ Cardinality(above(x)) \in Nat
    OBVIOUS
  <2>1. above(x) \in SUBSET S
    OBVIOUS
  <2>2. IsFiniteSet(above(x))
    BY <2>1, FS_Subset
  <2> QED  BY <2>2, FS_CardinalityType
<1>2. PICK n \in T : \A m \in T : n <= m
  <2>1. T \in SUBSET Nat /\ T # {}
    BY <1>1
  <2> HIDE DEF T
  <2> QED  BY <2>1, LeastNatural
<1>3. PICK x \in S : \A y \in S : Cardinality(above(x)) <= Cardinality(above(y))
  BY <1>2
<1>4. ASSUME NEW y \in S, y > x PROVE FALSE
  <2>5. \A z \in S : z \in Nat
    OBVIOUS
  <2>1. above(y) \in SUBSET above(x) /\ y \in above(x) /\ y \notin above(y)
    <3>1. \A z \in S : z > y => z > x
      BY <1>4, <2>5
    <3>2. ~(y > y)
      BY <2>5
    <3> QED  BY <1>4, <3>1, <3>2
  <2>2. Cardinality(above(y)) <= Cardinality(above(x)) /\ Cardinality(above(x)) # Cardinality(above(y))
    BY <1>1, <2>1, FS_Subset
  <2>3. Cardinality(above(x)) <= Cardinality(above(y))
    BY <1>3
  <2>4. Cardinality(above(x)) \in Nat /\ Cardinality(above(y)) \in Nat
    BY <1>1
  <2> HIDE DEF above
  <2> QED  BY <2>2, <2>3, <2>4
<1>5. \A y \in S : x >= y
  BY <1>4
<1>6. \E z \in S : \A y \in S : z >= y
  BY <1>5
<1> HIDE DEF above
<1>7. Max(S) = CHOOSE z \in S : \A y \in S : z >= y
  BY DEF Max
<1> QED  BY <1>6, <1>7

\* Sizes are rounded up to quanta, and no further.
LEMMA QuantaOf ==
  ASSUME NEW n \in Nat
  PROVE  /\ Quanta(n) \in Nat /\ \E c \in Nat : Quanta(n) = Quantum * c
         /\ Quanta(n) >= n
         /\ \A k \in Nat : Quantum * k < n => Quantum * k + Quantum <= Quanta(n)
         /\ \A k \in Nat : n = Quantum * k => Quanta(n) = n
<1> DEFINE c == (n + Quantum - 1) \div Quantum
           r == (n + Quantum - 1) % Quantum
<1>1. Quantum \in Nat /\ Quantum > 0
  BY PoolConstants
<1>2. c \in Nat /\ r \in 0..(Quantum - 1) /\ n + Quantum - 1 = (Quantum * c) + r
  BY <1>1
<1>3. Quanta(n) = Quantum * c
  BY DEF Quanta
<1> HIDE DEF c, r
<1>4. Quantum * c \in Nat /\ Quantum * c >= n
  BY <1>1, <1>2
<1>5. ASSUME NEW k \in Nat, Quantum * k < n PROVE Quantum * k + Quantum <= Quantum * c
  <2>1. Quantum * k < Quantum * c
    BY <1>1, <1>4, <1>5
  <2>2. k + 1 <= c
    BY <1>1, <1>2, <2>1
  <2>3. Quantum * (k + 1) <= Quantum * c
    BY <1>1, <1>2, <2>2
  <2>4. Quantum * (k + 1) = Quantum * k + Quantum
    BY <1>1
  <2> QED  BY <2>3, <2>4
<1>6. ASSUME NEW k \in Nat, n = Quantum * k PROVE Quantum * c = n
  <2>1. Quantum * c < n + Quantum
    BY <1>1, <1>2
  <2>2. c < k + 1
    BY <1>1, <1>2, <1>6, <2>1
  <2>3. c >= k
    BY <1>1, <1>2, <1>4, <1>6
  <2> QED  BY <1>2, <1>6, <2>2, <2>3
<1> QED  BY <1>2, <1>3, <1>4, <1>5, <1>6

\* What the buffer may be asked to hold.
Limits == {Quantum} \cup {CopySize(f) : f \in Files} \cup {ReadSize(f) : f \in Files}
                    \cup {Quanta(Shape[f].comp) : f \in Files}

\* The buffer is a number of quanta; a copy that overflowed did not fit in it.
GInv ==
    /\ cached \subseteq Files
    /\ \E k \in Nat : size = Quantum * k
    /\ size <= Max(Limits)
    /\ frames # <<>> /\ (Top.pc = "catch" \/ (Top.pc = "storage" /\ Top.request # 0))
         => ~CopyFits(Top.file, size)

LEMMA Shapes ==
  ASSUME NEW f \in Files
  PROVE  /\ Shape[f].build \in Nat /\ Shape[f].tags \in Nat /\ Shape[f].vecs \in Nat
         /\ Shape[f].excess \in Nat /\ Shape[f].comp \in Nat /\ Shape[f].slack \in Nat
         /\ Shape[f].vecs <= Shape[f].tags /\ Shape[f].vecs > 0 /\ Shape[f].comp > 0
         /\ Rec(f) \in Nat /\ Rec(f) = Shape[f].build + Shape[f].vecs
BY PoolConstants DEF ShapeOK, Rec

\* The least storage for a copy is rounded up from a size that each test of its fit needs.
LEMMA CopySizeOf ==
  ASSUME NEW f \in Files
  PROVE  \E n \in Nat : /\ CopySize(f) = Quanta(n)
                        /\ n >= Shape[f].build + Shape[f].tags + 1
                        /\ n >= Shape[f].build + Shape[f].vecs + 2
                        /\ n >= Rec(f) + Shape[f].excess + 2
<1> DEFINE S == {Shape[f].build + Shape[f].tags + 1, Shape[f].build + Shape[f].vecs + 2,
                 Rec(f) + Shape[f].excess + 2}
<1>1. S \in SUBSET Nat /\ S # {}
  BY Shapes
<1>2. IsFiniteSet(S)
  <2>1. \A a, b, c : IsFiniteSet({a, b, c})
    <3> SUFFICES ASSUME NEW a, NEW b, NEW c PROVE IsFiniteSet({a, b, c})
      OBVIOUS
    <3>1. IsFiniteSet({a}) /\ IsFiniteSet({b}) /\ IsFiniteSet({c})
      BY FS_Singleton
    <3>2. IsFiniteSet({a} \cup {b})
      BY <3>1, FS_Union
    <3>3. IsFiniteSet(({a} \cup {b}) \cup {c})
      BY <3>1, <3>2, FS_Union
    <3>4. ({a} \cup {b}) \cup {c} = {a, b, c}
      OBVIOUS
    <3> QED  BY <3>3, <3>4
  <2> QED  BY <2>1
<1>3. CopySize(f) = Quanta(Max(S))
  BY DEF CopySize
<1>4. Max(S) \in Nat /\ \A y \in S : Max(S) >= y
  <2> HIDE DEF S
  <2> QED  BY <1>1, <1>2, LargestOf
<1>5. /\ Max(S) >= Shape[f].build + Shape[f].tags + 1
      /\ Max(S) >= Shape[f].build + Shape[f].vecs + 2
      /\ Max(S) >= Rec(f) + Shape[f].excess + 2
  BY <1>4
<1> HIDE DEF S
<1> QED  BY <1>3, <1>4, <1>5

\* Where a file does not fit, one quantum more is not too much.
LEMMA RoomToGrow ==
  ASSUME NEW f \in Files, NEW k \in Nat, ~CopyFits(f, Quantum * k)
  PROVE  Quantum * k + Quantum <= CopySize(f)
<1>1. PICK n \in Nat : /\ CopySize(f) = Quanta(n)
                       /\ n >= Shape[f].build + Shape[f].tags + 1
                       /\ n >= Shape[f].build + Shape[f].vecs + 2
                       /\ n >= Rec(f) + Shape[f].excess + 2
  BY CopySizeOf
<1>2. PICK sz \in Nat : sz = Quantum * k
  BY PoolConstants
<1>3. sz < n
  <2> SUFFICES ASSUME sz >= n PROVE CopyFits(f, sz)
    BY <1>2
  <2> QED  BY <1>1, Shapes DEF CopyFits, BuildFits, VecsFit, PackFits
<1> QED  BY <1>1, <1>2, <1>3, QuantaOf

LEMMA ReadSizeOf ==
  ASSUME NEW f \in Files
  PROVE  \E n \in Nat : ReadSize(f) = Quanta(n)
<1>1. Larger(Shape[f].comp, Rec(f)) \in Nat
  BY Shapes DEF Larger
<1>2. Larger(Shape[f].comp, Rec(f)) + Shape[f].slack + 1 \in Nat
  BY <1>1, Shapes
<1> QED  BY <1>2 DEF ReadSize

\* The limits are numbers of quanta, and there is a largest.
LEMMA LimitsOf ==
  /\ Limits \in SUBSET Nat /\ Max(Limits) \in Limits
  /\ \A x \in Limits : x <= Max(Limits)
  /\ \A x \in Limits : \E k \in Nat : x = Quantum * k
<1>1. Quantum \in Nat /\ Quantum * 1 = Quantum
  BY PoolConstants
<1>2. ASSUME NEW x \in Limits PROVE x \in Nat /\ \E k \in Nat : x = Quantum * k
  <2>1. CASE x = Quantum
    BY <1>1, <2>1
  <2>2. CASE \E n \in Nat : x = Quanta(n)
    BY <2>2, QuantaOf
  <2>3. x = Quantum \/ \E n \in Nat : x = Quanta(n)
    BY CopySizeOf, ReadSizeOf, Shapes DEF Limits
  <2> QED  BY <2>1, <2>2, <2>3
<1>3. ASSUME NEW h, DOMAIN h = Files PROVE IsFiniteSet({h[f] : f \in Files})
  <2> DEFINE T == {h[f] : f \in Files}
             g == [f \in Files |-> h[f]]
  <2>1. g \in Surjection(Files, T)
    BY DEF Surjection
  <2>2. IsFiniteSet(Files)
    BY PoolConstants
  <2> HIDE DEF T, g
  <2>3. IsFiniteSet(T)
    BY <2>1, <2>2, FS_Surjection
  <2> QED  BY <2>3 DEF T
<1>4. /\ IsFiniteSet({CopySize(f) : f \in Files}) /\ IsFiniteSet({ReadSize(f) : f \in Files})
      /\ IsFiniteSet({Quanta(Shape[f].comp) : f \in Files})
  <2> DEFINE a == [f \in Files |-> CopySize(f)]
             b == [f \in Files |-> ReadSize(f)]
             c == [f \in Files |-> Quanta(Shape[f].comp)]
  <2>1. /\ {CopySize(f) : f \in Files} = {a[f] : f \in Files}
        /\ {ReadSize(f) : f \in Files} = {b[f] : f \in Files}
        /\ {Quanta(Shape[f].comp) : f \in Files} = {c[f] : f \in Files}
        /\ DOMAIN a = Files /\ DOMAIN b = Files /\ DOMAIN c = Files
    OBVIOUS
  <2> HIDE DEF a, b, c
  <2> QED  BY <1>3, <2>1
<1>5. IsFiniteSet(Limits)
  <2> DEFINE A == {CopySize(f) : f \in Files}
             B == {ReadSize(f) : f \in Files}
             C == {Quanta(Shape[f].comp) : f \in Files}
  <2>1. IsFiniteSet({Quantum}) /\ IsFiniteSet(A) /\ IsFiniteSet(B) /\ IsFiniteSet(C)
    BY <1>4, FS_Singleton
  <2>2. Limits = (({Quantum} \cup A) \cup B) \cup C
    BY DEF Limits
  <2> HIDE DEF A, B, C
  <2>3. IsFiniteSet({Quantum} \cup A)
    BY <2>1, FS_Union
  <2>4. IsFiniteSet(({Quantum} \cup A) \cup B)
    BY <2>1, <2>3, FS_Union
  <2> QED  BY <2>1, <2>2, <2>4, FS_Union
<1>6. Limits \in SUBSET Nat /\ Limits # {}
  BY <1>2 DEF Limits
<1>7. Max(Limits) \in Limits /\ \A y \in Limits : Max(Limits) >= y
  BY <1>5, <1>6, LargestOf
<1>8. \A y \in Limits : y <= Max(Limits)
  BY <1>6, <1>7
<1> QED  BY <1>2, <1>6, <1>7, <1>8

\* The buffer keeps its size or has one it may be asked for.
Sized(n) == (\E k \in Nat : n = Quantum * k) /\ n <= Max(Limits)

LEMMA TopMoves ==
  ASSUME StackOK, frames # <<>>, phase' = "on", NEW at, Goto(at),
         at \in {"build", "serialize", "catch", "insert", "fetch"}
  PROVE  frames' # <<>> /\ Top'.pc = at /\ Top'.file = Top.file
<1> DEFINE t == [Top EXCEPT !.pc = at]
<1>1. Top \in Frame /\ Len(frames) \in Nat \ {0}
  BY TopIsFrame
<1>2. t \in Frame /\ t.pc = at /\ t.file = Top.file
  BY <1>1 DEF Frame
<1>3. frames' = [frames EXCEPT ![Len(frames)] = t]
  BY <1>1 DEF Goto, Top
<1> HIDE DEF t
<1>4. frames' # <<>> /\ Top' = t
  BY <1>2, <1>3, TopReplaced
<1> QED  BY <1>2, <1>4

LEMMA RequestInitGrows ==
  ASSUME IInv, GInv, RequestInit
  PROVE  GInv'
<1> DEFINE S == {1} \cup {Shape[f].comp : f \in cached}
<1>1. frames' = <<>> /\ cached' = cached /\ size' = Quanta(Max(S))
  BY DEF RequestInit, IInv, StackOK, Malloc
<1>2. IsFiniteSet(S)
  <2> DEFINE T == {Shape[f].comp : f \in cached}
             g == [f \in cached |-> Shape[f].comp]
  <2>1. g \in Surjection(cached, T)
    BY DEF Surjection
  <2>2. IsFiniteSet(cached)
    BY PoolConstants, FS_Subset DEF GInv
  <2> HIDE DEF g, T
  <2>3. IsFiniteSet(T) /\ IsFiniteSet({1})
    BY <2>1, <2>2, FS_Surjection, FS_Singleton
  <2>4. IsFiniteSet({1} \cup T)
    BY <2>3, FS_Union
  <2> QED  BY <2>4 DEF T
<1>3. S \in SUBSET Nat /\ S # {}
  BY Shapes DEF GInv
<1>4. Max(S) \in S
  <2> HIDE DEF S
  <2> QED  BY <1>2, <1>3, LargestOf
<1>5. Quanta(Max(S)) \in Limits
  <2>1. CASE Max(S) = 1
    <3>1. Quantum \in Nat /\ Quantum > 0
      BY PoolConstants
    <3>2. Quanta(1) = Quantum
      BY <3>1 DEF Quanta
    <3> QED  BY <2>1, <3>2 DEF Limits
  <2>2. CASE \E f \in cached : Max(S) = Shape[f].comp
    BY <2>2 DEF GInv, Limits
  <2> QED  BY <1>4, <2>1, <2>2
<1> HIDE DEF S
<1>6. Sized(size')
  BY <1>1, <1>5, LimitsOf DEF Sized
<1> QED  BY <1>1, <1>6 DEF GInv, Sized

\* A retry asks for a quantum more than did not suffice.
LEMMA BookGrows ==
  ASSUME IInv, GInv, Book \/ BookRead
  PROVE  GInv'
<1>1. /\ frames # <<>> /\ phase = "on" /\ phase' = "on" /\ cached' = cached
      /\ StackOK /\ Top \in Frame
  <2>1. frames # <<>> /\ phase = "on" /\ phase' = "on" /\ cached' = cached
    BY DEF Book, BookRead, At
  <2> QED  BY <2>1, TopIsFrame DEF IInv
<1>2. Top.file \in Files /\ Top.request \in {0, Quantum} /\ Quantum \in Nat /\ Quantum > 0
  BY <1>1, PoolConstants DEF Frame
<1>3. PICK k \in Nat : size = Quantum * k
  BY DEF GInv
<1>4. \E n : PoolStorage(n) /\ Sized(n)
  <2>1. CASE BookRead
    <3>1. ReadSize(Top.file) \in Limits
      BY <1>2 DEF Limits
    <3> QED  BY <2>1, <3>1, LimitsOf DEF BookRead, Sized
  <2>2. CASE Book /\ ~(Top.request > 0)
    <3>1. Quantum \in Limits
      BY DEF Limits
    <3> QED  BY <2>2, <3>1, LimitsOf DEF Book, Sized
  <2>3. CASE Book /\ Top.request > 0
    <3>1. Top.request = Quantum /\ ~CopyFits(Top.file, size)
      BY <1>1, <1>2, <2>3 DEF GInv, Book, At
    <3>2. size + Quantum <= CopySize(Top.file)
      BY <1>2, <1>3, <3>1, RoomToGrow
    <3>3. CopySize(Top.file) \in Limits
      BY <1>2 DEF Limits
    <3>4. size + Quantum = Quantum * (k + 1) /\ k + 1 \in Nat /\ size + Quantum \in Nat
      BY <1>2, <1>3
    <3>5. Quanta(size + Quantum) = size + Quantum
      BY <3>4, QuantaOf
    <3>6. CopySize(Top.file) \in Nat /\ Max(Limits) \in Nat /\ CopySize(Top.file) <= Max(Limits)
      BY <3>3, LimitsOf
    <3>7. Sized(size + Quantum)
      BY <3>2, <3>4, <3>6 DEF Sized
    <3> QED  BY <2>3, <3>1, <3>5, <3>7 DEF Book
  <2> QED  BY <2>1, <2>2, <2>3
<1>5. PICK n : PoolStorage(n) /\ Sized(n)
  BY <1>4
<1>6. size' = n \/ size' = size
  BY <1>5 DEF PoolStorage, Malloc, Realloc, memVars
<1>7. Sized(size')
  BY <1>5, <1>6 DEF GInv, Sized
<1>8. frames' # <<>> /\ Top'.pc \in {"build", "fetch"}
  BY <1>1, TopMoves DEF Book, BookRead
<1> QED  BY <1>1, <1>7, <1>8 DEF GInv, Sized

LEMMA CopyGrows ==
  ASSUME IInv, GInv, Build \/ Serialize
  PROVE  GInv'
<1>1. /\ frames # <<>> /\ phase = "on" /\ phase' = "on" /\ UNCHANGED <<cached, size>> /\ StackOK
  BY DEF Build, Serialize, At, IInv
<1>2. CASE Build
  <2>1. PICK at \in {"serialize", "catch"} :
           Goto(at) /\ (at = "catch" => ~CopyFits(Top.file, size))
    BY <1>2 DEF Build, CopyFits
  <2>2. frames' # <<>> /\ Top'.pc = at /\ Top'.file = Top.file
    BY <1>1, <2>1, TopMoves
  <2> QED  BY <1>1, <2>1, <2>2 DEF GInv, CopyFits, BuildFits, VecsFit, PackFits
<1>3. CASE Serialize
  <2>1. PICK at \in {"insert", "catch"} :
           Goto(at) /\ (at = "catch" => ~CopyFits(Top.file, size))
    BY <1>3 DEF Serialize, CopyFits
  <2>2. frames' # <<>> /\ Top'.pc = at /\ Top'.file = Top.file
    BY <1>1, <2>1, TopMoves
  <2> QED  BY <1>1, <2>1, <2>2 DEF GInv, CopyFits, BuildFits, VecsFit, PackFits
<1> QED  BY <1>2, <1>3

LEMMA CatchGrows ==
  ASSUME IInv, GInv, Catch
  PROVE  GInv'
<1> DEFINE t == [[Top EXCEPT !.request = Quantum] EXCEPT !.pc = "storage"]
<1>1. /\ frames # <<>> /\ phase = "on" /\ phase' = "on" /\ Top.pc = "catch" /\ StackOK
      /\ UNCHANGED <<cached, size>>
  BY DEF Catch, At, IInv, DestroyPool
<1>2. Top \in Frame /\ Len(frames) \in Nat \ {0}
  BY <1>1, TopIsFrame
<1>3. t \in Frame /\ t.file = Top.file
  BY <1>2 DEF Frame
<1>4. frames' = [frames EXCEPT ![Len(frames)] = t]
  BY <1>1, <1>2 DEF Catch, Top, StackOK
<1> HIDE DEF t
<1>5. frames' # <<>> /\ Top' = t
  BY <1>1, <1>3, <1>4, TopReplaced
<1>6. ~CopyFits(Top.file, size)
  BY <1>1 DEF GInv
<1> QED  BY <1>1, <1>3, <1>5, <1>6 DEF GInv, CopyFits, BuildFits, VecsFit, PackFits

LEMMA FetchGrows ==
  ASSUME IInv, GInv, Fetch
  PROVE  GInv'
<1> DEFINE t == [[Top EXCEPT !.pc = "copy"] EXCEPT !.block = buffer]
<1>1. /\ frames # <<>> /\ phase = "on" /\ phase' = "on" /\ Top.pc = "fetch" /\ StackOK
      /\ UNCHANGED <<cached, size>> /\ buffer \in Block \cup {None}
  BY DEF Fetch, At, IInv, MemoryOK
<1>2. Top \in Frame /\ Len(frames) \in Nat \ {0}
  BY <1>1, TopIsFrame
<1>3. t \in Frame /\ t.pc = "copy"
  BY <1>1, <1>2 DEF Frame
<1>4. frames' = [frames EXCEPT ![Len(frames)] = t]
  BY <1>1, <1>2 DEF Fetch, Top, StackOK
<1> HIDE DEF t
<1>5. frames' # <<>> /\ Top' = t
  BY <1>1, <1>3, <1>4, TopReplaced
<1> QED  BY <1>1, <1>3, <1>5 DEF GInv

LEMMA ReturnGrows ==
  ASSUME IInv, GInv, Insert \/ CopyIn
  PROVE  GInv'
<1>1. /\ frames # <<>> /\ phase = "on" /\ phase' = "on" /\ StackOK /\ Return
      /\ size' = size /\ cached' \in {cached, cached \cup {Top.file}}
  BY DEF Insert, CopyIn, At, IInv, DestroyPool
<1>2. Top.file \in Files
  BY <1>1, TopIsFrame DEF Frame
<1>3. frames' # <<>> => Top'.pc = "copy"
  BY <1>1, TopGone
<1> QED  BY <1>1, <1>2, <1>3 DEF GInv

\* The retries stop as soon as the file fits: whatever the files, however they overflow,
\* fail or re-enter lpc, the buffer never grows past what the largest of them needs.
THEOREM BufferBounded == Spec => []GrowthBounded
<1>1. Init => GInv
  <2>1. Max(Limits) \in Nat
    BY LimitsOf
  <2>2. Quantum * 0 = 0 /\ 0 \in Nat
    BY PoolConstants
  <2> QED  BY <2>1, <2>2 DEF Init, GInv
<1>2. IInv /\ GInv /\ [Next]_vars => GInv'
  <2> SUFFICES ASSUME IInv, GInv, [Next]_vars PROVE GInv'
    OBVIOUS
  <2>1. CASE Step
    BY <2>1, BookGrows, CopyGrows, CatchGrows, FetchGrows, ReturnGrows DEF Step
  <2>2. ASSUME NEW f \in Files, Include(f) PROVE GInv'
    <3>1. PICK t : /\ frames' = Append(frames, t) /\ t.request = 0
                   /\ t.pc \in {"book", "storage"}
      BY <2>2 DEF Include
    <3>2. frames' # <<>> /\ Top' = t
      BY <3>1 DEF Top, IInv, StackOK
    <3> QED  BY <2>2, <3>1, <3>2 DEF Include, GInv, memVars
  <2>3. CASE RequestShutdown \/ CompileError
    <3>1. frames' = <<>> /\ UNCHANGED <<cached, size>>
      BY <2>3 DEF RequestShutdown, CompileError, Bailout
    <3> QED  BY <3>1 DEF GInv
  <2>4. ASSUME NEW at \in Failures, Fatal(at) PROVE GInv'
    BY <2>4 DEF Fatal, Bailout, memVars, GInv
  <2>5. CASE UNCHANGED vars
    BY <2>5 DEF vars, GInv, Top, CopyFits, BuildFits, VecsFit, PackFits
  <2> QED  BY <2>1, <2>2, <2>3, <2>4, <2>5, RequestInitGrows DEF Next
<1>3. GInv => GrowthBounded
  BY DEF GInv, GrowthBounded, Limits
<1> QED  BY <1>1, <1>2, <1>3, Invariance, PTL DEF Spec

-----------------------------------------------------------------------------
(* The relocation vector: the bytes of a delta.                            *)

LEMMA Powers ==
  /\ Radix \in Nat /\ Radix >= 2
  /\ Power(0) = 1 /\ Power(1) = Radix /\ Power(2) = Radix * Radix
  /\ Power(3) = Radix * Radix * Radix /\ Power(4) = Radix * Radix * Radix * Radix
BY RelocConstants DEF Power

LEMMA DivMod ==
  ASSUME NEW d \in Nat
  PROVE  /\ (d % Radix) \in 0..(Radix - 1) /\ d \div Radix \in Nat
         /\ d = ((d \div Radix) * Radix) + (d % Radix)
         /\ d < Radix => d % Radix = d /\ d \div Radix = 0
BY Powers

LEMMA DigitAt ==
  ASSUME NEW d \in Nat
  PROVE  /\ Digit(d, 1) = d % Radix
         /\ Digit(d, 2) = (d \div Radix) % Radix
         /\ Digit(d, 3) = ((d \div Radix) \div Radix) % Radix
         /\ Digit(d, 4) = (((d \div Radix) \div Radix) \div Radix) % Radix
<1>1. d \div 1 = d
  OBVIOUS
<1>2. d \div (Radix * Radix) = (d \div Radix) \div Radix
  BY Powers
<1>3. d \div (Radix * Radix * Radix) = ((d \div Radix) \div Radix) \div Radix
  BY Powers
<1> QED  BY <1>1, <1>2, <1>3, Powers DEF Digit

\* Four digits are enough for what the encoding accepts.
LEMMA DigitsOf ==
  ASSUME NEW d \in Nat, d < Power(MaxBytes)
  PROVE  /\ Digits(d) \in 1..MaxBytes /\ d < Power(Digits(d))
         /\ Digits(d) = 1 \/ d >= Power(Digits(d) - 1)
<1>1. \E k \in 1..MaxBytes : d < Power(k) /\ (k = 1 \/ d >= Power(k - 1))
  <2>1. CASE d < Power(1)
    BY <2>1 DEF MaxBytes
  <2>2. CASE d >= Power(1) /\ d < Power(2)
    BY <2>2 DEF MaxBytes
  <2>3. CASE d >= Power(2) /\ d < Power(3)
    BY <2>3 DEF MaxBytes
  <2>4. CASE d >= Power(3) /\ d < Power(4)
    BY <2>4 DEF MaxBytes
  <2>5. Power(1) \in Nat /\ Power(2) \in Nat /\ Power(3) \in Nat /\ Power(4) \in Nat
    BY Powers
  <2> QED  BY <2>1, <2>2, <2>3, <2>4, <2>5 DEF MaxBytes
<1> QED  BY <1>1 DEF Digits

LEMMA EncodeType ==
  ASSUME NEW d \in Nat, d < Power(MaxBytes)
  PROVE  Encode(d) \in Seq(Byte) /\ Len(Encode(d)) = Digits(d)
<1>1. Digits(d) \in 1..4
  BY DigitsOf DEF MaxBytes
<1>2. ASSUME NEW k \in 1..Digits(d) PROVE Digit(d, k) \in 0..(Radix - 1)
  <2>1. k \in {1, 2, 3, 4}
    BY <1>1
  <2>2. /\ d \div Radix \in Nat /\ (d \div Radix) \div Radix \in Nat
        /\ ((d \div Radix) \div Radix) \div Radix \in Nat
    BY DivMod
  <2> QED  BY <2>1, <2>2, DigitAt, DivMod
<1> DEFINE e(k) == Digit(d, k) + IF k < Digits(d) THEN Radix ELSE 0
<1>3. ASSUME NEW k \in 1..Digits(d) PROVE e(k) \in Byte
  BY <1>1, <1>2, Powers DEF Byte
<1>4. Encode(d) = [k \in 1..Digits(d) |-> e(k)]
  BY DEF Encode
<1> HIDE DEF e
<1> QED  BY <1>1, <1>3, <1>4

\* What relocate_pool reads from the bytes of a delta of up to three digits.
LEMMA Decode ==
  ASSUME NEW d \in Nat, d < Power(3)
  PROVE  LET n == Digits(d)
             e == Encode(d)
             v(k) == IF k <= n THEN (e[k] % Radix) * Power(k - 1) ELSE 0
         IN  /\ n \in 1..3
             /\ \A k \in 1..n : e[k] \in Nat /\ (e[k] >= Radix <=> k < n)
             /\ v(1) + v(2) + v(3) + v(4) = d
             /\ d > 0 => e[1] # 0
<1> DEFINE n == Digits(d)
           e == Encode(d)
           v(k) == IF k <= n THEN (e[k] % Radix) * Power(k - 1) ELSE 0
           a == d \div Radix
           b == a \div Radix
           x == d % Radix
           y == a % Radix
<1>1. d < Power(MaxBytes)
  <2>1. Radix * Radix * Radix <= Radix * Radix * Radix * Radix
    BY Powers
  <2>2. Radix * Radix * Radix \in Nat /\ Radix * Radix * Radix * Radix \in Nat
    BY Powers
  <2> QED  BY <2>1, <2>2, Powers DEF MaxBytes
<1>2. n \in 1..3 /\ d < Power(n) /\ (n = 1 \/ d >= Power(n - 1))
  <2>1. n \in 1..4 /\ d < Power(n) /\ (n = 1 \/ d >= Power(n - 1))
    BY <1>1, DigitsOf DEF MaxBytes
  <2>2. n # 4
    <3>1. Power(3) \in Nat
      BY Powers
    <3> HIDE DEF n
    <3> QED  BY <2>1, <3>1
  <2> HIDE DEF n
  <2> QED  BY <2>1, <2>2
<1>3. /\ a \in Nat /\ b \in Nat /\ x \in 0..(Radix - 1) /\ y \in 0..(Radix - 1)
      /\ d = (a * Radix) + x /\ a = (b * Radix) + y /\ Radix \in Nat /\ Radix >= 2
      /\ (d < Radix => x = d) /\ (a < Radix => y = a) /\ (b < Radix => b % Radix = b)
  BY DivMod, Powers
<1>4. Digit(d, 1) = x /\ Digit(d, 2) = y /\ Digit(d, 3) = b % Radix
  BY DigitAt
<1>5. \A k \in 1..n : e[k] = Digit(d, k) + IF k < n THEN Radix ELSE 0
  BY DEF Encode
<1> HIDE DEF a, b, x, y, n, e
<1>6. \A z \in 0..(Radix - 1) : z % Radix = z /\ (z + Radix) % Radix = z
  BY <1>3
<1>7. CASE n = 1
  <2>1. d < Radix /\ e[1] = d
    BY <1>2, <1>3, <1>4, <1>5, <1>7, Powers
  <2>2. v(1) = d /\ v(2) = 0 /\ v(3) = 0 /\ v(4) = 0
    BY <1>3, <1>6, <1>7, <2>1, Powers
  <2> HIDE DEF v
  <2> QED  BY <1>3, <1>7, <2>1, <2>2 DEF n, e, v
<1>8. CASE n = 2
  <2>1. a < Radix
    <3>1. d < Radix * Radix
      BY <1>2, <1>8, Powers
    <3> QED  BY <1>3, <3>1
  <2>2. e[1] = x + Radix /\ e[2] = a
    BY <1>3, <1>4, <1>5, <1>8, <2>1
  <2>3. v(1) = x /\ v(2) = a * Radix /\ v(3) = 0 /\ v(4) = 0
    BY SMTT(30), <1>3, <1>6, <1>8, <2>1, <2>2, Powers
  <2>4. v(1) + v(2) + v(3) + v(4) = d
    <3> HIDE DEF v
    <3> QED  BY <1>3, <2>3
  <2>5. e[1] >= Radix /\ ~(e[2] >= Radix) /\ e[1] # 0 /\ e[1] \in Nat /\ e[2] \in Nat
    BY <1>3, <2>1, <2>2
  <2>6. \A k \in 1..n : e[k] \in Nat /\ (e[k] >= Radix <=> k < n)
    BY <1>8, <2>5
  <2> QED  BY <1>2, <2>4, <2>5, <2>6 DEF n, e
<1>9. CASE n = 3
  <2>1. b < Radix
    <3>1. d < Radix * Radix * Radix
      BY <1>2, <1>9, Powers
    <3>2. a < Radix * Radix
      BY <1>3, <3>1
    <3> QED  BY <1>3, <3>2
  <2>2. e[1] = x + Radix /\ e[2] = y + Radix /\ e[3] = b
    BY <1>3, <1>4, <1>5, <1>9, <2>1
  <2>3. v(1) = x /\ v(2) = y * Radix /\ v(3) = b * (Radix * Radix) /\ v(4) = 0
    <3>1. b \in 0..(Radix - 1)
      BY <1>3, <2>1
    <3>2. e[1] % Radix = x /\ e[2] % Radix = y /\ e[3] % Radix = b
      BY <1>3, <1>6, <2>2, <3>1
    <3>3. v(1) = x * Power(0) /\ v(2) = y * Power(1) /\ v(3) = b * Power(2) /\ v(4) = 0
      BY <1>9, <3>2
    <3> HIDE DEF v
    <3> QED  BY <1>3, <3>3, Powers
  <2>4. v(1) + v(2) + v(3) + v(4) = d
    <3> HIDE DEF v
    <3>1. d = (((b * Radix) + y) * Radix) + x
      BY <1>3
    <3> QED  BY <1>3, <2>3, <3>1
  <2>5. e[1] >= Radix /\ e[2] >= Radix /\ ~(e[3] >= Radix) /\ e[1] # 0
        /\ e[1] \in Nat /\ e[2] \in Nat /\ e[3] \in Nat
    BY <1>3, <2>1, <2>2
  <2>6. \A k \in 1..n : e[k] \in Nat /\ (e[k] >= Radix <=> k < n)
    BY <1>9, <2>5
  <2> QED  BY <1>2, <2>4, <2>5, <2>6 DEF n, e
<1> QED  BY <1>2, <1>7, <1>8, <1>9

-----------------------------------------------------------------------------
(* The sorted vector.                                                      *)

N == Cardinality(tags)

TagsIn == tags \in (SUBSET (0..Words-1)) \ {{}}

\* The vector holds every tag once, in ascending order.
LEMMA SortedTags ==
  ASSUME TagsIn
  PROVE  /\ N \in Nat \ {0} /\ Sorted \in [1..N -> tags]
         /\ \A i, j \in 1..N : i < j => Sorted[i] < Sorted[j]
         /\ \A t \in tags : \E i \in 1..N : Sorted[i] = t
<1> DEFINE below(t) == {u \in tags : u < t}
           rank == [t \in tags |-> Cardinality(below(t))]
<1>1. IsFiniteSet(tags) /\ N \in Nat /\ Words \in Nat /\ N # 0
  <2>1. IsFiniteSet(0..(Words - 1)) /\ tags \in SUBSET (0..(Words - 1)) /\ Words \in Nat /\ tags # {}
    BY FS_Interval, RelocConstants DEF TagsIn
  <2>2. IsFiniteSet(tags)
    BY <2>1, FS_Subset
  <2> QED  BY <2>1, <2>2, FS_CardinalityType, FS_EmptySet DEF N
<1>2. \A t \in tags : t \in Int
  BY DEF TagsIn
<1>3. ASSUME NEW t \in tags
      PROVE  IsFiniteSet(below(t)) /\ Cardinality(below(t)) \in 0..(N - 1)
  <2>1. below(t) \in SUBSET tags /\ below(t) # tags
    BY <1>2
  <2>2. /\ IsFiniteSet(below(t)) /\ Cardinality(below(t)) <= Cardinality(tags)
        /\ Cardinality(tags) # Cardinality(below(t))
    BY <1>1, <2>1, FS_Subset
  <2>3. Cardinality(below(t)) \in Nat
    BY <2>2, FS_CardinalityType
  <2> QED  BY <1>1, <2>2, <2>3 DEF N
<1>4. ASSUME NEW s \in tags, NEW t \in tags, s < t PROVE rank[s] < rank[t]
  <2>1. below(s) \in SUBSET below(t) /\ s \in below(t) /\ s \notin below(s)
    BY <1>2, <1>4
  <2>2. Cardinality(below(s)) <= Cardinality(below(t)) /\ Cardinality(below(t)) # Cardinality(below(s))
    BY <1>3, <2>1, FS_Subset
  <2> HIDE DEF below
  <2>3. Cardinality(below(s)) \in Int /\ Cardinality(below(t)) \in Int
    <3>1. Cardinality(below(s)) \in 0..(N - 1) /\ Cardinality(below(t)) \in 0..(N - 1)
      BY <1>3
    <3> QED  BY <1>1, <3>1
  <2> QED  BY <2>2, <2>3
<1>5. rank \in [tags -> 0..(N - 1)] /\ \A s, t \in tags : s # t => rank[s] # rank[t]
  <2>1. rank \in [tags -> 0..(N - 1)]
    BY <1>3
  <2>2. \A s, t \in tags : s # t => s < t \/ t < s
    BY <1>2
  <2>3. \A s \in tags : rank[s] \in Int
    BY <1>3
  <2> HIDE DEF rank
  <2> QED  BY <1>4, <2>1, <2>2, <2>3
<1>6. \A n \in 0..(N - 1) : \E t \in tags : rank[t] = n
  <2> HIDE DEF rank
  <2>1. rank \in Injection(tags, 0..(N - 1))
    BY <1>5 DEF Injection, IsInjective
  <2>2. IsFiniteSet(0..(N - 1)) /\ Cardinality(0..(N - 1)) = Cardinality(tags)
    <3>1. 0 \in Int /\ N - 1 \in Int /\ (IF 0 > N - 1 THEN 0 ELSE N - 1 - 0 + 1) = N
      BY <1>1
    <3> QED  BY <3>1, FS_Interval DEF N
  <2>3. rank \in Surjection(tags, 0..(N - 1))
    BY <2>1, <2>2, FS_Injection
  <2> QED  BY <2>3 DEF Surjection
<1>7. \A i \in 1..N : Sorted[i] = CHOOSE t \in tags : Cardinality(below(t)) = i - 1
  BY DEF Sorted, N
<1>8. \A i \in 1..N : Sorted[i] \in tags /\ rank[Sorted[i]] = i - 1
  <2> SUFFICES ASSUME NEW i \in 1..N PROVE Sorted[i] \in tags /\ rank[Sorted[i]] = i - 1
    OBVIOUS
  <2>1. i - 1 \in 0..(N - 1)
    BY <1>1
  <2>2. \E t \in tags : Cardinality(below(t)) = i - 1
    BY <1>6, <2>1
  <2> HIDE DEF below
  <2> QED  BY <1>7, <2>2
<1>9. Sorted \in [1..N -> tags]
  BY <1>8 DEF Sorted, N
<1> HIDE DEF rank
<1>10. \A i, j \in 1..N : i < j => Sorted[i] < Sorted[j]
  <2> SUFFICES ASSUME NEW i \in 1..N, NEW j \in 1..N, i < j PROVE Sorted[i] < Sorted[j]
    OBVIOUS
  <2>1. rank[Sorted[i]] = i - 1 /\ rank[Sorted[j]] = j - 1 /\ Sorted[i] \in tags /\ Sorted[j] \in tags
    BY <1>8
  <2>2. Sorted[i] # Sorted[j]
    BY <2>1
  <2>3. ~(Sorted[j] < Sorted[i])
    <3>1. Sorted[j] < Sorted[i] => rank[Sorted[j]] < rank[Sorted[i]]
      BY <1>4, <2>1
    <3> QED  BY <2>1, <3>1
  <2> QED  BY <1>2, <2>1, <2>2, <2>3
<1>11. \A t \in tags : \E i \in 1..N : Sorted[i] = t
  <2> SUFFICES ASSUME NEW t \in tags PROVE \E i \in 1..N : Sorted[i] = t
    OBVIOUS
  <2>1. rank[t] \in 0..(N - 1)
    BY <1>5
  <2>2. rank[t] + 1 \in 1..N /\ rank[t] + 1 - 1 = rank[t]
    BY <1>1, <2>1
  <2>3. PICK i \in 1..N : i = rank[t] + 1
    BY <2>2
  <2>4. rank[Sorted[i]] = rank[t] /\ Sorted[i] \in tags
    BY <1>8, <2>1, <2>3
  <2> QED  BY <1>5, <2>4
<1> QED  BY <1>1, <1>9, <1>10, <1>11

-----------------------------------------------------------------------------
(* Making the vector.                                                      *)

DeltasOK ==
    pc # "tagged" =>
        /\ Len(deltas) = N
        /\ \A i \in 1..N : deltas[i] = IF i = 1 THEN Sorted[1] ELSE Sorted[i] - Sorted[i - 1]

\* Before the bytes are made, and how many there are when p - 1 entries are done.
Growing ==
    /\ pc = "tagged" => deltas = <<>> /\ bytes = <<>> /\ p = 1 /\ q = 0
    /\ pc = "encode" => /\ p \in 1..(N + 1) /\ q = 0
                        /\ bytes \in Seq(Byte) /\ Len(bytes) <= (p - 1) * MaxBytes

RelocInv ==
    /\ TagsIn /\ base \in Bases /\ pc \in PCs
    /\ DeltasOK
    /\ Growing

LEMMA DeltaFacts ==
  ASSUME TagsIn, DeltasOK, pc # "tagged", NEW i \in 1..N
  PROVE  deltas[i] \in 0..(Words - 1) /\ (i > 1 => deltas[i] > 0)
<1>1. /\ N \in Nat /\ \A k \in 1..N : Sorted[k] \in 0..(Words - 1)
      /\ \A k, j \in 1..N : k < j => Sorted[k] < Sorted[j]
  BY SortedTags DEF TagsIn
<1>2. Words \in Nat
  BY RelocConstants
<1>3. CASE i = 1
  BY <1>1, <1>3 DEF DeltasOK
<1>4. CASE i # 1
  <2>1. i - 1 \in 1..N /\ i - 1 < i
    BY <1>1, <1>4
  <2>2. Sorted[i - 1] < Sorted[i] /\ Sorted[i - 1] \in 0..(Words - 1) /\ Sorted[i] \in 0..(Words - 1)
    BY <1>1, <2>1
  <2>3. deltas[i] = Sorted[i] - Sorted[i - 1]
    BY <1>4 DEF DeltasOK
  <2> QED  BY <1>2, <2>2, <2>3
<1> QED  BY <1>3, <1>4

LEMMA SameTags ==
  ASSUME [RelocNext]_relocVars
  PROVE  tags' = tags /\ N' = N /\ Sorted' = Sorted /\ (TagsIn => TagsIn')
<1>1. tags' = tags
  BY Zenon DEF RelocNext, MakeDeltas, EncodeNext, EncodeEnd, RelocateOut, Reload, RelocateIn, relocVars
<1> QED  BY <1>1 DEF N, Sorted, TagsIn

LEMMA MakeDeltasKeeps ==
  ASSUME RelocInv, MakeDeltas
  PROVE  RelocInv'
<1>1. /\ N' = N /\ Sorted' = Sorted /\ TagsIn'
      /\ N \in Nat \ {0} /\ Sorted \in [1..N -> tags]
  BY SameTags, SortedTags DEF RelocInv, RelocNext
<1>2. Len(Sorted) = N
  BY <1>1
<1>3. /\ pc = "tagged" /\ pc' = "encode" /\ base' = base /\ bytes' = <<>> /\ p' = 1 /\ q' = 0
      /\ deltas' = [i \in 1..N |-> IF i = 1 THEN Sorted[1] ELSE Sorted[i] - Sorted[i - 1]]
  BY <1>2 DEF MakeDeltas, RelocInv, Growing
<1>4. Len(deltas') = N
  BY <1>1, <1>3
<1>5. \A i \in 1..N : deltas'[i] = IF i = 1 THEN Sorted[1] ELSE Sorted[i] - Sorted[i - 1]
  BY <1>3
<1>6. DeltasOK'
  BY <1>1, <1>4, <1>5 DEF DeltasOK
<1>7. Growing'
  BY <1>1, <1>3 DEF Growing, MaxBytes
<1> QED  BY <1>1, <1>3, <1>6, <1>7 DEF RelocInv, PCs

\* One more delta among the bytes.
LEMMA EncodeNextKeeps ==
  ASSUME RelocInv, EncodeNext
  PROVE  RelocInv'
<1>1. /\ N' = N /\ Sorted' = Sorted /\ TagsIn' /\ N \in Nat
  BY SameTags, SortedTags DEF RelocInv, RelocNext
<1>2. /\ pc = "encode" /\ p \in 1..N /\ deltas' = deltas /\ base' = base /\ q' = q /\ q = 0
      /\ bytes \in Seq(Byte) /\ Len(bytes) <= (p - 1) * MaxBytes
  BY <1>1 DEF EncodeNext, RelocInv, Growing, DeltasOK
<1>3. DeltasOK'
  BY <1>1, <1>2 DEF RelocInv, DeltasOK
<1>4. CASE deltas[p] < Power(MaxBytes)
  <2>1. bytes' = bytes \o Encode(deltas[p]) /\ p' = p + 1 /\ pc' = pc
    BY <1>4 DEF EncodeNext
  <2>2. deltas[p] \in Nat
    BY <1>2, DeltaFacts DEF RelocInv
  <2>3. /\ Encode(deltas[p]) \in Seq(Byte) /\ Len(Encode(deltas[p])) = Digits(deltas[p])
        /\ Digits(deltas[p]) \in 1..MaxBytes
    BY <1>4, <2>2, EncodeType, DigitsOf
  <2>8. PICK e \in Seq(Byte) : e = Encode(deltas[p])
    BY <2>3
  <2>4. bytes' = bytes \o e
    BY <2>1, <2>8
  <2>9. PICK n \in 1..MaxBytes : Len(e) = n
    BY <2>3, <2>8
  <2>5. bytes' \in Seq(Byte) /\ Len(bytes') = Len(bytes) + Len(e)
    BY <1>2, <2>4
  <2>6. p' \in 1..(N + 1) /\ Len(bytes') <= (p' - 1) * MaxBytes
    <3>1. Len(bytes) \in Nat /\ Len(e) \in Nat /\ Len(e) <= 4 /\ p \in Nat
      <4>1. Len(bytes) \in Nat /\ p \in Nat
        BY <1>1, <1>2
      <4>2. n \in Nat /\ n <= 4
        BY <2>9 DEF MaxBytes
      <4> QED  BY <2>9, <4>1, <4>2
    <3>2. Len(bytes) + Len(e) <= p * 4
      BY <1>2, <3>1 DEF MaxBytes
    <3>3. p' - 1 = p /\ p' \in 1..(N + 1)
      BY <1>1, <1>2, <2>1, <3>1
    <3> QED  BY <2>5, <3>2, <3>3 DEF MaxBytes
  <2>7. Growing'
    BY <1>1, <1>2, <2>1, <2>5, <2>6 DEF Growing
  <2> QED  BY <1>1, <1>2, <1>3, <2>1, <2>7 DEF RelocInv
<1>5. CASE ~(deltas[p] < Power(MaxBytes))
  <2>1. pc' = "error"
    BY <1>5 DEF EncodeNext
  <2> QED  BY <1>1, <1>2, <1>3, <2>1 DEF RelocInv, PCs, Growing
<1> QED  BY <1>4, <1>5

\* The invariant is inductive: the deltas that are made sum up to the sorted tags, and
\* the encoding has written at most MaxBytes for each of those it has read.
THEOREM RelocInvariance == RelocSpec => []RelocInv
<1>1. RelocInit => RelocInv
  BY DEF RelocInit, RelocInv, TagsIn, PCs, DeltasOK, Growing
<1>2. RelocInv /\ [RelocNext]_relocVars => RelocInv'
  <2> SUFFICES ASSUME RelocInv, [RelocNext]_relocVars PROVE RelocInv'
    OBVIOUS
  <2>1. N' = N /\ Sorted' = Sorted /\ TagsIn'
    BY SameTags DEF RelocInv
  <2>2. CASE EncodeEnd \/ RelocateOut \/ Reload \/ RelocateIn
    <3>1. /\ pc' \in PCs \ {"tagged", "encode"} /\ pc # "tagged" /\ deltas' = deltas /\ base' \in Bases
      <4>1. CASE EncodeEnd
        BY <4>1 DEF EncodeEnd, PCs, RelocInv
      <4>2. CASE RelocateOut
        BY <4>2 DEF RelocateOut, Relocate, PCs, RelocInv
      <4>3. CASE Reload
        BY <4>3 DEF Reload, PCs
      <4>4. CASE RelocateIn
        BY <4>4 DEF RelocateIn, Relocate, PCs, RelocInv
      <4> QED  BY <2>2, <4>1, <4>2, <4>3, <4>4
    <3> QED  BY <2>1, <3>1 DEF RelocInv, DeltasOK, Growing
  <2>3. CASE UNCHANGED relocVars
    BY <2>1, <2>3 DEF RelocInv, DeltasOK, Growing, relocVars
  <2> QED  BY <2>2, <2>3, MakeDeltasKeeps, EncodeNextKeeps DEF RelocNext
<1> QED  BY <1>1, <1>2, PTL DEF RelocSpec

\* The bytes written over the front of the vector of deltas never reach an entry still to
\* be read, whatever the gaps between pointers.
THEOREM VectorsApart == RelocSpec => []UnreadKept
<1>1. RelocInv => UnreadKept
  <2> SUFFICES ASSUME RelocInv, pc = "encode" PROVE Len(bytes) <= (p - 1) * WordBytes
    BY DEF UnreadKept
  <2>1. p - 1 \in Nat /\ Len(bytes) \in Nat /\ Len(bytes) <= (p - 1) * MaxBytes
    <3>1. N \in Nat
      BY SortedTags DEF RelocInv
    <3> QED  BY <3>1 DEF RelocInv, Growing
  <2>2. MaxBytes <= WordBytes /\ MaxBytes \in Nat /\ WordBytes \in Nat
    BY RelocConstants DEF MaxBytes
  <2>3. (p - 1) * MaxBytes <= (p - 1) * WordBytes
    <3> HIDE DEF MaxBytes
    <3> QED  BY <2>1, <2>2
  <2> QED  BY <2>1, <2>2, <2>3
<1> QED  BY <1>1, RelocInvariance, PTL

-----------------------------------------------------------------------------
(* Walking the vector.                                                     *)

\* off says where the bytes of each of the first m deltas begin.
Encoded(off, m) ==
    /\ off \in [1..(m + 1) -> Nat] /\ off[1] = 1
    /\ \A i \in 1..(m + 1) : off[i] \in 1..(Len(bytes) + 1)
    /\ \A i \in 1..m :
          /\ off[i + 1] = off[i] + Digits(deltas[i])
          /\ \A k \in 1..Digits(deltas[i]) : bytes[off[i] + k - 1] = Encode(deltas[i])[k]

Vector(off) == Encoded(off, N) /\ off[N + 1] = Len(bytes) /\ bytes[off[N + 1]] = 0

\* The walk has yet to do the j-th pointer.
Stands(off, j) == p = off[j] /\ q = IF j = 1 THEN 0 ELSE Sorted[j - 1]

\* The pool, with the pointers as f has them.
Holds(f(_)) == mem = [w \in 0..Words-1 |-> IF w \in tags THEN f(w) ELSE 0]
Absolute    == Holds(LAMBDA w : base + w)
Relative    == Holds(LAMBDA w : w)
OutTo(j)    == Holds(LAMBDA w : IF w < Sorted[j] THEN w ELSE base + w)
InTo(j)     == Holds(LAMBDA w : IF w < Sorted[j] THEN base + w ELSE w)

Restoring ==
    /\ pc \in {"tagged", "encode", "ready"} => Absolute
    /\ pc = "encode" => \E k \in Nat : \E off \in [1..k -> Nat] :
            p = k /\ Encoded(off, k - 1) /\ off[k] = Len(bytes) + 1
    /\ pc \in {"copyout", "record", "copyin"} => \E off \in [1..(N + 1) -> Nat] :
            /\ Vector(off)
            /\ pc = "copyout" => \E j \in 1..N : Stands(off, j) /\ OutTo(j)
            /\ pc = "record"  => Stands(off, 1) /\ Relative
            /\ pc = "copyin"  => \E j \in 1..N : Stands(off, j) /\ InTo(j)
    /\ pc # "error"

\* One turn of the loop of relocate_pool finds the next pointer, and stops at the last.
LEMMA Turn ==
  ASSUME Words <= Power(3), RelocInv, pc # "tagged", NEW off, Vector(off), NEW j \in 1..N, Stands(off, j)
  PROVE  /\ q + Value(Length) = Sorted[j] /\ p + Stride = off[j + 1]
         /\ bytes[p + Stride] = 0 <=> j = N
<1> DEFINE d == deltas[j]
           n == Digits(d)
<1>1. N \in Nat /\ \A i \in 1..N : Sorted[i] \in 0..(Words - 1)
  BY SortedTags DEF RelocInv, TagsIn
<1>2. d \in 0..(Words - 1) /\ d \in Nat /\ d < Power(3)
  BY DeltaFacts, RelocConstants, Powers DEF RelocInv
<1>3. /\ off[j] \in Nat /\ off[j] >= 1 /\ off[j + 1] = off[j] + n /\ p = off[j]
      /\ \A k \in 1..n : bytes[p + k - 1] = Encode(d)[k]
  BY <1>1 DEF Vector, Encoded, Stands
<1> HIDE DEF d, n
<1>4. /\ n \in 1..3
      /\ \A k \in 1..n : Encode(d)[k] \in Nat /\ (Encode(d)[k] >= Radix <=> k < n)
  BY <1>2, Decode DEF n
<1>5. \A k \in 1..n : More(p + k - 1) <=> k < n
  BY <1>3, <1>4 DEF More
<1>6. Length = n
  <2>1. p + 1 - 1 = p /\ p + 2 - 1 = p + 1 /\ p + 3 - 1 = p + 2
    BY <1>3
  <2>2. More(p) <=> 1 < n
    BY <1>4, <1>5, <2>1
  <2>3. n >= 2 => (More(p + 1) <=> 2 < n)
    BY <1>4, <1>5, <2>1
  <2>4. n >= 3 => ~More(p + 2)
    BY <1>4, <1>5, <2>1
  <2> QED  BY <1>4, <2>2, <2>3, <2>4 DEF Length
<1>7. Stride = n
  BY <1>4, <1>6 DEF Stride
<1>8. Value(Length) = d
  <2> DEFINE v(k) == IF k <= n THEN (Encode(d)[k] % Radix) * Power(k - 1) ELSE 0
             b(k) == IF k <= n THEN (bytes[p + k - 1] % Radix) * Power(k - 1) ELSE 0
  <2>1. v(1) + v(2) + v(3) + v(4) = d
    BY <1>2, Decode DEF n
  <2>2. \A k \in {1, 2, 3, 4} : b(k) = v(k)
    BY <1>3, <1>4
  <2>3. Value(Length) = b(1) + b(2) + b(3) + b(4)
    BY <1>6 DEF Value
  <2> HIDE DEF v, b
  <2> QED  BY <2>1, <2>2, <2>3
<1>9. q + d = Sorted[j]
  <2>1. d = IF j = 1 THEN Sorted[1] ELSE Sorted[j] - Sorted[j - 1]
    BY DEF RelocInv, DeltasOK, d
  <2>2. CASE j = 1
    BY <1>1, <2>1, <2>2 DEF Stands
  <2>3. CASE j # 1
    <3>1. j - 1 \in 1..N
      BY <1>1, <2>3
    <3>2. Sorted[j - 1] \in Int /\ Sorted[j] \in Int
      BY <1>1, <3>1
    <3> QED  BY <2>1, <2>3, <3>2 DEF Stands
  <2> QED  BY <2>2, <2>3
<1>10. bytes[off[j + 1]] = 0 <=> j = N
  <2>1. CASE j = N
    BY <2>1 DEF Vector
  <2>2. CASE j # N
    <3>1. j + 1 \in 1..N /\ j + 1 > 1
      BY <1>1, <2>2
    <3> DEFINE x == deltas[j + 1]
    <3>2. x \in Nat /\ x < Power(3) /\ x > 0
      BY <3>1, DeltaFacts, RelocConstants, Powers DEF RelocInv
    <3>3. 1 \in 1..Digits(x) /\ Encode(x)[1] # 0
      BY <3>2, Decode
    <3>4. bytes[off[j + 1] + 1 - 1] = Encode(x)[1] /\ off[j + 1] \in Nat
      BY <1>1, <3>1, <3>3 DEF Vector, Encoded
    <3> HIDE DEF x
    <3>5. off[j + 1] + 1 - 1 = off[j + 1]
      BY <3>4
    <3> QED  BY <2>2, <3>3, <3>4, <3>5
  <2> QED  BY <2>1, <2>2
<1> QED  BY <1>3, <1>7, <1>8, <1>9, <1>10

\* Between one pointer and the next there is no other.
LEMMA NoneBetween ==
  ASSUME TagsIn, NEW j \in 1..N, NEW w \in tags
  PROVE  /\ w < Sorted[j] \/ w = Sorted[j] \/ (j < N /\ w >= Sorted[j + 1])
         /\ j < N => (w < Sorted[j + 1] <=> w <= Sorted[j])
         /\ ~(w < Sorted[1])
<1>1. /\ N \in Nat /\ \A i \in 1..N : Sorted[i] \in Int
      /\ \A i, k \in 1..N : i < k => Sorted[i] < Sorted[k]
  <2>1. /\ N \in Nat /\ \A i \in 1..N : Sorted[i] \in tags
        /\ \A i, k \in 1..N : i < k => Sorted[i] < Sorted[k]
    BY SortedTags
  <2>2. \A t \in tags : t \in Int
    BY RelocConstants DEF TagsIn
  <2> QED  BY <2>1, <2>2
<1>2. PICK i \in 1..N : Sorted[i] = w
  BY SortedTags
<1>3. i < j \/ i = j \/ (j < N /\ i >= j + 1)
  BY <1>1
<1>4. i < j => w < Sorted[j]
  BY <1>1, <1>2
<1>5. i = j => w = Sorted[j]
  BY <1>2
<1>6. j < N /\ i >= j + 1 => w >= Sorted[j + 1]
  <2>1. j < N => j + 1 \in 1..N
    BY <1>1
  <2> QED  BY <1>1, <1>2, <2>1
<1>7. j < N => Sorted[j] < Sorted[j + 1] /\ Sorted[j + 1] \in Int
  <2>1. j < N => j + 1 \in 1..N /\ j < j + 1
    BY <1>1
  <2> QED  BY <1>1, <2>1
<1>8. ~(w < Sorted[1])
  <2>1. 1 \in 1..N /\ (i = 1 \/ 1 < i)
    BY <1>1
  <2> QED  BY <1>1, <1>2, <2>1
<1>9. w \in Int /\ Sorted[j] \in Int
  BY <1>1, <1>2
<1> QED  BY <1>3, <1>4, <1>5, <1>6, <1>7, <1>8, <1>9

LEMMA RelocateOutKeeps ==
  ASSUME Words <= Power(3), RelocInv, Restoring, RelocateOut
  PROVE  Restoring'
<1>1. pc = "copyout" /\ UNCHANGED <<tags, base, deltas, bytes>> /\ N' = N /\ Sorted' = Sorted
  BY SameTags DEF RelocateOut, RelocNext
<1>2. PICK off \in [1..(N + 1) -> Nat] : Vector(off) /\ \E j \in 1..N : Stands(off, j) /\ OutTo(j)
  BY <1>1 DEF Restoring
<1>3. PICK j \in 1..N : Stands(off, j) /\ OutTo(j)
  BY <1>2
<1> DEFINE w == Sorted[j]
<1>4. /\ w \in tags /\ w \in 0..(Words - 1) /\ N \in Nat /\ base \in Nat
      /\ \A t \in tags : t \in 0..(Words - 1)
  <2>1. Sorted[j] \in tags /\ N \in Nat
    BY SortedTags DEF RelocInv
  <2> QED  BY <2>1, RelocConstants DEF RelocInv, TagsIn
<1>5. q + Value(Length) = w /\ p + Stride = off[j + 1] /\ (bytes[p + Stride] = 0 <=> j = N)
  BY <1>1, <1>2, <1>3, Turn
<1>6. mem = [x \in 0..Words-1 |-> IF x \in tags THEN IF x < w THEN x ELSE base + x ELSE 0]
  BY <1>3 DEF OutTo, Holds
<1>7. mem[w] = base + w /\ mem[w] >= base /\ mem[w] - base = w
  BY <1>4, <1>6
<1>8. /\ mem' = [mem EXCEPT ![w] = mem[w] - base]
      /\ IF j = N THEN pc' = "record" /\ p' = 1 /\ q' = 0
         ELSE pc' = pc /\ p' = off[j + 1] /\ q' = w
  <2> HIDE DEF w
  <2> QED  BY <1>4, <1>5, <1>7 DEF RelocateOut, Relocate
<1> HIDE DEF w
<1>9. mem' = [x \in 0..Words-1 |->
                IF x \in tags THEN IF x < w \/ x = w THEN x ELSE base + x ELSE 0]
  BY <1>4, <1>6, <1>7, <1>8
<1>10. Vector(off)'
  BY <1>1, <1>2 DEF Vector, Encoded
<1>11. CASE j = N
  <2>1. \A x \in tags : x < w \/ x = w
    BY <1>4, <1>11, NoneBetween DEF RelocInv, w
  <2>2. mem' = [x \in 0..Words-1 |-> IF x \in tags THEN x ELSE 0]
    BY <1>9, <2>1
  <2>3. Relative'
    BY <1>1, <2>2 DEF Relative, Holds
  <2>4. Stands(off, 1)'
    BY <1>8, <1>10, <1>11 DEF Stands, Vector, Encoded
  <2> QED  BY <1>1, <1>2, <1>8, <1>10, <1>11, <2>3, <2>4 DEF Restoring
<1>12. CASE j # N
  <2>1. j + 1 \in 1..N /\ j + 1 # 1 /\ j + 1 - 1 = j /\ j < N
    BY <1>4, <1>12
  <2>2. \A x \in tags : (x < w \/ x = w) <=> x < Sorted[j + 1]
    BY <1>4, <2>1, NoneBetween DEF RelocInv, w
  <2>3. mem' = [x \in 0..Words-1 |->
                  IF x \in tags THEN IF x < Sorted[j + 1] THEN x ELSE base + x ELSE 0]
    BY <1>9, <2>2
  <2>4. PICK k \in 1..N : k = j + 1 /\ k # 1 /\ k - 1 = j
    BY <2>1
  <2>5. OutTo(k)'
    BY <1>1, <2>3, <2>4 DEF OutTo, Holds
  <2>6. Stands(off, k)'
    BY <1>1, <1>8, <1>12, <2>4 DEF Stands, w
  <2> QED  BY <1>1, <1>2, <1>8, <1>10, <1>12, <2>5, <2>6 DEF Restoring
<1> QED  BY <1>11, <1>12

LEMMA RelocateInKeeps ==
  ASSUME Words <= Power(3), RelocInv, Restoring, RelocateIn
  PROVE  Restoring'
<1>1. pc = "copyin" /\ UNCHANGED <<tags, base, deltas, bytes>> /\ N' = N /\ Sorted' = Sorted
  BY SameTags DEF RelocateIn, RelocNext
<1>2. PICK off \in [1..(N + 1) -> Nat] : Vector(off) /\ \E j \in 1..N : Stands(off, j) /\ InTo(j)
  BY <1>1 DEF Restoring
<1>3. PICK j \in 1..N : Stands(off, j) /\ InTo(j)
  BY <1>2
<1> DEFINE w == Sorted[j]
<1>4. /\ w \in tags /\ w \in 0..(Words - 1) /\ N \in Nat /\ base \in Nat /\ Words \in Nat
      /\ \A t \in tags : t \in 0..(Words - 1)
  <2>1. Sorted[j] \in tags /\ N \in Nat
    BY SortedTags DEF RelocInv
  <2> QED  BY <2>1, RelocConstants DEF RelocInv, TagsIn
<1>5. q + Value(Length) = w /\ p + Stride = off[j + 1] /\ (bytes[p + Stride] = 0 <=> j = N)
  BY <1>1, <1>2, <1>3, Turn
<1>6. mem = [x \in 0..Words-1 |-> IF x \in tags THEN IF x < w THEN base + x ELSE x ELSE 0]
  BY <1>3 DEF InTo, Holds
<1>7. mem[w] = w /\ mem[w] < Words /\ mem[w] + base = base + w
  BY <1>4, <1>6
<1>8. /\ mem' = [mem EXCEPT ![w] = mem[w] + base]
      /\ IF j = N THEN pc' = "ready" /\ p' = 1 /\ q' = 0
         ELSE pc' = pc /\ p' = off[j + 1] /\ q' = w
  <2> HIDE DEF w
  <2> QED  BY <1>4, <1>5, <1>7 DEF RelocateIn, Relocate
<1> HIDE DEF w
<1>9. mem' = [x \in 0..Words-1 |->
                IF x \in tags THEN IF x < w \/ x = w THEN base + x ELSE x ELSE 0]
  BY <1>4, <1>6, <1>7, <1>8
<1>10. Vector(off)'
  BY <1>1, <1>2 DEF Vector, Encoded
<1>11. CASE j = N
  <2>1. \A x \in tags : x < w \/ x = w
    BY <1>4, <1>11, NoneBetween DEF RelocInv, w
  <2>2. mem' = [x \in 0..Words-1 |-> IF x \in tags THEN base + x ELSE 0]
    BY <1>9, <2>1
  <2>3. Absolute'
    BY <1>1, <2>2 DEF Absolute, Holds
  <2> QED  BY <1>8, <1>11, <2>3 DEF Restoring
<1>12. CASE j # N
  <2>1. j + 1 \in 1..N /\ j + 1 # 1 /\ j + 1 - 1 = j /\ j < N
    BY <1>4, <1>12
  <2>2. \A x \in tags : (x < w \/ x = w) <=> x < Sorted[j + 1]
    BY <1>4, <2>1, NoneBetween DEF RelocInv, w
  <2>3. mem' = [x \in 0..Words-1 |->
                  IF x \in tags THEN IF x < Sorted[j + 1] THEN base + x ELSE x ELSE 0]
    BY <1>9, <2>2
  <2>4. PICK k \in 1..N : k = j + 1 /\ k # 1 /\ k - 1 = j
    BY <2>1
  <2>5. InTo(k)'
    BY <1>1, <2>3, <2>4 DEF InTo, Holds
  <2>6. Stands(off, k)'
    BY <1>1, <1>8, <1>12, <2>4 DEF Stands, w
  <2> QED  BY <1>1, <1>2, <1>8, <1>10, <1>12, <2>5, <2>6 DEF Restoring
<1> QED  BY <1>11, <1>12

\* In a pool of up to Radix^3 words every delta has at most three digits.
LEMMA Fits ==
  ASSUME Words <= Power(3), NEW d \in 0..(Words - 1)
  PROVE  d \in Nat /\ d < Power(3) /\ d < Power(MaxBytes) /\ Digits(d) \in 1..MaxBytes
<1>1. d \in Nat /\ d < Power(3)
  BY RelocConstants, Powers
<1>2. Power(3) <= Power(4) /\ Power(3) \in Nat /\ Power(4) \in Nat
  <2>1. Radix * Radix * Radix <= Radix * Radix * Radix * Radix
    BY Powers
  <2>2. Radix * Radix * Radix \in Nat /\ Radix * Radix * Radix * Radix \in Nat
    BY Powers
  <2> QED  BY <2>1, <2>2, Powers
<1>3. d < Power(MaxBytes)
  BY <1>1, <1>2 DEF MaxBytes
<1> QED  BY <1>1, <1>3, DigitsOf

LEMMA MakeDeltasRestores ==
  ASSUME RelocInv, Restoring, MakeDeltas
  PROVE  Restoring'
<1>1. pc = "tagged" /\ pc' = "encode" /\ UNCHANGED <<tags, base, mem>> /\ bytes' = <<>> /\ p' = 1
  BY DEF MakeDeltas, RelocInv, Growing
<1>2. Absolute'
  BY <1>1 DEF Restoring, Absolute, Holds
<1> DEFINE off == [i \in 1..1 |-> 1]
<1>3. off \in [1..1 -> Nat] /\ Len(bytes') = 0
  BY <1>1
<1>4. Encoded(off, 0)' /\ off[1] = Len(bytes') + 1
  BY <1>3 DEF Encoded
<1> HIDE DEF off
<1>5. 1 \in Nat /\ 1 - 1 = 0
  OBVIOUS
<1>6. \E k \in Nat : \E o \in [1..k -> Nat] :
         p' = k /\ Encoded(o, k - 1)' /\ o[k] = Len(bytes') + 1
  BY <1>1, <1>3, <1>4, <1>5
<1> QED  BY <1>1, <1>2, <1>6 DEF Restoring

LEMMA EncodeNextRestores ==
  ASSUME Words <= Power(3), RelocInv, Restoring, EncodeNext
  PROVE  Restoring'
<1>1. /\ N \in Nat /\ pc = "encode" /\ p \in 1..N
      /\ UNCHANGED <<deltas, tags, base, mem>> /\ bytes \in Seq(Byte)
  BY SortedTags DEF EncodeNext, RelocInv, Growing, DeltasOK
<1>19. PICK d \in 0..(Words - 1) : d = deltas[p]
  BY <1>1, DeltaFacts DEF RelocInv
<1>2. d \in Nat /\ d < Power(3) /\ d < Power(MaxBytes) /\ Digits(d) \in 1..MaxBytes
  BY Fits
<1>20. PICK n \in 1..MaxBytes : n = Digits(d)
  BY <1>2
<1>3. bytes' = bytes \o Encode(d) /\ p' = p + 1 /\ pc' = pc
  BY <1>2, <1>19 DEF EncodeNext
<1>4. Encode(d) \in Seq(Byte) /\ Len(Encode(d)) = n
  BY <1>2, <1>20, EncodeType
<1>18. PICK k \in Nat : \E off \in [1..k -> Nat] :
         p = k /\ Encoded(off, k - 1) /\ off[k] = Len(bytes) + 1
  BY <1>1 DEF Restoring
<1>5. PICK off \in [1..k -> Nat] : p = k /\ Encoded(off, k - 1) /\ off[k] = Len(bytes) + 1
  BY <1>18
<1> DEFINE off2 == [i \in 1..(k + 1) |-> IF i <= k THEN off[i] ELSE off[k] + n]
<1>6. PICK e \in Seq(Byte) : e = Encode(d)
  BY <1>4
<1>7. bytes' = bytes \o e
  BY <1>3, <1>6
<1>8. /\ Len(bytes') = Len(bytes) + n
      /\ \A i \in 1..Len(bytes) : bytes'[i] = bytes[i]
      /\ \A i \in 1..n : bytes'[Len(bytes) + i] = e[i]
      /\ Len(bytes) \in Nat /\ n \in Nat /\ n >= 1
  <2>1. Len(e) = n /\ n \in Nat /\ n >= 1 /\ Len(bytes) \in Nat
    BY <1>1, <1>4, <1>6 DEF MaxBytes
  <2>2. /\ Len(bytes \o e) = Len(bytes) + Len(e)
        /\ \A i \in 1..(Len(bytes) + Len(e)) :
              (bytes \o e)[i] = IF i <= Len(bytes) THEN bytes[i] ELSE e[i - Len(bytes)]
    BY <1>1, ConcatProperties
  <2>3. ASSUME NEW i \in 1..n
        PROVE  bytes'[Len(bytes) + i] = e[i]
    <3>1. /\ Len(bytes) + i \in 1..(Len(bytes) + Len(e)) /\ ~(Len(bytes) + i <= Len(bytes))
          /\ Len(bytes) + i - Len(bytes) = i
      BY <2>1
    <3> QED  BY <1>7, <2>2, <3>1
  <2>4. ASSUME NEW i \in 1..Len(bytes)
        PROVE  bytes'[i] = bytes[i]
    <3>1. i \in 1..(Len(bytes) + Len(e)) /\ i <= Len(bytes)
      BY <2>1
    <3> QED  BY <1>7, <2>2, <3>1
  <2> QED  BY <1>7, <2>1, <2>2, <2>3, <2>4
<1>9. /\ off \in [1..k -> Nat] /\ off[1] = 1
      /\ \A i \in 1..k : off[i] \in 1..(Len(bytes) + 1)
      /\ \A i \in 1..(k - 1) :
            /\ off[i + 1] = off[i] + Digits(deltas[i])
            /\ \A m \in 1..Digits(deltas[i]) : bytes[off[i] + m - 1] = Encode(deltas[i])[m]
      /\ k \in 1..N
  <2>1. k - 1 + 1 = k
    BY <1>5
  <2> QED  BY <1>1, <1>5, <2>1 DEF Encoded
<1>10. /\ off2 \in [1..(k + 1) -> Nat] /\ off2[1] = 1 /\ off2[k + 1] = Len(bytes') + 1
       /\ \A i \in 1..k : off2[i] = off[i]
       /\ off2[k + 1] = off[k] + n
  BY <1>1, <1>5, <1>8, <1>9
<1> HIDE DEF off2
<1>11. \A i \in 1..(k + 1) : off2[i] \in 1..(Len(bytes') + 1)
  <2> SUFFICES ASSUME NEW i \in 1..(k + 1) PROVE off2[i] \in 1..(Len(bytes') + 1)
    OBVIOUS
  <2>1. CASE i \in 1..k
    BY SMTT(30), <1>8, <1>9, <1>10, <2>1
  <2>2. CASE i = k + 1
    BY <1>8, <1>10, <2>2
  <2> QED  BY <1>5, <2>1, <2>2
<1>12. ASSUME NEW i \in 1..k
       PROVE  /\ off2[i + 1] = off2[i] + Digits(deltas[i])
              /\ \A m \in 1..Digits(deltas[i]) : bytes'[off2[i] + m - 1] = Encode(deltas[i])[m]
  <2>1. CASE i = k
    <3>1. deltas[i] = d /\ Digits(deltas[i]) = n /\ e = Encode(deltas[i])
      BY <1>5, <1>6, <1>19, <1>20, <2>1
    <3>3. off2[i] = Len(bytes) + 1 /\ Len(bytes) \in Nat /\ n \in Nat
      BY <1>5, <1>8, <1>10, <2>1
    <3>4. PICK y \in Nat : y = Len(bytes)
      BY <3>3
    <3>5. \A m \in 1..n : (y + 1) + m - 1 = y + m
      BY <3>3
    <3>2. \A m \in 1..n : off2[i] + m - 1 = Len(bytes) + m
      BY <3>3, <3>4, <3>5
    <3> QED  BY <1>8, <1>9, <1>10, <2>1, <3>1, <3>2
  <2>2. CASE i # k
    <3>1. i \in 1..(k - 1) /\ i + 1 \in 1..k
      BY <1>5, <2>2
    <3>2. PICK x \in 1..MaxBytes : x = Digits(deltas[i])
      <4>1. i \in 1..N
        BY <1>1, <1>9, <3>1
      <4>2. deltas[i] \in 0..(Words - 1)
        <5>1. TagsIn /\ DeltasOK /\ pc # "tagged"
          BY <1>1 DEF RelocInv
        <5> QED  BY <4>1, <5>1, DeltaFacts
      <4> QED  BY <4>2, Fits
    <3>3. /\ off[i + 1] = off[i] + x /\ off[i] \in Nat /\ off[i] >= 1
          /\ off[i + 1] <= Len(bytes) + 1
          /\ \A m \in 1..x : bytes[off[i] + m - 1] = Encode(deltas[i])[m]
      <4>1. off[i + 1] \in 1..(Len(bytes) + 1) /\ off[i] \in 1..(Len(bytes) + 1)
        BY <1>9, <3>1
      <4>2. off[i] \in Nat /\ off[i] >= 1 /\ off[i + 1] <= Len(bytes) + 1
        BY <1>8, <4>1
      <4> QED  BY <1>9, <3>1, <3>2, <4>2
    <3>4. off2[i + 1] = off2[i] + x /\ off2[i] = off[i]
      BY <1>10, <3>1, <3>3
    <3>5. \A m \in 1..x : bytes'[off[i] + m - 1] = bytes[off[i] + m - 1]
      <4>1. x \in Nat /\ Len(bytes) \in Nat
        BY <1>8 DEF MaxBytes
      <4>2. ASSUME NEW m \in 1..x
            PROVE  off[i] + m - 1 \in 1..Len(bytes)
        <5>1. off[i] + x <= Len(bytes) + 1 /\ off[i] \in Nat /\ off[i] >= 1
          BY <3>3
        <5>2. m \in Nat /\ m >= 1 /\ m <= x
          BY <4>1
        <5> QED  BY SMTT(30), <4>1, <5>1, <5>2
      <4> QED  BY <1>8, <4>2
    <3> QED  BY <3>2, <3>3, <3>4, <3>5
  <2> QED  BY <2>1, <2>2
<1>13. Encoded(off2, k)'
  BY <1>1, <1>10, <1>11, <1>12 DEF Encoded
<1>14. k + 1 \in Nat /\ k + 1 - 1 = k /\ p' = k + 1
  BY <1>3, <1>5
<1>15. \E j \in Nat : \E o \in [1..j -> Nat] :
          p' = j /\ Encoded(o, j - 1)' /\ o[j] = Len(bytes') + 1
  <2>1. PICK j \in Nat : j = k + 1 /\ j - 1 = k
    BY <1>14
  <2>2. Encoded(off2, j - 1)'
    BY <1>13, <2>1
  <2> QED  BY <1>10, <1>14, <2>1, <2>2
<1>16. Absolute'
  BY <1>1 DEF Restoring, Absolute, Holds
<1> QED  BY <1>1, <1>3, <1>15, <1>16 DEF Restoring

LEMMA EncodeEndRestores ==
  ASSUME Words <= Power(3), RelocInv, Restoring, EncodeEnd
  PROVE  Restoring'
<1>1. /\ N \in Nat \ {0} /\ pc = "encode" /\ p = N + 1 /\ q = 0 /\ bytes \in Seq(Byte)
      /\ N' = N /\ Sorted' = Sorted
      /\ UNCHANGED <<deltas, tags, base, mem, q>>
      /\ bytes' = Append(bytes, 0) /\ p' = 1 /\ pc' = "copyout"
  BY SortedTags, SameTags DEF EncodeEnd, RelocInv, Growing, DeltasOK, RelocNext
<1>11. PICK k \in Nat : \E off \in [1..k -> Nat] :
         p = k /\ Encoded(off, k - 1) /\ off[k] = Len(bytes) + 1
  BY <1>1 DEF Restoring
<1>2. PICK off \in [1..k -> Nat] : p = k /\ Encoded(off, k - 1) /\ off[k] = Len(bytes) + 1
  BY <1>11
<1>3. k = N + 1 /\ k - 1 = N
  BY <1>1, <1>2
<1>4. off \in [1..(N + 1) -> Nat] /\ Encoded(off, N) /\ off[N + 1] = Len(bytes) + 1
  BY <1>2, <1>3
<1>5. /\ Len(bytes') = Len(bytes) + 1 /\ Len(bytes) \in Nat /\ bytes'[Len(bytes) + 1] = 0
      /\ \A i \in 1..Len(bytes) : bytes'[i] = bytes[i]
  BY <1>1
<1>6. Encoded(off, N)'
  <2>1. /\ \A i \in 1..(N + 1) : off[i] \in 1..(Len(bytes') + 1)
        /\ off[1] = 1
    BY <1>4, <1>5 DEF Encoded
  <2>2. ASSUME NEW i \in 1..N, NEW m \in 1..Digits(deltas[i])
        PROVE  bytes'[off[i] + m - 1] = Encode(deltas[i])[m]
    <3>1. off[i + 1] = off[i] + Digits(deltas[i]) /\ bytes[off[i] + m - 1] = Encode(deltas[i])[m]
      BY <1>4, <2>2 DEF Encoded
    <3>2. off[i] \in Nat /\ off[i] >= 1 /\ off[i + 1] \in Nat /\ off[i + 1] <= Len(bytes) + 1
      <4>1. i \in 1..(N + 1) /\ i + 1 \in 1..(N + 1)
        BY <1>1
      <4> QED  BY <1>4, <1>5, <4>1 DEF Encoded
    <3>3. m \in Nat /\ m >= 1 /\ m <= off[i + 1] - off[i]
      <4>1. Digits(deltas[i]) = off[i + 1] - off[i] /\ off[i + 1] - off[i] \in Int
        <5>1. PICK x : x = Digits(deltas[i])
          OBVIOUS
        <5>2. x \in Int
          <6>1. Digits(deltas[i]) \in 1..MaxBytes
            <7>1. deltas[i] \in 0..(Words - 1)
              <8>1. TagsIn /\ DeltasOK /\ pc # "tagged"
                BY <1>1 DEF RelocInv
              <8> QED  BY <8>1, DeltaFacts
            <7> QED  BY <7>1, Fits
          <6> QED  BY <5>1, <6>1 DEF MaxBytes
        <5> QED  BY <3>1, <3>2, <5>1, <5>2
      <4> QED  BY <2>2, <4>1
    <3>4. off[i] + m - 1 \in 1..Len(bytes)
      BY SMTT(30), <1>5, <3>2, <3>3
    <3> QED  BY <1>5, <3>1, <3>4
  <2>3. \A i \in 1..N : off[i + 1] = off[i] + Digits(deltas[i])
    BY <1>4 DEF Encoded
  <2> QED  BY <1>1, <1>4, <2>1, <2>2, <2>3 DEF Encoded
<1>7. Vector(off)'
  BY <1>1, <1>4, <1>5, <1>6 DEF Vector
<1>8. Stands(off, 1)'
  BY <1>1, <1>4 DEF Stands, Encoded
<1>9. OutTo(1)'
  <2>1. \A w \in tags : ~(w < Sorted[1])
    BY <1>1, NoneBetween DEF RelocInv
  <2>2. mem' = [w \in 0..Words-1 |-> IF w \in tags THEN base + w ELSE 0]
    BY <1>1 DEF Restoring, Absolute, Holds
  <2>3. mem' = [w \in 0..Words-1 |-> IF w \in tags THEN IF w < Sorted[1] THEN w ELSE base + w ELSE 0]
    BY <2>1, <2>2
  <2> QED  BY <1>1, <2>3 DEF OutTo, Holds
<1>10. 1 \in 1..N
  BY <1>1
<1> QED  BY <1>1, <1>4, <1>7, <1>8, <1>9, <1>10 DEF Restoring

LEMMA ReloadRestores ==
  ASSUME RelocInv, Restoring, Reload
  PROVE  Restoring'
<1>1. /\ N \in Nat \ {0} /\ pc = "record" /\ pc' = "copyin" /\ N' = N /\ Sorted' = Sorted
      /\ UNCHANGED <<tags, mem, deltas, bytes, p, q>>
  BY SortedTags, SameTags DEF Reload, RelocInv, RelocNext
<1>2. PICK off \in [1..(N + 1) -> Nat] : Vector(off) /\ Stands(off, 1) /\ Relative
  BY <1>1 DEF Restoring
<1>3. Vector(off)' /\ Stands(off, 1)'
  BY <1>1, <1>2 DEF Vector, Encoded, Stands
<1>4. InTo(1)'
  <2>1. \A w \in tags : ~(w < Sorted[1])
    BY <1>1, NoneBetween DEF RelocInv
  <2>2. mem' = [w \in 0..Words-1 |-> IF w \in tags THEN w ELSE 0]
    BY <1>1, <1>2 DEF Relative, Holds
  <2>3. mem' = [w \in 0..Words-1 |-> IF w \in tags THEN IF w < Sorted[1] THEN base' + w ELSE w ELSE 0]
    BY <2>1, <2>2
  <2> QED  BY <1>1, <2>3 DEF InTo, Holds
<1>5. 1 \in 1..N
  BY <1>1
<1> QED  BY <1>1, <1>2, <1>3, <1>4, <1>5 DEF Restoring

LEMMA StutterRestores ==
  ASSUME RelocInv, Restoring, UNCHANGED relocVars
  PROVE  Restoring'
<1>1. UNCHANGED <<tags, base, mem, deltas, bytes, p, q, pc>> /\ N' = N /\ Sorted' = Sorted
  BY SameTags DEF relocVars
<1>2. CASE pc \in {"tagged", "ready"}
  BY <1>1, <1>2 DEF Restoring, Absolute, Holds
<1>3. CASE pc = "encode"
  <2>1. PICK k \in Nat : \E off \in [1..k -> Nat] :
           p = k /\ Encoded(off, k - 1) /\ off[k] = Len(bytes) + 1
    BY <1>3 DEF Restoring
  <2>2. PICK off \in [1..k -> Nat] : p = k /\ Encoded(off, k - 1) /\ off[k] = Len(bytes) + 1
    BY <2>1
  <2>3. Encoded(off, k - 1)' /\ off[k] = Len(bytes') + 1 /\ p' = k
    BY <1>1, <2>2 DEF Encoded
  <2>4. Absolute'
    BY <1>1, <1>3 DEF Restoring, Absolute, Holds
  <2> QED  BY <1>1, <1>3, <2>3, <2>4 DEF Restoring
<1>4. CASE pc = "copyout"
  <2>1. PICK off \in [1..(N + 1) -> Nat] : Vector(off) /\ \E j \in 1..N : Stands(off, j) /\ OutTo(j)
    BY <1>4 DEF Restoring
  <2>2. PICK j \in 1..N : Stands(off, j) /\ OutTo(j)
    BY <2>1
  <2>3. Vector(off)' /\ Stands(off, j)' /\ OutTo(j)'
    BY <1>1, <2>1, <2>2 DEF Vector, Encoded, Stands, OutTo, Holds
  <2> QED  BY <1>1, <1>4, <2>3 DEF Restoring
<1>5. CASE pc = "record"
  <2>1. PICK off \in [1..(N + 1) -> Nat] : Vector(off) /\ Stands(off, 1) /\ Relative
    BY <1>5 DEF Restoring
  <2>2. Vector(off)' /\ Stands(off, 1)' /\ Relative'
    BY <1>1, <2>1 DEF Vector, Encoded, Stands, Relative, Holds
  <2> QED  BY <1>1, <1>5, <2>2 DEF Restoring
<1>6. CASE pc = "copyin"
  <2>1. PICK off \in [1..(N + 1) -> Nat] : Vector(off) /\ \E j \in 1..N : Stands(off, j) /\ InTo(j)
    BY <1>6 DEF Restoring
  <2>2. PICK j \in 1..N : Stands(off, j) /\ InTo(j)
    BY <2>1
  <2>3. Vector(off)' /\ Stands(off, j)' /\ InTo(j)'
    BY <1>1, <2>1, <2>2 DEF Vector, Encoded, Stands, InTo, Holds
  <2> QED  BY <1>1, <1>6, <2>3 DEF Restoring
<1>7. pc # "error"
  BY DEF Restoring
<1> QED  BY <1>2, <1>3, <1>4, <1>5, <1>6, <1>7 DEF RelocInv, PCs

\* A record read back has every pointer of the pool aimed at the word it was aimed at, from
\* whatever address it is given, and no word that is not a pointer is met on the way: in a
\* pool of up to Radix^3 words (2097152 in the code), as the delta of four bytes that a
\* larger pool may need is stepped over by three.
THEOREM Restores ==
  ASSUME Words <= Power(3)
  PROVE  RelocSpec => []PointersRestored
<1>1. RelocInit => Restoring
  BY DEF RelocInit, Restoring, Absolute, Holds
<1>2. RelocInv /\ Restoring /\ [RelocNext]_relocVars => Restoring'
  <2> SUFFICES ASSUME RelocInv, Restoring, [RelocNext]_relocVars PROVE Restoring'
    OBVIOUS
  <2>1. CASE UNCHANGED relocVars
    BY <2>1, StutterRestores
  <2> QED  BY <2>1, MakeDeltasRestores, EncodeNextRestores, EncodeEndRestores, RelocateOutKeeps,
              ReloadRestores, RelocateInKeeps DEF RelocNext
<1>3. Restoring => PointersRestored
  BY DEF Restoring, PointersRestored, Absolute, Holds
<1> QED  BY <1>1, <1>2, <1>3, RelocInvariance, PTL DEF RelocSpec

-----------------------------------------------------------------------------
(* The blocks of a record.  A cut <<a, c>> separates the first a bytes of   *)
(* the compressed record from the others, and the c bytes they stand for.  *)

\* The block after the cut <<a, c>> ends at the cut <<b, e>>.
BlockBetween(d, m, off, a, c, b, e) ==
    \E z, w \in 0..RunMax :
        /\ m[off + a + 1] = Prefix(z, w)
        /\ b = a + 1 + w /\ e = c + z + w
        /\ \A k \in 1..z : d[c + k] = 0
        /\ \A k \in 1..w : m[off + a + 1 + k] = d[c + z + k]

\* Block by block, each cut of R leads to <<A, C>>.
Goes(R, d, m, off, a, c, A, C) ==
    \/ a = A /\ c = C
    \/ \E b, e \in Nat : <<b, e>> \in R /\ BlockBetween(d, m, off, a, c, b, e)
Cuts(R, d, m, off, A, C) ==
    /\ <<A, C>> \in R
    /\ \A a, c \in Nat : <<a, c>> \in R => a <= A /\ c <= C /\ c <= RunMax * a
    /\ \A a, c \in Nat : <<a, c>> \in R => Goes(R, d, m, off, a, c, A, C)

\* What is left is longer than what it stands for by a byte for each full block
\* at most, and so is what the next blocks begin with if less is not zero.
Slack(a) == IF a \in 1..RunMax THEN 0 ELSE RunMax - 1
LightAt(a, c, A, C, less) ==
    (RunMax + 1) * (A + c) + less <= (RunMax + 1) * (C + a) + (A - a) + Slack(a)
Light(R, A, C, less) == \A a, c \in Nat : <<a, c>> \in R => LightAt(a, c, A, C, less)

Coded(m, d, A, C, less) ==
    \E R \in SUBSET (Nat \X Nat) :
        <<0, 0>> \in R /\ Cuts(R, d, m, 0, A, C) /\ Light(R, A, C, less)

LEMMA Numbers == RunMax \in Nat /\ RunMax >= 2 /\ Guard \in Nat /\ Guard >= 2
BY RleConstants

\* The bytes after the lo-th, up to the hi-th, are found in m2 as in m.
SameBytes(m2, off2, m, off, lo, hi) == \A k \in (lo + 1)..hi : m2[off2 + k] = m[off + k]

\* A block is read where it was copied to.
LEMMA BlockCopied ==
  ASSUME NEW d, NEW m, NEW m2, NEW off \in Nat, NEW off2 \in Nat,
         NEW a \in Nat, NEW c \in Nat, NEW b \in Nat, NEW e \in Nat, NEW lo \in Nat, NEW hi \in Nat,
         SameBytes(m2, off2, m, off, lo, hi),
         lo <= a, b <= hi, BlockBetween(d, m, off, a, c, b, e)
  PROVE  BlockBetween(d, m2, off2, a, c, b, e)
<1>1. PICK z \in 0..RunMax, w \in 0..RunMax :
        /\ m[off + a + 1] = Prefix(z, w)
        /\ b = a + 1 + w /\ e = c + z + w
        /\ \A k \in 1..z : d[c + k] = 0
        /\ \A k \in 1..w : m[off + a + 1 + k] = d[c + z + k]
  BY DEF BlockBetween
<1>2. a + 1 \in (lo + 1)..hi
  BY <1>1, Numbers
<1>3. m2[off2 + (a + 1)] = m[off + (a + 1)]
  BY <1>2 DEF SameBytes
<1>4. ASSUME NEW k \in 1..w PROVE m2[off2 + (a + 1 + k)] = m[off + (a + 1 + k)]
  <2>1. a + 1 + k \in (lo + 1)..hi
    BY <1>1, Numbers
  <2> QED  BY <2>1 DEF SameBytes
<1>5. /\ off2 + (a + 1) = off2 + a + 1 /\ off + (a + 1) = off + a + 1
      /\ \A k \in 1..w : off2 + (a + 1 + k) = off2 + a + 1 + k /\ off + (a + 1 + k) = off + a + 1 + k
  BY Numbers
<1>6. m2[off2 + a + 1] = Prefix(z, w)
  BY <1>1, <1>3, <1>5
<1>7. \A k \in 1..w : m2[off2 + a + 1 + k] = d[c + z + k]
  BY <1>1, <1>4, <1>5
<1> QED  BY <1>1, <1>6, <1>7 DEF BlockBetween

LEMMA BlockForward ==
  ASSUME NEW d, NEW m, NEW off, NEW a \in Nat, NEW c \in Nat, NEW b, NEW e,
         BlockBetween(d, m, off, a, c, b, e)
  PROVE  b \in Nat /\ e \in Nat /\ b > a /\ e >= c
BY Numbers DEF BlockBetween

LEMMA Heavier ==
  ASSUME NEW a \in Nat, NEW c \in Nat, NEW A \in Nat, NEW C \in Nat, NEW less \in Nat, NEW less2 \in Nat,
         NEW z \in 0..RunMax, NEW w \in 0..RunMax, a <= A,
         LightAt(a, c, A, C, less),
         RunMax + less2 <= (RunMax + 1) * z + less + w
  PROVE  LightAt(a, c, A + 1 + w, C + z + w, less2)
<1>1. PICK M \in Nat : M = RunMax + 1 /\ RunMax = M - 1
  BY Numbers
<1>2. PICK sl \in Nat : sl = Slack(a)
  BY Numbers DEF Slack
<1>3. M * (A + c) + less <= M * (C + a) + (A - a) + sl
  BY <1>1, <1>2 DEF LightAt
<1>4. /\ M * (A + 1 + w + c) = M * (A + c) + M + M * w
      /\ M * (C + z + w + a) = M * (C + a) + M * z + M * w
  BY <1>1, Numbers
<1>5. PICK u \in Nat, v \in Nat, r \in Nat, t \in Nat : 
        u = M * (A + c) /\ v = M * (C + a) /\ r = M * z /\ t = M * w
  BY <1>1, Numbers
<1>6. M + less2 <= r + less + w + 1
  BY <1>1, <1>5, Numbers
<1>7. (u + M + t) + less2 <= (v + r + t) + (A + 1 + w - a) + sl
  BY <1>3, <1>5, <1>6, Numbers
<1> QED  BY <1>1, <1>2, <1>4, <1>5, <1>7 DEF LightAt

\* A block appended to a record.
LEMMA Appended ==
  ASSUME NEW d, NEW m, NEW m2, NEW A \in Nat, NEW C \in Nat, NEW less \in Nat, NEW less2 \in Nat,
         NEW z \in 0..RunMax, NEW w \in 0..RunMax,
         Coded(m, d, A, C, less),
         \A k \in 1..A : m2[k] = m[k],
         m2[A + 1] = Prefix(z, w),
         \A k \in 1..z : d[C + k] = 0,
         \A k \in 1..w : m2[A + 1 + k] = d[C + z + k],
         RunMax + less2 <= (RunMax + 1) * z + less + w,
         less2 <= Slack(A + 1 + w)
  PROVE  Coded(m2, d, A + 1 + w, C + z + w, less2)
<1>1. PICK R \in SUBSET (Nat \X Nat) :
        <<0, 0>> \in R /\ Cuts(R, d, m, 0, A, C) /\ Light(R, A, C, less)
  BY DEF Coded
<1>2. PICK A2 \in Nat, C2 \in Nat : A2 = A + 1 + w /\ C2 = C + z + w
  BY Numbers
<1> DEFINE R2 == R \cup {<<A2, C2>>}
<1>3. R2 \in SUBSET (Nat \X Nat) /\ <<0, 0>> \in R2
  BY <1>1
<1>4. BlockBetween(d, m2, 0, A, C, A2, C2)
  BY <1>2, Numbers DEF BlockBetween
<1>5. ASSUME NEW a \in Nat, NEW c \in Nat, <<a, c>> \in R2
      PROVE  a <= A2 /\ c <= C2 /\ c <= RunMax * a
  <2>1. CASE a = A2 /\ c = C2
    <3>1. C <= RunMax * A
      BY <1>1 DEF Cuts
    <3>2. RunMax * A2 = RunMax * A + RunMax + RunMax * w
      BY <1>2, Numbers
    <3>3. w <= RunMax * w /\ RunMax * w \in Nat /\ RunMax * A \in Nat
      <4>1. PICK M \in Nat, k \in Nat : M = RunMax /\ k = M - 1 /\ M = k + 1
        BY Numbers
      <4>2. (k + 1) * w = k * w + w /\ k * w \in Nat
        BY <4>1
      <4> QED  BY <4>1, <4>2
    <3> QED  BY <1>2, <2>1, <3>1, <3>2, <3>3, Numbers
  <2>2. CASE <<a, c>> \in R
    <3>1. a <= A /\ c <= C /\ c <= RunMax * a
      BY <1>1, <2>2 DEF Cuts
    <3> QED  BY <1>2, <3>1, Numbers
  <2> QED  BY <1>5, <2>1, <2>2
<1>10. ASSUME NEW a \in Nat, NEW c \in Nat, <<a, c>> \in R2
       PROVE  Goes(R2, d, m2, 0, a, c, A2, C2)
  <2>1. CASE a = A2 /\ c = C2
    BY <2>1 DEF Goes
  <2>2. CASE a = A /\ c = C
    BY <1>4, <2>2 DEF Goes
  <2>3. CASE <<a, c>> \in R /\ ~(a = A /\ c = C)
    <3>1. Goes(R, d, m, 0, a, c, A, C)
      BY <1>1, <2>3 DEF Cuts
    <3>2. PICK b \in Nat, e \in Nat : <<b, e>> \in R /\ BlockBetween(d, m, 0, a, c, b, e)
      BY <2>3, <3>1 DEF Goes
    <3>3. b <= A
      BY <1>1, <3>2 DEF Cuts
    <3>4. SameBytes(m2, 0, m, 0, 0, A)
      BY DEF SameBytes
    <3>5. BlockBetween(d, m2, 0, a, c, b, e)
      <4>1. 0 <= a /\ 0 \in Nat
        OBVIOUS
      <4> QED  BY <3>2, <3>3, <3>4, <4>1, BlockCopied
    <3>6. <<b, e>> \in R2
      BY <3>2
    <3> HIDE DEF R2
    <3> QED  BY <3>5, <3>6 DEF Goes
  <2> QED  BY <1>10, <2>1, <2>2, <2>3
<1>6. Cuts(R2, d, m2, 0, A2, C2)
  BY <1>5, <1>10 DEF Cuts
<1>7. ASSUME NEW a \in Nat, NEW c \in Nat, <<a, c>> \in R2 PROVE LightAt(a, c, A2, C2, less2)
  <2>1. CASE <<a, c>> \in R
    <3>1. a <= A /\ LightAt(a, c, A, C, less)
      BY <1>1, <2>1 DEF Cuts, Light
    <3> QED  BY <1>2, <3>1, Heavier
  <2>2. CASE a = A2 /\ c = C2
    <3>1. PICK sl \in Nat : sl = Slack(A2) /\ less2 <= sl
      BY <1>2, Numbers DEF Slack
    <3>2. (RunMax + 1) * (A2 + C2) + less2 <= (RunMax + 1) * (C2 + A2) + (A2 - A2) + sl
      <4>1. PICK u \in Nat : u = (RunMax + 1) * (A2 + C2) /\ u = (RunMax + 1) * (C2 + A2)
        BY Numbers
      <4> QED  BY <3>1, <4>1
    <3> QED  BY <2>2, <3>1, <3>2 DEF LightAt
  <2> QED  BY <1>7, <2>1, <2>2
<1>8. Light(R2, A2, C2, less2)
  BY <1>7 DEF Light
<1> HIDE DEF R2
<1>9. Coded(m2, d, A2, C2, less2)
  BY <1>3, <1>6, <1>8 DEF Coded
<1> QED  BY <1>2, <1>9

-----------------------------------------------------------------------------
(* Bytes.                                                                   *)

\* m2 is m but for the bytes bs, which stand at the place given.
PutTo(m, m2, at, bs) ==
    /\ m2 \in Seq(Nat) /\ Len(m2) = Len(m)
    /\ \A k \in 1..Len(m) : m2[k] = IF k \in at..(at + Len(bs) - 1)
                                     THEN bs[k - at + 1] ELSE m[k]

LEMMA PutIs ==
  ASSUME NEW m \in Seq(Nat), NEW at \in Nat, NEW bs \in Seq(Nat)
  PROVE  PutTo(m, Put(m, at, bs), at, bs)
<1> DEFINE e(k) == IF k \in at..(at + Len(bs) - 1) THEN bs[k - at + 1] ELSE m[k]
<1>1. PICK n \in Nat : n = Len(m) /\ DOMAIN m = 1..n
  OBVIOUS
<1>2. PICK l \in Nat : l = Len(bs)
  OBVIOUS
<1>3. ASSUME NEW k \in 1..n PROVE e(k) \in Nat
  <2>1. CASE k \in at..(at + l - 1)
    <3>1. k - at + 1 \in 1..l
      BY <2>1, <1>2
    <3>2. bs[k - at + 1] \in Nat
      BY <3>1, <1>2
    <3> QED  BY <2>1, <1>2, <3>2
  <2>2. CASE ~(k \in at..(at + l - 1))
    <3>1. m[k] \in Nat
      BY <1>1
    <3> QED  BY <2>2, <1>2, <3>1
  <2> QED  BY <2>1, <2>2
<1>4. Put(m, at, bs) = [k \in 1..n |-> e(k)]
  BY <1>1 DEF Put
<1> HIDE DEF e
<1>5. [k \in 1..n |-> e(k)] \in Seq(Nat) /\ Len([k \in 1..n |-> e(k)]) = n
  BY <1>3
<1>6. \A k \in 1..n : Put(m, at, bs)[k] = e(k)
  BY <1>4
<1> QED  BY <1>1, <1>4, <1>5, <1>6 DEF e, PutTo

LEMMA PrefixIs ==
  ASSUME NEW z \in 0..RunMax, NEW w \in 0..RunMax
  PROVE  /\ Prefix(z, w) \in Nat
         /\ Prefix(z, w) \div (RunMax + 1) = z /\ Prefix(z, w) % (RunMax + 1) = w
<1>1. PICK M \in Nat : M = RunMax + 1 /\ M > 0 /\ z \in Nat /\ w \in Nat /\ w < M
  BY Numbers
<1>2. z * M + w \in Nat
  BY <1>1
<1>3. PICK n \in Nat : n = z * M + w
  BY <1>2
<1>8. n \div M \in Nat /\ n % M \in 0..(M - 1) /\ n = M * (n \div M) + (n % M)
  <2>1. n \in Nat /\ M \in Nat /\ M > 0
    BY <1>1
  <2> QED  BY <2>1
<1>4. PICK a \in Nat, b \in 0..(M - 1) : a = n \div M /\ b = n % M /\ n = M * a + b
  BY <1>8
<1>5. a = z
  <2>1. CASE a >= z + 1
    <3>1. M * a >= M * (z + 1)
      BY <1>1, <2>1
    <3>2. M * (z + 1) = z * M + M
      BY <1>1
    <3> QED  BY <1>1, <1>3, <1>4, <3>1, <3>2
  <2>2. CASE z >= a + 1
    <3>1. M * z >= M * (a + 1)
      BY <1>1, <2>2
    <3>2. M * (a + 1) = M * a + M /\ M * z = z * M
      BY <1>1
    <3> QED  BY <1>1, <1>3, <1>4, <3>1, <3>2
  <2>3. a < z + 1 /\ z < a + 1
    <3>1. a \in Nat /\ z \in Nat
      BY <1>1
    <3> QED  BY <2>1, <2>2, <3>1
  <2> QED  BY <1>1, <2>3
<1>6. b = w
  <2>1. PICK u \in Nat : u = M * a /\ u = z * M
    BY <1>1, <1>5
  <2>2. n = u + w /\ n = u + b
    BY <1>3, <1>4, <2>1
  <2> QED  BY <1>1, <2>2
<1>7. Prefix(z, w) = n
  BY <1>1, <1>3 DEF Prefix
<1> QED  BY <1>1, <1>4, <1>5, <1>6, <1>7

\* The last block before an overflow.
LEMMA OverflowGap ==
  ASSUME NEW A \in Nat, NEW C \in Nat, NEW n \in Nat, NEW g \in Nat,
         LightAt(0, 0, A, C, 0), C <= n, A >= C + g
  PROVE  g <= n \div RunMax + 1
<1>1. PICK M \in Nat : M = RunMax /\ M >= 2
  BY Numbers
<1>2. (M + 1) * A <= (M + 1) * C + A + (M - 1)
  BY <1>1 DEF LightAt, Slack
<1>3. M * A <= M * C + C + (M - 1)
  <2>1. (M + 1) * A = M * A + A /\ (M + 1) * C = M * C + C
    BY <1>1
  <2>2. PICK u \in Nat, v \in Nat : u = M * A /\ v = M * C
    BY <1>1
  <2> QED  BY <1>1, <1>2, <2>1, <2>2
<1>4. M * A >= M * C + M * g
  <2>1. M * A >= M * (C + g)
    BY <1>1
  <2> QED  BY <1>1, <2>1
<1>5. PICK x \in Nat, y \in 0..(M - 1) : x = n \div M /\ n = M * x + y
  BY <1>1
<1>6. M * g <= M * x + y + (M - 1)
  <2>1. PICK u \in Nat, v \in Nat, t \in Nat, r \in Nat : 
          u = M * A /\ v = M * C /\ t = M * g /\ r = M * x
    BY <1>1
  <2> QED  BY <1>1, <1>3, <1>4, <1>5, <2>1
<1>7. CASE g >= x + 2
  <2>1. M * g >= M * (x + 2)
    BY <1>1, <1>7
  <2>2. M * (x + 2) = M * x + 2 * M
    BY <1>1
  <2>3. PICK t \in Nat, r \in Nat : t = M * g /\ r = M * x
    BY <1>1
  <2> QED  BY <1>1, <1>5, <1>6, <2>1, <2>2, <2>3
<1> QED  BY <1>1, <1>5, <1>7

\* Sizes are rounded up to quanta, and to words.
LEMMA MultipleOf ==
  ASSUME NEW n \in Nat, n > 0, NEW w \in Nat, w > 0
  PROVE  Multiple(n, w) \in n..(n + w - 1) /\ Multiple(n, w) >= w
<1>1. PICK Q \in Nat : Q = w /\ Q > 0
  OBVIOUS
<1>2. PICK l \in Nat : l = n + Q - 1 /\ l >= Q
  BY <1>1
<1>3. l \div Q \in Nat /\ l % Q \in 0..(Q - 1) /\ l = Q * (l \div Q) + (l % Q)
  <2>1. Q > 0 /\ l \in Nat
    BY <1>1
  <2> QED  BY <2>1
<1>4. PICK x \in Nat, r \in 0..(Q - 1) : x = l \div Q /\ l = Q * x + r
  BY <1>3
<1>5. PICK y \in Nat : y = Q * x
  BY <1>1
<1>6. y >= n /\ y <= l
  BY <1>1, <1>2, <1>4, <1>5
<1>7. x >= 1
  <2>1. CASE x = 0
    BY <1>1, <1>5, <1>6, <2>1
  <2> QED  BY <2>1
<1>8. y >= Q
  BY <1>1, <1>5, <1>7
<1>9. Multiple(n, w) = y
  BY <1>1, <1>2, <1>4, <1>5 DEF Multiple
<1> QED  BY <1>1, <1>2, <1>6, <1>8, <1>9

\* The buffer lpc_pool_storage provides is large enough for what has been expanded
\* not to reach what is still to be expanded.
LEMMA Room ==
  ASSUME NEW A \in Nat, NEW n \in Nat
  PROVE  /\ ReadBufferSize(A + Guard, n) \in Nat
         /\ RoundUp(A + 2 * Guard) \in Nat /\ RoundUp(A + 2 * Guard) >= A + 2 * Guard
         /\ \A a, b \in Nat : /\ a <= A /\ b <= n /\ b <= RunMax * a
                              /\ LightAt(a, b, A, n, 0)
               => b + RoundUp(A + 2 * Guard) <= ReadBufferSize(A + Guard, n) + a
<1>1. PICK M \in Nat, G \in Nat, W \in Nat :
        M = RunMax /\ G = Guard /\ W = Word /\ M >= 2 /\ G >= 2 /\ W >= 1
  BY Numbers, RleConstants
<1>2. (A + G) \div M \in Nat /\ (A + G) % M \in 0..(M - 1)
      /\ A + G = M * ((A + G) \div M) + ((A + G) % M)
  <2>1. A + G \in Nat
    BY <1>1
  <2> QED  BY <1>1, <2>1
<1>3. PICK x \in Nat, r \in 0..(M - 1) : x = (A + G) \div M /\ A + G = M * x + r
  BY <1>2
<1>4. PICK big \in Nat : /\ big = IF A + G > n THEN A + G ELSE n
                         /\ big >= A + G /\ big >= n
  BY <1>1
<1>5. ReadBufferSize(A + Guard, n) = WholeQuanta(big + x + G)
  BY <1>1, <1>3, <1>4 DEF ReadBufferSize
<1>6. PICK S \in Nat, Q \in Nat : /\ S = ReadBufferSize(A + Guard, n) /\ Q = StorageQuantum
                                  /\ S >= big + x + G /\ S >= Q
  <2>1. big + x + G \in Nat /\ big + x + G > 0
    BY <1>1
  <2>2. StorageQuantum \in Nat /\ StorageQuantum > 0
    BY RleConstants
  <2>3. /\ Multiple(big + x + G, StorageQuantum) \in Nat
        /\ Multiple(big + x + G, StorageQuantum) >= big + x + G
        /\ Multiple(big + x + G, StorageQuantum) >= StorageQuantum
    BY <2>1, <2>2, MultipleOf
  <2> QED  BY <1>5, <2>2, <2>3 DEF WholeQuanta
<1>7. PICK P \in Nat : RoundUp(A + 2 * Guard) = A + 2 * G + P /\ P <= W - 1
  <2>1. PICK l \in Nat : l = A + 2 * G /\ l > 0
    BY <1>1
  <2>2. Multiple(l, W) \in l..(l + W - 1)
    BY <1>1, <2>1, MultipleOf
  <2>3. PICK P \in Nat : Multiple(l, W) = l + P /\ P <= W - 1
    <3>1. PICK y \in l..(l + W - 1) : y = Multiple(l, W)
      BY <2>2
    <3>2. y - l \in Nat /\ y = l + (y - l) /\ y - l <= W - 1
      BY <1>1, <2>1, <3>1
    <3> QED  BY <3>1, <3>2
  <2> QED  BY <1>1, <2>1, <2>3 DEF RoundUp
<1>8. ASSUME NEW a \in Nat, NEW b \in Nat, a <= A, b <= n, b <= M * a, LightAt(a, b, A, n, 0)
      PROVE  b + (A + 2 * G + P) <= S + a
  <2>1. PICK e \in Int : e = (A + b) - (n + a)
    OBVIOUS
  <2>2. SUFFICES n + e + 2 * G + P <= S
    BY <1>1, <2>1
  <2>3. (M + 1) * e <= (A - a) + (M - 1)
    <3>1. PICK sl \in Nat : sl = Slack(a) /\ sl <= M - 1
      BY <1>1 DEF Slack
    <3>2. (M + 1) * (A + b) <= (M + 1) * (n + a) + (A - a) + sl
      BY <1>1, <1>8, <3>1 DEF LightAt
    <3>3. A + b = (n + a) + e
      BY <2>1
    <3>4. (M + 1) * (A + b) = (M + 1) * (n + a) + (M + 1) * e
      BY <1>1, <3>3
    <3>5. PICK u \in Int, v \in Int : u = (M + 1) * (n + a) /\ v = (M + 1) * e
      BY <1>1
    <3> QED  BY <1>1, <3>1, <3>2, <3>4, <3>5
  <2>4. CASE G + P + e <= x
    BY <1>1, <1>4, <1>6, <2>4
  <2>5. CASE G + P + e >= x + 1
    <3>1. PICK h \in Nat, f \in Int : h = M * (G + P) /\ f = M * e
      BY <1>1
    <3>2. h + f >= A + G + 1
      <4>1. M * (G + P + e) >= M * (x + 1)
        BY <1>1, <2>5
      <4>2. M * (G + P + e) = h + f
        BY <1>1, <3>1
      <4>3. M * (x + 1) = M * x + M
        BY <1>1
      <4>4. PICK v \in Int : v = M * x
        BY <1>1
      <4> QED  BY <1>1, <1>3, <4>1, <4>2, <4>3, <4>4
    <3>3. f + e <= (A - a) + (M - 1)
      <4>1. (M + 1) * e = f + e
        BY <1>1, <3>1
      <4> QED  BY <2>3, <4>1
    <3>4. a <= h + M + P
      BY <1>1, <2>5, <3>2, <3>3
    <3>5. A <= M * h + h + M * M
      <4>1. M * (f + e) <= M * ((A - a) + (M - 1))
        <5>1. PICK u \in Int, v \in Int : u = f + e /\ v = (A - a) + (M - 1) /\ u <= v
          BY <1>1, <3>3
        <5> QED  BY <1>1, <5>1
      <4>2. M * (f + e) = M * f + f
        BY <1>1, <3>1
      <4>3. M * ((A - a) + (M - 1)) = M * A - M * a + M * M - M
        BY <1>1
      <4>4. M * f >= M * (A + G + 1 - h)
        <5>1. PICK v \in Int : v = A + G + 1 - h /\ f >= v
          BY <1>1, <3>2
        <5> QED  BY <1>1, <5>1
      <4>5. M * (A + G + 1 - h) = M * A + M * (G + 1) - M * h
        BY <1>1
      <4>6. PICK u \in Int, v \in Nat, s \in Nat, k \in Nat, l \in Nat, j \in Nat :
              /\ u = M * f /\ v = M * A /\ s = M * (G + 1) /\ k = M * h /\ l = M * a
              /\ j = M * M
        BY <1>1, <3>1
      <4> QED  BY <1>1, <3>2, <4>1, <4>2, <4>3, <4>4, <4>5, <4>6
    <3>6. b - a <= M * h + M * M + M * P - h - P
      <4>1. M * a <= (M - 1) * (h + M + P) + a
        <5>1. PICK m \in Nat : m = M - 1 /\ M = m + 1
          BY <1>1
        <5>2. PICK v \in Nat : v = h + M + P /\ a <= v
          BY <3>4
        <5>3. (m + 1) * a = m * a + a /\ m * a <= m * v
          BY <5>1, <5>2
        <5> QED  BY <5>1, <5>2, <5>3
      <4>2. (M - 1) * (h + M + P) = M * h + M * M + M * P - h - M - P
        BY <1>1
      <4>3. PICK u \in Nat, v \in Nat, s \in Nat, k \in Nat :
              u = M * h /\ v = M * M /\ s = M * P /\ k = M * a
        BY <1>1
      <4> QED  BY <1>1, <1>8, <4>1, <4>2, <4>3
    <3>7. Q >= 2 * (M * h) + 2 * (M * M) + M * P + 2 * G
      <4>1. Q >= 2 * (M * (M * (G + W))) + M * W + 2 * G
        BY <1>1, <1>6, RleRoom
      <4>2. M * (G + W) >= h + M
        <5>1. PICK k \in Nat : G + W = G + P + 1 + k
          <6>1. W - P - 1 \in Nat
            BY <1>1, <1>7
          <6> QED  BY <1>1, <6>1
        <5>2. M * (G + P + 1 + k) = M * (G + P) + M + M * k /\ M * k \in Nat
          BY <1>1
        <5> QED  BY <1>1, <3>1, <5>1, <5>2
      <4>3. M * (M * (G + W)) >= M * h + M * M
        <5>1. PICK u \in Nat : u = M * (G + W) /\ u >= h + M
          BY <1>1, <4>2
        <5>2. M * u >= M * (h + M) /\ M * (h + M) = M * h + M * M
          BY <1>1, <5>1
        <5> QED  BY <5>1, <5>2
      <4>4. M * W >= M * P
        <5>1. PICK k \in Nat : W = P + 1 + k
          <6>1. W - P - 1 \in Nat
            BY <1>1, <1>7
          <6> QED  BY <1>1, <6>1
        <5>2. M * (P + 1 + k) = M * P + M + M * k /\ M * k \in Nat
          BY <1>1
        <5> QED  BY <1>1, <5>1, <5>2
      <4>5. PICK u \in Nat, v \in Nat, s \in Nat, k \in Nat, l \in Nat :
              /\ u = M * (M * (G + W)) /\ v = M * h /\ s = M * M /\ k = M * W /\ l = M * P
        BY <1>1
      <4> QED  BY <1>1, <4>1, <4>3, <4>4, <4>5
    <3>8. PICK u \in Nat, v \in Nat, s \in Nat : u = M * h /\ v = M * M /\ s = M * P
      BY <1>1
    <3> QED  BY <1>1, <1>6, <2>1, <3>5, <3>6, <3>7, <3>8
  <2> QED  BY <1>1, <2>4, <2>5
<1> QED  BY <1>1, <1>6, <1>7, <1>8

-----------------------------------------------------------------------------
(* The states: d is the record, g the gap, m the bytes, c the length of the *)
(* compressed record; h and o are where the next byte is read and written,  *)
(* s, i and j as in the code.                                               *)

Orig(d, g, k) == IF k <= g + Len(d) THEN d[k - g] ELSE Marker[k - g - Len(d)]

Held(d, g, m) == m \in Seq(Nat) /\ Len(m) = g + Len(d) + Guard

\* The bytes from the h-th on are as they were.
Unread(d, g, m, h) == \A k \in h..(g + Len(d) + Guard) : m[k] = Orig(d, g, k)

CountOK(d, g, m, h, o) ==
    /\ Held(d, g, m)
    /\ h \in (g + 1)..(g + Len(d) + 1)
    /\ o \in 1..(h - 1)
    /\ Unread(d, g, m, h)
    /\ \/ h = g + 1 /\ o = 1
       \/ h = g + Len(d) + 1
       \/ d[h - g] = 0
    /\ h - g - 1 <= RunMax * (o - 1)
    /\ Coded(m, d, o - 1, h - g - 1, 0)

\* Before a run without zero bytes the next blocks may cost a byte each.
Less(i) == IF i = 0 THEN RunMax - 1 ELSE 0

\* What the blocks written so far stand for.
Behind(g, h, i, j) == h - g - 1 - i - j

\* The writer passes the reader only in a run of non-zero bytes, and then never
\* falls back: what it spoils is thrown away with the overflow.
BlockOK(d, g, m, h, o, s, i, j) ==
    /\ Held(d, g, m)
    /\ i \in Nat /\ j \in Nat /\ i + j >= 1
    /\ h \in (g + 1 + i + j)..(g + Len(d) + 1)
    /\ o \in Nat \ {0}
    /\ j > 0 => s = h - j
    /\ h = g + Len(d) + 1 \/ d[h - g] = 0
    /\ i > 0 => o + i < h - j
    /\ \A k \in 1..i : d[Behind(g, h, i, j) + k] = 0
    /\ Behind(g, h, i, j) <= RunMax * (o - 1)
    /\ LightAt(0, 0, o - 1, Behind(g, h, i, j), Less(i))
    /\ o < h - j => /\ Coded(m, d, o - 1, Behind(g, h, i, j), Less(i))
                    /\ Unread(d, g, m, h - j)

StoredOK(d, m, c) ==
    /\ m \in Seq(Nat)
    /\ c \in Guard..Len(m)
    /\ Len(d) <= RunMax * (c - Guard)
    /\ Coded(m, d, c - Guard, Len(d), 0)

\* The cut <<a, b>> is reached, and no cut beyond it lets the writer pass.
ExpandOK(d, m, h, o, c) ==
    /\ m \in Seq(Nat)
    /\ c \in Nat /\ c >= Guard
    /\ \E top, a, b \in Nat :
          /\ Len(m) = top + c + Guard
          /\ h = top + a + 1 /\ o = b + 1
          /\ \A k \in 1..b : m[k] = d[k]
          /\ \E R \in SUBSET (Nat \X Nat) :
                /\ <<a, b>> \in R
                /\ Cuts(R, d, m, top, c - Guard, Len(d))
                /\ \A x, y \in Nat : <<x, y>> \in R => y <= top + x

\* A record of Records in a gap of Gaps.
Given(d, g) == d \in Seq(Nat) /\ Len(d) \in Nat \ {0} /\ g \in Nat \ {0}

LEMMA Sizes ==
  ASSUME NEW d \in Records, NEW g \in Gaps
  PROVE  Given(d, g) /\ \A k \in 1..Len(d) : d[k] \in Nat
<1>1. Mark \in Nat
  BY Numbers DEF Mark
<1>2. d \in Seq(0..(Mark - 1)) /\ d # <<>>
  BY RleConstants
<1>3. 0..(Mark - 1) \subseteq Nat
  BY <1>1
<1>4. d \in Seq(Nat)
  <2>1. PICK S \in SUBSET Nat : S = 0..(Mark - 1)
    BY <1>3
  <2>2. d \in Seq(S)
    BY <1>2, <2>1
  <2>3. Len(d) \in Nat /\ d \in [1..Len(d) -> S]
    BY <2>2
  <2>4. d \in [1..Len(d) -> Nat]
    BY <2>3
  <2> QED  BY <2>3, <2>4
<1>5. Len(d) # 0
  BY <1>2, <1>4, EmptySeq
<1>6. g \in Nat \ {0}
  BY RleConstants
<1> QED  BY <1>4, <1>5, <1>6 DEF Given

LEMMA MarkerIs ==
  /\ Marker \in Seq(Nat) /\ Len(Marker) = Guard
  /\ Marker[1] # 0 /\ Marker[2] = 0
<1>1. Mark \in Nat /\ Mark # 0
  <2>1. RunMax * (RunMax + 1) \in Nat
    BY Numbers
  <2> QED  BY <2>1, Numbers DEF Mark
<1> DEFINE e(k) == IF k % 2 = 1 THEN Mark ELSE 0
<1>2. \A k \in 1..Guard : e(k) \in Nat
  BY <1>1
<1>3. Marker = [k \in 1..Guard |-> e(k)]
  BY DEF Marker
<1>4. e(1) = Mark /\ e(2) = 0
  OBVIOUS
<1> HIDE DEF e
<1>5. [k \in 1..Guard |-> e(k)] \in Seq(Nat) /\ Len([k \in 1..Guard |-> e(k)]) = Guard
  BY <1>2, Numbers
<1> QED  BY <1>1, <1>3, <1>4, <1>5, Numbers

\* The marker stops either run.
LEMMA OrigIs ==
  ASSUME NEW d, NEW g, Given(d, g)
  PROVE  /\ \A k \in (g + 1)..(g + Len(d)) : Orig(d, g, k) = d[k - g]
         /\ Orig(d, g, g + Len(d) + 1) # 0 /\ Orig(d, g, g + Len(d) + 2) = 0
<1>1. PICK n \in Nat : n = Len(d) /\ g \in Nat
  BY DEF Given
<1>2. /\ ~(g + n + 1 <= g + n) /\ ~(g + n + 2 <= g + n)
      /\ g + n + 1 - g - n = 1 /\ g + n + 2 - g - n = 2
  BY <1>1
<1>3. \A k \in (g + 1)..(g + n) : k <= g + n
  OBVIOUS
<1> QED  BY <1>1, <1>2, <1>3, MarkerIs DEF Orig

LEMMA CodedLight ==
  ASSUME NEW m, NEW d, NEW A, NEW C, NEW less, Coded(m, d, A, C, less)
  PROVE  LightAt(0, 0, A, C, less)
BY DEF Coded, Light

LEMMA CodedNothing ==
  ASSUME NEW m, NEW d, NEW less \in Nat, less <= RunMax - 1
  PROVE  Coded(m, d, 0, 0, less)
<1> DEFINE R == {<<0, 0>>}
<1>1. R \in SUBSET (Nat \X Nat) /\ <<0, 0>> \in R
  OBVIOUS
<1>2. \A a, c \in Nat : <<a, c>> \in R => a = 0 /\ c = 0
  OBVIOUS
<1> HIDE DEF R
<1>3. LightAt(0, 0, 0, 0, less)
  BY Numbers DEF LightAt, Slack
<1>4. Cuts(R, d, m, 0, 0, 0)
  <2>1. \A a, c \in Nat : <<a, c>> \in R => a <= 0 /\ c <= 0 /\ c <= RunMax * a
    BY <1>2, Numbers
  <2>2. \A a, c \in Nat : <<a, c>> \in R => Goes(R, d, m, 0, a, c, 0, 0)
    BY <1>2 DEF Goes
  <2> QED  BY <1>1, <2>1, <2>2 DEF Cuts
<1>5. Light(R, 0, 0, less)
  BY <1>2, <1>3 DEF Light
<1> QED  BY <1>1, <1>4, <1>5 DEF Coded

\* The cuts from the lo-th byte on are those of a copy of what follows it.
Rest(R, d, m, off, A, C, lo) ==
    \E R2 \in SUBSET R : /\ Cuts(R2, d, m, off, A, C)
                          /\ \A c \in Nat : <<lo, c>> \in R => <<lo, c>> \in R2

LEMMA RestOfCuts ==
  ASSUME NEW d, NEW m, NEW m2, NEW off \in Nat, NEW off2 \in Nat, NEW A \in Nat, NEW C \in Nat,
         NEW lo \in Nat, lo <= A, NEW R \in SUBSET (Nat \X Nat),
         Cuts(R, d, m, off, A, C), SameBytes(m2, off2, m, off, lo, A)
  PROVE  Rest(R, d, m2, off2, A, C, lo)
<1> DEFINE R2 == {x \in R : x[1] >= lo}
<1>1. R2 \in SUBSET R
  OBVIOUS
<1>2. \A a, c \in Nat : <<a, c>> \in R2 <=> <<a, c>> \in R /\ a >= lo
  OBVIOUS
<1> HIDE DEF R2
<1>3. /\ <<A, C>> \in R
      /\ \A a, c \in Nat : <<a, c>> \in R => a <= A /\ c <= C /\ c <= RunMax * a
      /\ \A a, c \in Nat : <<a, c>> \in R => Goes(R, d, m, off, a, c, A, C)
  BY DEF Cuts
<1>4. ASSUME NEW a \in Nat, NEW c \in Nat, <<a, c>> \in R2
      PROVE  Goes(R2, d, m2, off2, a, c, A, C)
  <2>1. CASE a = A /\ c = C
    BY <2>1 DEF Goes
  <2>2. CASE ~(a = A /\ c = C)
    <3>1. <<a, c>> \in R /\ lo <= a
      BY <1>2, <1>4
    <3>2. PICK b \in Nat, e \in Nat : <<b, e>> \in R /\ BlockBetween(d, m, off, a, c, b, e)
      BY <1>3, <2>2, <3>1 DEF Goes
    <3>3. b <= A
      BY <1>3, <3>2
    <3>4. BlockBetween(d, m2, off2, a, c, b, e)
      BY <3>1, <3>2, <3>3, BlockCopied
    <3>5. b > a
      BY <3>2, BlockForward
    <3>6. <<b, e>> \in R2
      BY <1>2, <3>1, <3>2, <3>5
    <3> QED  BY <3>4, <3>6 DEF Goes
  <2> QED  BY <2>1, <2>2
<1>5. <<A, C>> \in R2
  BY <1>2, <1>3
<1>6. \A a, c \in Nat : <<a, c>> \in R2 => a <= A /\ c <= C /\ c <= RunMax * a
  BY <1>2, <1>3
<1>7. Cuts(R2, d, m2, off2, A, C)
  BY <1>4, <1>5, <1>6 DEF Cuts
<1>8. \A c \in Nat : <<lo, c>> \in R => <<lo, c>> \in R2
  BY <1>2
<1> QED  BY <1>1, <1>7, <1>8 DEF Rest

LEMMA CodedCopied ==
  ASSUME NEW m, NEW m2, NEW d, NEW A \in Nat, NEW C \in Nat, NEW less \in Nat,
         Coded(m, d, A, C, less), SameBytes(m2, 0, m, 0, 0, A)
  PROVE  Coded(m2, d, A, C, less)
<1>1. PICK R \in SUBSET (Nat \X Nat) :
        <<0, 0>> \in R /\ Cuts(R, d, m, 0, A, C) /\ Light(R, A, C, less)
  BY DEF Coded
<1>2. 0 \in Nat /\ 0 <= A
  OBVIOUS
<1>3. PICK R2 \in SUBSET R : /\ Cuts(R2, d, m2, 0, A, C)
                             /\ \A c \in Nat : <<0, c>> \in R => <<0, c>> \in R2
  <2>1. Rest(R, d, m2, 0, A, C, 0)
    BY <1>1, <1>2, RestOfCuts
  <2> QED  BY <2>1 DEF Rest
<1>4. R2 \in SUBSET (Nat \X Nat) /\ <<0, 0>> \in R2
  BY <1>1, <1>2, <1>3
<1>5. Light(R2, A, C, less)
  BY <1>1 DEF Light
<1> QED  BY <1>3, <1>4, <1>5 DEF Coded

-----------------------------------------------------------------------------
(* The writer.                                                              *)

\* A block of z zero bytes and w others, written at o; the others are those at s.
Written(m, m2, o, s, z, w) ==
    /\ m2 \in Seq(Nat) /\ Len(m2) = Len(m)
    /\ \A k \in 1..Len(m) : ~(k \in o..(o + w)) => m2[k] = m[k]
    /\ o + w <= Len(m) /\ (w > 0 => o < s) =>
          /\ m2[o] = Prefix(z, w)
          /\ \A k \in 1..w : m2[o + k] = m[s + k - 1]

LEMMA PrefixWritten ==
  ASSUME NEW m \in Seq(Nat), NEW o \in Nat \ {0}, NEW s, NEW z \in 0..RunMax
  PROVE  Written(m, Put(m, o, <<Prefix(z, 0)>>), o, s, z, 0)
<1>1. PICK x \in Nat : x = Prefix(z, 0)
  BY Numbers, PrefixIs
<1>2. PICK n \in Nat : n = Len(m)
  OBVIOUS
<1> DEFINE m2 == Put(m, o, <<x>>)
<1>3. <<x>> \in Seq(Nat) /\ Len(<<x>>) = 1 /\ <<x>>[1] = x
  OBVIOUS
<1>4. /\ m2 \in Seq(Nat) /\ Len(m2) = n
      /\ \A k \in 1..n : m2[k] = IF k \in o..(o + 1 - 1) THEN <<x>>[k - o + 1] ELSE m[k]
  <2>1. PutTo(m, m2, o, <<x>>)
    BY <1>3, PutIs
  <2> HIDE DEF m2
  <2> QED  BY <1>2, <1>3, <2>1 DEF PutTo
<1> HIDE DEF m2
<1>5. \A k \in 1..n : ~(k \in o..(o + 0)) => m2[k] = m[k]
  BY <1>4
<1>6. o + 0 <= n => m2[o] = x
  <2>1. o - o + 1 = 1
    OBVIOUS
  <2> QED  BY <1>3, <1>4, <2>1
<1>7. Written(m, m2, o, s, z, 0)
  BY <1>1, <1>2, <1>4, <1>5, <1>6 DEF Written
<1> QED  BY <1>1, <1>7 DEF m2

LEMMA BlockWritten ==
  ASSUME NEW m \in Seq(Nat), NEW o \in Nat \ {0}, NEW s,
         NEW z \in 0..RunMax, NEW w \in 0..RunMax,
         w > 0 => s \in 1..(Len(m) - w + 1)
  PROVE  LET m1 == Put(m, o, <<Prefix(z, w)>>)
         IN  Written(m, Put(m1, o + 1, [k \in 1..w |-> m1[s + k - 1]]), o, s, z, w)
<1>1. PICK x \in Nat : x = Prefix(z, w)
  BY PrefixIs
<1>2. PICK n \in Nat : n = Len(m)
  OBVIOUS
<1> DEFINE m1 == Put(m, o, <<x>>)
           bs == [k \in 1..w |-> m1[s + k - 1]]
           m2 == Put(m1, o + 1, bs)
<1>3. <<x>> \in Seq(Nat) /\ Len(<<x>>) = 1 /\ <<x>>[1] = x /\ w \in Nat
  BY Numbers
<1>4. /\ m1 \in Seq(Nat) /\ Len(m1) = n
      /\ \A k \in 1..n : m1[k] = IF k \in o..(o + 1 - 1) THEN <<x>>[k - o + 1] ELSE m[k]
  <2>1. PutTo(m, m1, o, <<x>>)
    BY <1>3, PutIs
  <2> HIDE DEF m1
  <2> QED  BY <1>2, <1>3, <2>1 DEF PutTo
<1> HIDE DEF m1
<1>5. ASSUME NEW k \in 1..w PROVE s + k - 1 \in 1..n /\ m1[s + k - 1] \in Nat
  <2>1. s \in 1..(n - w + 1)
    BY <1>2, <1>3
  <2>2. PICK e \in 1..n : e = s + k - 1
    BY <1>3, <2>1
  <2>3. m1 \in Seq(Nat) /\ Len(m1) = n
    BY <1>4
  <2>4. m1[e] \in Nat
    BY <2>3
  <2> QED  BY <2>2, <2>4
<1>6. bs \in Seq(Nat) /\ Len(bs) = w /\ \A k \in 1..w : bs[k] = m1[s + k - 1]
  BY <1>3, <1>5
<1> HIDE DEF bs
<1>7. /\ m2 \in Seq(Nat) /\ Len(m2) = n
      /\ \A k \in 1..n : m2[k] = IF k \in (o + 1)..(o + 1 + w - 1) THEN bs[k - (o + 1) + 1] ELSE m1[k]
  <2>1. o + 1 \in Nat
    OBVIOUS
  <2>2. PutTo(m1, m2, o + 1, bs)
    BY <1>4, <1>6, <2>1, PutIs
  <2> HIDE DEF m2
  <2> QED  BY <1>4, <1>6, <2>2 DEF PutTo
<1> HIDE DEF m2
<1>8. \A k \in 1..n : ~(k \in o..(o + w)) => m2[k] = m[k]
  BY <1>3, <1>4, <1>7
<1>9. ASSUME o + w <= n, w > 0 => o < s
      PROVE  m2[o] = x /\ \A k \in 1..w : m2[o + k] = m[s + k - 1]
  <2>1. o \in 1..n /\ ~(o \in (o + 1)..(o + 1 + w - 1)) /\ o \in o..(o + 1 - 1) /\ o - o + 1 = 1
    BY <1>3, <1>9
  <2>2. m2[o] = x
    BY <1>3, <1>4, <1>7, <2>1
  <2>3. ASSUME NEW k \in 1..w PROVE m2[o + k] = m[s + k - 1]
    <3>1. o + k \in 1..n /\ o + k \in (o + 1)..(o + 1 + w - 1) /\ (o + k) - (o + 1) + 1 = k
      BY <1>3, <1>9
    <3>2. m2[o + k] = bs[k]
      BY <1>7, <3>1
    <3>3. s \in 1..(n - w + 1) /\ o < s
      BY <1>2, <1>3, <1>9
    <3>4. ~(s + k - 1 \in o..(o + 1 - 1))
      BY <3>3
    <3> QED  BY <1>4, <1>5, <1>6, <3>2, <3>4
  <2> QED  BY <2>2, <2>3
<1>10. Written(m, m2, o, s, z, w)
  BY <1>1, <1>2, <1>7, <1>8, <1>9 DEF Written
<1> QED  BY <1>1, <1>10 DEF m1, m2, bs

\* What has been written up to o, with i and j bytes of the run left; it is as it
\* should be if the writer has not passed the reader.
Emits(d, g, m, h, o, i, j, less, fits) ==
    /\ Held(d, g, m)
    /\ Behind(g, h, i, j) \in Nat /\ Behind(g, h, i, j) <= Len(d)
    /\ \A k \in 1..i : d[Behind(g, h, i, j) + k] = 0
    /\ Behind(g, h, i, j) <= RunMax * (o - 1)
    /\ LightAt(0, 0, o - 1, Behind(g, h, i, j), less)
    /\ fits => /\ Coded(m, d, o - 1, Behind(g, h, i, j), less)
               /\ Unread(d, g, m, h - j)

\* What a block that has been written adds to the record.
LEMMA Emitted ==
  ASSUME NEW d, NEW g, Given(d, g), NEW m, NEW m2, NEW h, NEW o, NEW s, NEW i, NEW j,
         BlockOK(d, g, m, h, o, s, i, j),
         NEW z \in 0..RunMax, NEW w \in 0..RunMax, z <= i, w <= j, w > 0 => z = i,
         Written(m, m2, o, s, z, w),
         NEW less \in Nat, RunMax + less <= (RunMax + 1) * z + Less(i) + w, less <= Slack(o + w)
  PROVE  Emits(d, g, m2, h, o + w + 1, i - z, j - w, less, o < h - j)
<1>1. PICK n \in Nat : n = Len(d) /\ g \in Nat
  BY DEF Given
<1>2. /\ Held(d, g, m) /\ i \in Nat /\ j \in Nat /\ i + j >= 1
      /\ h \in (g + 1 + i + j)..(g + n + 1) /\ o \in Nat \ {0}
      /\ j > 0 => s = h - j
      /\ i > 0 => o + i < h - j
      /\ \A k \in 1..i : d[Behind(g, h, i, j) + k] = 0
      /\ Behind(g, h, i, j) <= RunMax * (o - 1)
      /\ LightAt(0, 0, o - 1, Behind(g, h, i, j), Less(i))
      /\ o < h - j => /\ Coded(m, d, o - 1, Behind(g, h, i, j), Less(i))
                      /\ Unread(d, g, m, h - j)
  BY <1>1 DEF BlockOK
<1>3. PICK M \in Nat : M = RunMax /\ M >= 2 /\ z \in 0..M /\ w \in 0..M
  BY Numbers
<1>4. h \in Nat
  BY <1>1, <1>2
<1>18. PICK A \in Nat : A = o - 1 /\ o + w = A + 1 + w
  BY <1>2, <1>3
<1>19. PICK l \in Nat : l = Less(i)
  BY <1>2, <1>3 DEF Less
<1>20. h >= g + 1 + i + j /\ h <= g + n + 1 /\ z \in Nat /\ w \in Nat /\ i \in Nat /\ j \in Nat
  BY <1>1, <1>2, <1>3
<1>21. PICK C \in Nat : C = h - g - 1 - i - j
  BY <1>1, <1>4, <1>20
<1>22. PICK C2 \in Nat : C2 = C + z + w
  BY <1>20
<1>23. C2 <= n /\ C2 = h - g - 1 - (i - z) - (j - w)
  BY <1>1, <1>4, <1>20, <1>21, <1>22
<1>5. /\ A = o - 1 /\ C = Behind(g, h, i, j) /\ C2 = Behind(g, h, i - z, j - w)
      /\ C = h - g - 1 - i - j /\ C2 = C + z + w /\ C2 <= n
      /\ l = Less(i) /\ o + w = A + 1 + w
  BY <1>18, <1>19, <1>21, <1>22, <1>23 DEF Behind
<1>6. Held(d, g, m2)
  BY <1>2 DEF Held, Written
<1>7. ASSUME NEW k \in 1..(i - z) PROVE d[C2 + k] = 0
  <2>1. j >= 0 /\ z < i /\ w = 0
    BY <1>2, <1>3, <1>7
  <2>2. z + k \in 1..i /\ C2 + k = C + (z + k)
    BY <1>2, <1>3, <1>5, <2>1
  <2> QED  BY <1>2, <1>5, <2>2
<1>8. C2 <= M * (o + w)
  <2>1. M * (o + w) = M * A + M + M * w
    BY <1>2, <1>3, <1>5
  <2>2. w <= M * w
    BY <1>3
  <2>3. C <= M * A
    BY <1>2, <1>3, <1>5
  <2>4. PICK u \in Nat, v \in Nat : u = M * A /\ v = M * w
    BY <1>3
  <2> QED  BY <1>3, <1>5, <2>1, <2>2, <2>3, <2>4
<1>9. LightAt(0, 0, o + w, C2, less)
  <2>1. LightAt(0, 0, A, C, l) /\ 0 <= A /\ 0 \in Nat
    BY <1>2, <1>5
  <2>2. RunMax + less <= (RunMax + 1) * z + l + w
    BY <1>5
  <2>3. LightAt(0, 0, A + 1 + w, C + z + w, less)
    BY <2>1, <2>2, Heavier
  <2> QED  BY <1>5, <2>3
<1>10. ASSUME o < h - j
       PROVE  Coded(m2, d, o + w, C2, less) /\ Unread(d, g, m2, h - (j - w))
  <2>14. PICK t \in Nat : t = g + n + Guard /\ t >= g + n + 2
    BY <1>1, Numbers
  <2>15. Len(m) = g + n + Guard
    BY <1>1, <1>2 DEF Held
  <2>1. t = g + n + Guard /\ Len(m) = t /\ t >= g + n + 2
    BY <2>14, <2>15
  <2>2. o + w < h - (j - w) /\ h - (j - w) <= h /\ o + w <= t /\ h - j \in Nat /\ h <= t
    <3>1. /\ h \in Nat /\ o \in Nat /\ i \in Nat /\ j \in Nat /\ z \in Nat /\ w \in Nat
          /\ z <= i /\ w <= j /\ o < h - j /\ h <= g + n + 1 /\ h >= g + 1 + i + j
      BY <1>1, <1>2, <1>3, <1>4, <1>10
    <3> QED  BY <1>1, <2>1, <3>1
  <2>3. Coded(m, d, A, C, l) /\ Unread(d, g, m, h - j)
    BY <1>2, <1>5, <1>10
  <2>4. \A k \in 1..A : m2[k] = m[k]
    <3>1. \A k \in 1..A : k \in 1..t /\ ~(k \in o..(o + w))
      BY <1>2, <1>3, <1>5, <2>2
    <3> QED  BY <2>1, <3>1 DEF Written
  <2>5. o + w <= Len(m) /\ (w > 0 => o < s)
    BY <1>2, <1>3, <1>10, <2>1, <2>2
  <2>6. m2[o] = Prefix(z, w) /\ \A k \in 1..w : m2[o + k] = m[s + k - 1]
    BY <2>5 DEF Written
  <2>7. m2[A + 1] = Prefix(z, w)
    BY <1>2, <1>5, <2>6
  <2>8. ASSUME NEW k \in 1..w PROVE m2[A + 1 + k] = d[C + z + k]
    <3>1. s = h - j /\ z = i /\ w > 0
      BY <1>2, <1>3
    <3>2. m2[A + 1 + k] = m[s + k - 1]
      BY <1>2, <1>5, <2>6
    <3>3. /\ s + k - 1 \in (h - j)..t /\ s + k - 1 \in (g + 1)..(g + n)
          /\ (s + k - 1) - g = C + z + k
      <4>1. /\ h \in Nat /\ i \in Nat /\ j \in Nat /\ w \in Nat /\ k \in Nat /\ k >= 1 /\ k <= w
            /\ w <= j /\ h <= g + n + 1 /\ h >= g + 1 + i + j /\ C = h - g - 1 - i - j /\ z = i
        BY <1>1, <1>2, <1>3, <1>4, <1>5, <3>1
      <4> QED  BY <1>1, <2>1, <3>1, <4>1
    <3>4. m[s + k - 1] = Orig(d, g, s + k - 1)
      BY <1>1, <2>1, <2>3, <3>3 DEF Unread
    <3>5. Orig(d, g, s + k - 1) = d[(s + k - 1) - g]
      BY <1>1, <3>3, OrigIs
    <3> QED  BY <3>2, <3>3, <3>4, <3>5
  <2>9. \A k \in 1..z : d[C + k] = 0
    BY <1>2, <1>3, <1>5
  <2>10. RunMax + less <= (RunMax + 1) * z + l + w /\ less <= Slack(A + 1 + w)
    BY <1>5
  <2>11. Coded(m2, d, A + 1 + w, C + z + w, less)
    BY <2>3, <2>4, <2>7, <2>8, <2>9, <2>10, Appended
  <2>12. ASSUME NEW k \in (h - (j - w))..t PROVE m2[k] = Orig(d, g, k)
    <3>1. k \in 1..t /\ ~(k \in o..(o + w)) /\ k \in (h - j)..t
      BY <1>2, <1>3, <2>2
    <3>2. m2[k] = m[k]
      BY <2>1, <3>1 DEF Written
    <3> QED  BY <1>1, <2>1, <2>3, <3>1, <3>2 DEF Unread
  <2>13. Unread(d, g, m2, h - (j - w))
    BY <1>1, <2>1, <2>12 DEF Unread
  <2> QED  BY <1>5, <2>11, <2>13
<1>11. C2 = Behind(g, h, i - z, j - w) /\ C2 \in Nat /\ C2 <= Len(d)
  BY <1>1, <1>5
<1>12. PICK e \in Nat : e = o + w + 1 /\ e - 1 = o + w
  BY <1>2, <1>3
<1>13. C2 <= RunMax * (e - 1)
  BY <1>3, <1>8, <1>12
<1>14. \A k \in 1..(i - z) : d[C2 + k] = 0
  BY <1>7
<1>15. LightAt(0, 0, e - 1, C2, less)
  BY <1>9, <1>12
<1>16. o < h - j => Coded(m2, d, e - 1, C2, less) /\ Unread(d, g, m2, h - (j - w))
  BY <1>10, <1>12
<1>17. Emits(d, g, m2, h, e, i - z, j - w, less, o < h - j)
  BY <1>6, <1>11, <1>13, <1>14, <1>15, <1>16 DEF Emits
<1> QED  BY <1>12, <1>17

-----------------------------------------------------------------------------
\* Between the blocks everything is in order; in a block while the writer is behind
\* the reader; and what is stored and expanded is known by its cuts.
RleInv ==
    /\ record \in Records /\ gap \in Gaps
    /\ step = "count" => CountOK(record, gap, cells, rd, wr)
    /\ step = "block" => BlockOK(record, gap, cells, rd, wr, runAt, zleft, nleft)
    /\ step = "stored" => StoredOK(record, cells, comp)
    /\ step = "expand" => ExpandOK(record, cells, rd, wr, comp)
    /\ RoundTrip
    /\ OverflowOnlyWhenTight

LEMMA InitRle == RleInit => RleInv
<1> SUFFICES ASSUME RleInit PROVE RleInv
  OBVIOUS
<1>1. PICK d \in Records, g \in Gaps : d = record /\ g = gap
  BY DEF RleInit
<1>2. PICK n \in Nat : n = Len(d) /\ n >= 1 /\ g \in Nat /\ g >= 1 /\ d \in Seq(Nat)
  BY Sizes DEF Given
<1>3. Given(d, g)
  BY Sizes
<1>4. PICK f \in Seq(Nat) : f = Fill(g) /\ Len(f) = g
  <2>1. Fill(g) \in Seq(Nat) /\ Len(Fill(g)) = g
    BY <1>2 DEF Fill
  <2> QED  BY <2>1
<1>5. PICK fd \in Seq(Nat) : /\ fd = f \o d /\ Len(fd) = g + n
                             /\ \A k \in (g + 1)..(g + n) : fd[k] = d[k - g]
  <2>1. PICK x \in Seq(Nat) : x = d /\ Len(x) = n
    BY <1>2
  <2>2. f \o x \in Seq(Nat) /\ Len(f \o x) = g + n
    BY <1>4, <2>1, ConcatProperties
  <2>3. \A k \in (g + 1)..(g + n) : (f \o x)[k] = x[k - g]
    BY <1>2, <1>4, <2>1, ConcatProperties
  <2> QED  BY <2>1, <2>2, <2>3
<1>7. PICK mk \in Seq(Nat) : mk = Marker /\ Len(mk) = Guard
  BY MarkerIs
<1>6. PICK m \in Seq(Nat) : m = fd \o mk
  BY ConcatProperties
<1>14. /\ Len(m) = Len(fd) + Len(mk)
       /\ \A k \in 1..(Len(fd) + Len(mk)) : m[k] = IF k <= Len(fd) THEN fd[k] ELSE mk[k - Len(fd)]
  BY <1>6, ConcatProperties
<1>15. PICK l \in Nat, G \in Nat : l = Len(fd) /\ l = g + n /\ G = Guard /\ G = Len(mk)
  BY <1>2, <1>5, <1>7, Numbers
<1>16. \A k \in 1..(l + G) : m[k] = IF k <= l THEN fd[k] ELSE mk[k - l]
  BY <1>14, <1>15
<1>8. /\ Len(m) = g + n + Guard
      /\ \A k \in 1..(g + n) : m[k] = fd[k]
      /\ \A k \in (g + n + 1)..(g + n + Guard) : m[k] = mk[k - (g + n)]
  <2>1. Len(m) = g + n + Guard
    BY <1>14, <1>15
  <2>2. g + n = l /\ g + n + Guard = l + G
    BY <1>15
  <2>3. \A k \in 1..l : m[k] = fd[k]
    <3>1. \A k \in 1..l : k \in 1..(l + G) /\ k <= l
      OBVIOUS
    <3> QED  BY <1>16, <3>1
  <2>4. \A k \in (l + 1)..(l + G) : m[k] = mk[k - l]
    <3>1. \A k \in (l + 1)..(l + G) : k \in 1..(l + G) /\ ~(k <= l)
      OBVIOUS
    <3> QED  BY <1>16, <3>1
  <2> QED  BY <2>1, <2>2, <2>3, <2>4
<1>9. cells = m /\ rd = g + 1 /\ wr = 1 /\ step = "count"
  <2>1. cells = Fill(g) \o d \o Marker
    BY <1>1 DEF RleInit
  <2> QED  BY <1>1, <1>4, <1>5, <1>6, <1>7, <2>1 DEF RleInit
<1>10. Unread(d, g, m, g + 1)
  <2>1. ASSUME NEW k \in (g + 1)..(g + n + Guard) PROVE m[k] = Orig(d, g, k)
    <3>1. CASE k <= g + n
      <4>1. k \in 1..(g + n) /\ k \in (g + 1)..(g + n)
        BY <1>2, <2>1, <3>1, Numbers
      <4>2. m[k] = d[k - g]
        BY <1>5, <1>8, <4>1
      <4> QED  BY <1>2, <3>1, <4>2 DEF Orig
    <3>2. CASE ~(k <= g + n)
      <4>1. k \in (g + n + 1)..(g + n + Guard) /\ k - (g + n) = k - g - n
        BY <1>2, <2>1, <3>2, Numbers
      <4>2. m[k] = Marker[k - g - n]
        BY <1>7, <1>8, <4>1
      <4> QED  BY <1>2, <3>2, <4>2 DEF Orig
    <3> QED  BY <3>1, <3>2
  <2> QED  BY <1>2, <2>1 DEF Unread
<1>11. Coded(m, d, 0, 0, 0)
  BY CodedNothing, Numbers
<1>17. PICK x \in Nat : x = g + 1
  BY <1>2
<1>12. /\ x \in (g + 1)..(g + n + 1) /\ 1 \in 1..(x - 1)
       /\ x - g - 1 = 0 /\ 1 - 1 = 0 /\ 0 <= RunMax * 0
  BY <1>2, <1>17, Numbers
<1>18. Held(d, g, m)
  BY <1>2, <1>8 DEF Held
<1>13. CountOK(d, g, m, g + 1, 1)
  <2>1. Coded(m, d, 1 - 1, x - g - 1, 0) /\ x - g - 1 <= RunMax * (1 - 1)
    BY <1>11, <1>12
  <2>2. x \in (g + 1)..(g + Len(d) + 1)
    BY <1>2, <1>12
  <2>3. CountOK(d, g, m, x, 1)
    BY <1>10, <1>12, <1>17, <1>18, <2>1, <2>2 DEF CountOK
  <2> QED  BY <1>17, <2>3
<1> QED  BY <1>1, <1>9, <1>13 DEF RleInv, RoundTrip, OverflowOnlyWhenTight

LEMMA LeastIs ==
  ASSUME NEW S \in SUBSET Nat, S # {}
  PROVE  Least(S) \in S /\ \A x \in S : Least(S) <= x
<1>1. \E x \in S : \A y \in S : x <= y
  BY LeastNatural
<1> QED  BY <1>1 DEF Least

\* The first byte that ends a run, from the h-th to the t-th.
Zero(m, h, t)  == {k \in h..t : m[k] = 0}
Other(m, h, t) == {k \in h..t : m[k] # 0}

IsFirstOther(x, m, h, e) == h <= x /\ x <= e /\ m[x] # 0 /\ \A k \in h..(x - 1) : m[k] = 0

LEMMA FirstOther ==
  ASSUME NEW m \in Seq(Nat), NEW h \in Nat, NEW t \in Nat, NEW e \in h..t, m[e] # 0
  PROVE  \E x \in Nat : x = Least(Other(m, h, t)) /\ IsFirstOther(x, m, h, e)
<1> DEFINE S == Other(m, h, t)
<1>1. S \in SUBSET Nat /\ e \in S
  BY DEF Other
<1>2. PICK x \in Nat : x = Least(S) /\ x \in S /\ \A y \in S : x <= y
  BY <1>1, LeastIs
<1>3. x \in h..t /\ m[x] # 0
  BY <1>2 DEF Other
<1>4. x <= e
  BY <1>1, <1>2
<1>5. ASSUME NEW k \in h..(x - 1), m[k] # 0 PROVE FALSE
  <2>1. k \in Nat /\ k \in h..t /\ ~(x <= k)
    BY <1>3, <1>5
  <2>2. k \in S
    BY <1>5, <2>1 DEF Other
  <2> HIDE DEF S
  <2> QED  BY <1>2, <2>1, <2>2
<1>6. h <= x /\ m[x] # 0
  BY <1>3
<1> QED  BY <1>2, <1>4, <1>5, <1>6 DEF IsFirstOther

LEMMA FirstZero ==
  ASSUME NEW m \in Seq(Nat), NEW h \in Nat, NEW t \in Nat, NEW e \in h..t, m[e] = 0
  PROVE  \E x \in Nat : x = Least(Zero(m, h, t)) /\ h <= x /\ m[x] = 0
<1> DEFINE S == Zero(m, h, t)
<1>1. S \in SUBSET Nat /\ e \in S
  BY DEF Zero
<1>2. PICK x \in Nat : x = Least(S) /\ x \in S
  BY <1>1, LeastIs
<1>3. h <= x /\ m[x] = 0
  BY <1>2 DEF Zero
<1> QED  BY <1>2, <1>3

LEMMA CountKeeps == RleInv /\ Count => RleInv'
<1> SUFFICES ASSUME RleInv, Count PROVE RleInv'
  OBVIOUS
<1>0. record \in Records /\ gap \in Gaps /\ CountOK(record, gap, cells, rd, wr)
  BY DEF RleInv, Count
<1>1. PICK d \in Seq(Nat), g \in Nat, m \in Seq(Nat), h \in Nat, o \in Nat :
        d = record /\ g = gap /\ m = cells /\ h = rd /\ o = wr
  BY <1>0, Sizes DEF CountOK, Held, Given
<1>2. PICK n \in Nat : n = Len(d) /\ n >= 1 /\ g >= 1
  BY <1>0, <1>1, Sizes DEF Given
<1>3. Given(d, g)
  BY <1>0, <1>1, Sizes
<1>4. CountOK(d, g, m, h, o)
  BY <1>0, <1>1
<1>5. PICK e \in Nat, t \in Nat : 
        /\ e = g + n + 1 /\ t = g + n + Guard /\ t >= e + 1
        /\ Len(m) = t
        /\ h >= g + 1 /\ h < e /\ o >= 1 /\ o < h
  BY <1>1, <1>2, <1>4, Numbers DEF CountOK, Held, Count, PEnd
<1>21. /\ Unread(d, g, m, h)
       /\ (h = g + 1 /\ o = 1) \/ d[h - g] = 0
       /\ h - g - 1 <= RunMax * (o - 1)
       /\ Coded(m, d, o - 1, h - g - 1, 0)
  BY <1>2, <1>4, <1>5 DEF CountOK
<1>6. \A k \in h..t : m[k] = Orig(d, g, k)
  BY <1>2, <1>5, <1>21 DEF Unread
<1>7. m[e] # 0 /\ m[e + 1] = 0 /\ \A k \in h..(e - 1) : m[k] = d[k - g]
  <2>1. e \in h..t /\ e + 1 \in h..t /\ e + 1 = g + n + 2
    BY <1>2, <1>5
  <2>2. \A k \in h..(e - 1) : k \in h..t /\ k \in (g + 1)..(g + n)
    BY <1>2, <1>5
  <2> QED  BY <1>2, <1>3, <1>5, <1>6, <2>1, <2>2, OrigIs
<1>22. e \in h..t
  BY <1>2, <1>5
<1>30. PICK nz \in Nat : nz = Least(Other(m, h, t)) /\ IsFirstOther(nz, m, h, e)
  <2>1. m[e] # 0
    BY <1>7
  <2> QED  BY <1>22, <2>1, FirstOther
<1>23. m[nz] # 0 /\ \A k \in h..(nz - 1) : m[k] = 0
  BY <1>30 DEF IsFirstOther
<1>8. h <= nz /\ nz <= e
  BY <1>30 DEF IsFirstOther
<1>24. e + 1 \in nz..t
  BY <1>2, <1>5, <1>8
<1>25. PICK z \in Nat : z = Least(Zero(m, nz, t)) /\ nz <= z /\ m[z] = 0
  <2>1. m[e + 1] = 0
    BY <1>7
  <2> QED  BY <1>24, <2>1, FirstZero
<1>9. z > nz
  <2>1. z # nz
    BY <1>23, <1>25
  <2>2. nz <= z
    BY <1>25
  <2> QED  BY <2>1, <2>2
<1>26. PEnd = e /\ nz = Least({k \in rd..Len(cells) : cells[k] # 0})
       /\ z = Least({k \in nz..Len(cells) : cells[k] = 0})
  BY <1>1, <1>2, <1>5, <1>30, <1>25 DEF PEnd, Other, Zero
<1>10. step' = "block" /\ record' = d /\ gap' = g /\ cells' = m /\ wr' = o
  BY <1>1 DEF Count
<1>27. IF nz >= e
       THEN zleft' = e - h /\ nleft' = 0 /\ rd' = e
       ELSE /\ zleft' = nz - h /\ runAt' = nz
            /\ rd' = (IF z > e THEN e ELSE z)
            /\ nleft' = rd' - nz
  BY <1>1, <1>26 DEF Count
<1>28. PICK h2 \in Nat, i2 \in Nat, j2 \in Nat :
         /\ h2 = rd' /\ i2 = zleft' /\ j2 = nleft'
         /\ i2 = nz - h /\ j2 = h2 - nz /\ h2 >= nz /\ h2 <= e /\ i2 + j2 >= 1
         /\ h2 = e \/ m[h2] = 0
  <2>1. CASE nz >= e
    <3>1. nz = e /\ e - h \in Nat /\ e - h >= 1 /\ e - e = 0
      BY <1>5, <1>8, <2>1
    <3>2. zleft' = e - h /\ nleft' = 0 /\ rd' = e
      BY <1>27, <2>1
    <3> QED  BY <3>1, <3>2
  <2>2. CASE ~(nz >= e)
    <3>1. PICK x \in Nat : x = (IF z > e THEN e ELSE z)
      OBVIOUS
    <3>2. x > nz /\ x <= e /\ (x = e \/ m[x] = 0)
      <4>1. x = e \/ m[x] = 0
        BY <1>25, <3>1
      <4> QED  BY <1>9, <2>2, <3>1, <4>1
    <3>3. rd' = x /\ zleft' = nz - h /\ nleft' = x - nz /\ runAt' = nz
      BY <1>27, <2>2, <3>1
    <3>4. nz - h \in Nat /\ x - nz \in Nat /\ x - nz >= 1
      BY <1>8, <3>2
    <3>5. nz - h + (x - nz) >= 1 /\ x >= nz
      BY <3>4
    <3> QED  BY <3>2, <3>3, <3>4, <3>5
  <2> QED  BY <2>1, <2>2
<1>29. j2 > 0 => runAt' = nz
  <2>1. CASE nz >= e
    <3>1. nleft' = 0
      BY <1>27, <2>1
    <3>2. j2 = 0
      BY <1>28, <3>1
    <3> QED  BY <3>2
  <2>2. CASE ~(nz >= e)
    BY <1>27, <2>2
  <2> QED  BY <2>1, <2>2
<1>11. /\ h2 - j2 - i2 = h /\ i2 + j2 >= 1 /\ h2 <= e /\ h2 >= h + i2 + j2 /\ h2 - j2 = nz
       /\ i2 = 0 => nz = h
  <2>1. i2 = nz - h /\ j2 = h2 - nz /\ h2 >= nz /\ h2 <= e /\ i2 + j2 >= 1
    BY <1>28
  <2> QED  BY <1>8, <2>1
<1>12. PICK A \in Nat, C \in Nat : A = o - 1 /\ C = h - g - 1 /\ Behind(g, h2, i2, j2) = C
  BY <1>2, <1>5, <1>11 DEF Behind
<1>13. h2 = e \/ d[h2 - g] = 0
  <2>1. CASE h2 # e
    <3>1. h2 \in h..(e - 1) /\ m[h2] = 0
      BY <1>5, <1>8, <1>11, <1>28, <2>1
    <3> QED  BY <1>7, <3>1
  <2> QED  BY <2>1
<1>14. ASSUME NEW k \in 1..i2 PROVE d[C + k] = 0
  <2>1. h + k - 1 \in h..(nz - 1) /\ h + k - 1 \in h..(e - 1) /\ (h + k - 1) - g = C + k
    <3>1. i2 = nz - h /\ nz <= e /\ nz >= h
      BY <1>8, <1>28
    <3> QED  BY <1>2, <1>5, <1>12, <3>1
  <2> QED  BY <1>7, <1>23, <2>1
<1>15. Coded(m, d, A, C, Less(i2))
  <2>1. CASE i2 > 0
    BY <1>12, <1>21, <2>1 DEF Less
  <2>2. CASE i2 = 0
    <3>1. d[h - g] # 0
      <4>1. h \in h..(e - 1) /\ nz = h
        BY <1>5, <1>11, <2>2
      <4> QED  BY <1>7, <1>23, <4>1
    <3>2. A = 0 /\ C = 0
      BY <1>2, <1>5, <1>12, <1>21, <3>1
    <3>3. Less(i2) = RunMax - 1 /\ RunMax - 1 \in Nat /\ RunMax - 1 <= RunMax - 1
      BY <2>2, Numbers DEF Less
    <3> QED  BY <3>2, <3>3, CodedNothing
  <2>3. i2 > 0 \/ i2 = 0
    OBVIOUS
  <2> QED  BY <2>1, <2>2, <2>3
<1>16. LightAt(0, 0, A, C, Less(i2))
  BY <1>15, CodedLight
<1>17. Unread(d, g, m, h2 - j2)
  <2>1. h2 - j2 \in Nat /\ h2 - j2 >= h
    BY <1>5, <1>11
  <2>2. \A k \in (h2 - j2)..t : k \in h..t
    BY <1>5, <2>1
  <2> QED  BY <1>2, <1>5, <1>6, <2>2 DEF Unread
<1>18. i2 > 0 => o + i2 < h2 - j2
  BY <1>5, <1>11
<1>19. h2 \in (g + 1 + i2 + j2)..(g + n + 1)
  BY <1>2, <1>5, <1>11
<1>20. BlockOK(d, g, m, h2, o, runAt', i2, j2)
  <2>1. Held(d, g, m)
    BY <1>4 DEF CountOK
  <2>2. C <= RunMax * (o - 1) /\ o \in Nat \ {0}
    BY <1>5, <1>12, <1>21
  <2>3. j2 > 0 => runAt' = h2 - j2
    BY <1>11, <1>29
  <2>4. h2 = g + Len(d) + 1 \/ d[h2 - g] = 0
    BY <1>2, <1>5, <1>13
  <2>5. i2 + j2 >= 1
    BY <1>11
  <2> QED  BY <1>2, <1>12, <1>14, <1>15, <1>16, <1>17, <1>18, <1>19,
              <2>1, <2>2, <2>3, <2>4, <2>5 DEF BlockOK
<1> QED  BY <1>0, <1>1, <1>10, <1>28, <1>20 DEF RleInv, RoundTrip, OverflowOnlyWhenTight

\* The state before a block is written.
LEMMA BlockState ==
  ASSUME RleInv, step = "block"
  PROVE  \E d \in Seq(Nat), m \in Seq(Nat), g, h, o, i, j \in Nat :
           /\ d = record /\ g = gap /\ m = cells /\ h = rd /\ o = wr /\ i = zleft /\ j = nleft
           /\ Given(d, g) /\ BlockOK(d, g, m, h, o, runAt, i, j)
           /\ o >= 1 /\ i + j >= 1 /\ h >= g + 1 + i + j /\ h <= g + Len(d) + 1
           /\ Len(m) = g + Len(d) + Guard
<1>1. record \in Records /\ gap \in Gaps
  BY DEF RleInv
<1>2. BlockOK(record, gap, cells, rd, wr, runAt, zleft, nleft)
  BY DEF RleInv
<1>3. PICK d \in Seq(Nat), g \in Nat : d = record /\ g = gap /\ Given(d, g)
  BY <1>1, Sizes DEF Given
<1>4. PICK n \in Nat : n = Len(d)
  OBVIOUS
<1>5. PICK m \in Seq(Nat), i \in Nat, j \in Nat, o \in Nat : 
        m = cells /\ i = zleft /\ j = nleft /\ o = wr
  BY <1>2 DEF BlockOK, Held
<1>6. BlockOK(d, g, m, rd, o, runAt, i, j)
  BY <1>2, <1>3, <1>5
<1>7. rd \in (g + 1 + i + j)..(g + n + 1) /\ o # 0 /\ i + j >= 1
  BY <1>4, <1>6 DEF BlockOK
<1>8. PICK h \in Nat : h = rd /\ h >= g + 1 + i + j /\ h <= g + n + 1
  BY <1>7
<1>9. Len(m) = g + n + Guard
  BY <1>4, <1>6 DEF BlockOK, Held
<1>10. o >= 1
  BY <1>7
<1> QED  BY <1>3, <1>4, <1>5, <1>6, <1>7, <1>8, <1>9, <1>10

LEMMA EmitsNext ==
  ASSUME NEW d \in Seq(Nat), NEW m \in Seq(Nat), NEW m2, NEW g \in Nat, NEW h \in Nat, NEW o \in Nat,
         NEW i \in Nat, NEW j \in Nat, NEW s, NEW z \in 0..RunMax, NEW w \in 0..RunMax,
         NEW less \in Nat, NEW i2 \in Nat, NEW j2 \in Nat, NEW o2 \in Nat,
         Given(d, g), BlockOK(d, g, m, h, o, s, i, j), Written(m, m2, o, s, z, w),
         i = i2 + z, j = j2 + w, w > 0 => i2 = 0, o2 = o + 1 + w,
         RunMax + less <= (RunMax + 1) * z + Less(i) + w, less <= Slack(o + w)
  PROVE  Emits(d, g, m2, h, o2, i2, j2, less, o < h - j)
<1>1. z \in Nat /\ w \in Nat
  BY Numbers
<1>2. z <= i /\ w <= j /\ i - z = i2 /\ j - w = j2 /\ o2 = o + w + 1
  BY <1>1
<1>3. w > 0 => z = i
  BY <1>1
<1>4. Emits(d, g, m2, h, o + w + 1, i - z, j - w, less, o < h - j)
  BY <1>2, <1>3, Emitted
<1> QED  BY <1>2, <1>4

\* What PutBlock writes.
LEMMA PutBlockWritten ==
  ASSUME NEW m \in Seq(Nat), NEW h \in Nat, NEW o \in Nat, o >= 1, NEW j \in Nat, NEW g \in Nat,
         NEW z \in 0..RunMax, NEW w \in 0..RunMax, w <= j,
         m = cells, o = wr, j > 0 => runAt = h - j, h >= g + 1 + j, h <= Len(m)
  PROVE  Written(m, PutBlock(z, w), o, runAt, z, w)
<1>1. o \in Nat \ {0}
  OBVIOUS
<1>2. w > 0 => runAt \in 1..(Len(m) - w + 1)
  <2>1. PICK l \in Nat : l = Len(m)
    OBVIOUS
  <2>2. SUFFICES ASSUME w > 0 PROVE runAt \in 1..(l - w + 1)
    BY <2>1
  <2>3. PICK v \in Nat : v = w
    BY Numbers
  <2>4. PICK s \in Nat : s = h - j /\ s >= 1 /\ s <= l - v + 1
    BY <2>1, <2>2, <2>3
  <2>5. runAt = s
    BY <2>2, <2>3, <2>4
  <2> QED  BY <2>3, <2>4, <2>5
<1> DEFINE m1 == Put(m, o, <<Prefix(z, w)>>)
<1>3. Written(m, Put(m1, o + 1, [k \in 1..w |-> m1[runAt + k - 1]]), o, runAt, z, w)
  BY <1>1, <1>2, BlockWritten
<1> QED  BY <1>3 DEF PutBlock

LEMMA EmitZerosKeeps == RleInv /\ EmitZeros => RleInv'
<1> SUFFICES ASSUME RleInv, EmitZeros PROVE RleInv'
  OBVIOUS
<1>1. PICK d \in Seq(Nat), m \in Seq(Nat), g \in Nat, h \in Nat, o \in Nat, i \in Nat, j \in Nat :
        /\ d = record /\ g = gap /\ m = cells /\ h = rd /\ o = wr /\ i = zleft /\ j = nleft
        /\ Given(d, g) /\ BlockOK(d, g, m, h, o, runAt, i, j)
        /\ o >= 1 /\ i + j >= 1 /\ h >= g + 1 + i + j /\ h <= g + Len(d) + 1
        /\ Len(m) = g + Len(d) + Guard
  BY BlockState DEF EmitZeros
<1>2. PICK m2 : m2 = Put(m, o, <<Prefix(RunMax, 0)>>)
  OBVIOUS
<1>3. PICK M \in Nat : M = RunMax /\ M >= 2 /\ i > M
  BY <1>1, Numbers DEF EmitZeros
<1>4. PICK i2 \in Nat, o2 \in Nat : i2 = i - M /\ i2 >= 1 /\ o2 = o + 1 /\ i = i2 + M /\ o2 = o + 1 + 0
                                    /\ o2 - 1 = o
  BY <1>3
<1>5. /\ step' = "block" /\ record' = d /\ gap' = g /\ cells' = m2 /\ rd' = h /\ wr' = o2
      /\ runAt' = runAt /\ zleft' = i2 /\ nleft' = j
  BY <1>1, <1>2, <1>3, <1>4 DEF EmitZeros
<1>6. M \in 0..RunMax /\ 0 \in 0..RunMax /\ o \in Nat \ {0}
  BY <1>1, <1>3
<1>7. Written(m, m2, o, runAt, M, 0)
  BY <1>2, <1>3, <1>6, PrefixWritten
<1>8. 0 <= Slack(o + 0)
  BY <1>3 DEF Slack
<1>9. RunMax + 0 <= (RunMax + 1) * M + Less(i) + 0
  <2>1. (M + 1) * M = M * M + M
    BY <1>3
  <2>2. M * M \in Nat
    BY <1>3
  <2>3. Less(i) = 0
    BY <1>3 DEF Less
  <2> QED  BY <1>3, <2>1, <2>2, <2>3
<1>10. Emits(d, g, m2, h, o2, i2, j, 0, o < h - j)
  <2>1. 0 \in Nat /\ j = j + 0 /\ (0 > 0 => i2 = 0) /\ Given(d, g) /\ BlockOK(d, g, m, h, o, runAt, i, j)
    BY <1>1
  <2> QED  BY <1>4, <1>6, <1>7, <1>8, <1>9, <2>1, EmitsNext
<1>12. Less(i2) = 0
  BY <1>4 DEF Less
<1>13. i > 0 => o + i < h - j
  BY <1>1 DEF BlockOK
<1>14. o2 + i2 < h - j /\ o < h - j
  BY <1>3, <1>4, <1>13
<1>15. BlockOK(d, g, m2, h, o2, runAt, i2, j)
  <2>1. i2 + j >= 1 /\ h \in (g + 1 + i2 + j)..(g + Len(d) + 1) /\ o2 \in Nat \ {0}
    BY <1>1, <1>3, <1>4
  <2>2. (j > 0 => runAt = h - j) /\ (h = g + Len(d) + 1 \/ d[h - g] = 0)
    BY <1>1 DEF BlockOK
  <2> QED  BY <1>10, <1>12, <1>14, <2>1, <2>2 DEF BlockOK, Emits
<1>16. record' \in Records /\ gap' \in Gaps
  BY <1>1, <1>5 DEF RleInv
<1> QED  BY <1>5, <1>15, <1>16 DEF RleInv, RoundTrip, OverflowOnlyWhenTight

LEMMA EmitRunKeeps == RleInv /\ EmitRun => RleInv'
<1> SUFFICES ASSUME RleInv, EmitRun PROVE RleInv'
  OBVIOUS
<1>1. PICK d \in Seq(Nat), m \in Seq(Nat), g \in Nat, h \in Nat, o \in Nat, i \in Nat, j \in Nat :
        /\ d = record /\ g = gap /\ m = cells /\ h = rd /\ o = wr /\ i = zleft /\ j = nleft
        /\ Given(d, g) /\ BlockOK(d, g, m, h, o, runAt, i, j)
        /\ o >= 1 /\ i + j >= 1 /\ h >= g + 1 + i + j /\ h <= g + Len(d) + 1
        /\ Len(m) = g + Len(d) + Guard
  BY BlockState DEF EmitRun
<1>2. PICK m2 : m2 = PutBlock(i, RunMax)
  OBVIOUS
<1>3. PICK M \in Nat : M = RunMax /\ M >= 2 /\ i <= M /\ j > M
  BY <1>1, Numbers DEF EmitRun
<1>4. PICK j2 \in Nat, o2 \in Nat, less \in Nat :
        /\ j2 = j - M /\ j2 >= 1 /\ j = j2 + M /\ o2 = o + 1 + M /\ less = M - 1
        /\ i = 0 + i /\ (M > 0 => 0 = 0)
  BY <1>3
<1>17. j > 0 => runAt = h - j
  BY <1>1 DEF BlockOK
<1>18. PICK s \in Nat : s = h - j /\ s = runAt
  BY <1>1, <1>3, <1>17
<1>5. /\ step' = "block" /\ record' = d /\ gap' = g /\ cells' = m2 /\ rd' = h /\ wr' = o2
      /\ runAt' = s + M /\ zleft' = 0 /\ nleft' = j2
  BY <1>1, <1>2, <1>3, <1>4, <1>18 DEF EmitRun
<1>6. M \in 0..RunMax /\ i \in 0..RunMax /\ M <= j
  BY <1>1, <1>3
<1>7. Written(m, m2, o, runAt, i, M)
  <2>1. PutBlock(i, M) = m2
    BY <1>2, <1>3
  <2>4. PICK l \in Nat : l = Len(d)
    OBVIOUS
  <2>2. l = Len(d) /\ h <= g + l + 1 /\ Len(m) = g + l + Guard
    BY <1>1, <2>4
  <2>5. h <= Len(m)
    <3>1. g + l + 1 <= g + l + Guard
      BY Numbers
    <3> QED  BY <2>2, <3>1, Numbers
  <2>3. h >= g + 1 + j /\ h <= Len(m) /\ m = cells /\ o = wr /\ o >= 1
    BY <1>1, <2>5
  <2> QED  BY <1>6, <1>17, <2>1, <2>3, PutBlockWritten
<1>8. less <= Slack(o + M)
  <2>1. ~(o + M \in 1..M)
    BY <1>1
  <2> QED  BY <1>3, <1>4, <2>1 DEF Slack
<1>9. RunMax + less <= (RunMax + 1) * i + Less(i) + M
  <2>1. CASE i = 0
    <3>1. Less(i) = M - 1 /\ (M + 1) * i = 0
      BY <1>3, <2>1 DEF Less
    <3> QED  BY <1>3, <1>4, <3>1
  <2>2. CASE i # 0
    <3>1. Less(i) = 0
      BY <2>2 DEF Less
    <3>2. (M + 1) * i >= M + 1
      <4>1. i >= 1
        BY <2>2
      <4>2. (M + 1) * i >= (M + 1) * 1
        BY <1>3, <4>1
      <4> QED  BY <1>3, <4>2
    <3>3. PICK u \in Nat : u = (M + 1) * i
      BY <1>3
    <3> QED  BY <1>3, <1>4, <3>1, <3>2, <3>3
  <2> QED  BY <2>1, <2>2
<1>10. Emits(d, g, m2, h, o2, 0, j2, less, o < h - j)
  <2>1. 0 \in Nat /\ Given(d, g) /\ BlockOK(d, g, m, h, o, runAt, i, j)
    BY <1>1
  <2> QED  BY <1>4, <1>6, <1>7, <1>8, <1>9, <2>1, EmitsNext
<1>12. Less(0) = less
  BY <1>3, <1>4 DEF Less
<1>14. o2 < h - j2 => o < h - j
  BY <1>3, <1>4
<1>15. BlockOK(d, g, m2, h, o2, s + M, 0, j2)
  <2>1. 0 + j2 >= 1 /\ h \in (g + 1 + 0 + j2)..(g + Len(d) + 1) /\ o2 \in Nat \ {0}
    BY <1>1, <1>3, <1>4
  <2>2. h = g + Len(d) + 1 \/ d[h - g] = 0
    BY <1>1 DEF BlockOK
  <2>3. s + M = h - j2
    BY <1>4, <1>18
  <2> QED  BY <1>10, <1>12, <1>14, <2>1, <2>2, <2>3 DEF BlockOK, Emits
<1>16. record' \in Records /\ gap' \in Gaps
  BY <1>1, <1>5 DEF RleInv
<1> QED  BY <1>5, <1>15, <1>16 DEF RleInv, RoundTrip, OverflowOnlyWhenTight

LEMMA EmitLastKeeps == RleInv /\ EmitLast => RleInv'
<1> SUFFICES ASSUME RleInv, EmitLast PROVE RleInv'
  OBVIOUS
<1>1. PICK d \in Seq(Nat), m \in Seq(Nat), g \in Nat, h \in Nat, o \in Nat, i \in Nat, j \in Nat :
        /\ d = record /\ g = gap /\ m = cells /\ h = rd /\ o = wr /\ i = zleft /\ j = nleft
        /\ Given(d, g) /\ BlockOK(d, g, m, h, o, runAt, i, j)
        /\ o >= 1 /\ i + j >= 1 /\ h >= g + 1 + i + j /\ h <= g + Len(d) + 1
        /\ Len(m) = g + Len(d) + Guard
  BY BlockState DEF EmitLast
<1>2. PICK m2 : m2 = PutBlock(i, j)
  OBVIOUS
<1>3. PICK M \in Nat : M = RunMax /\ M >= 2 /\ i <= M /\ j <= M
  BY <1>1, Numbers DEF EmitLast
<1>18. PICK l \in Nat : l = Len(d)
  OBVIOUS
<1>19. PICK o2 \in Nat : o2 = o + 1 + j
  OBVIOUS
<1>4. o2 = o + 1 + j /\ l = Len(d) /\ i = 0 + i /\ j = 0 + j
  BY <1>18, <1>19
<1>17. j > 0 => runAt = h - j
  BY <1>1 DEF BlockOK
<1>5. /\ step' = IF o2 >= h THEN "overflow" ELSE "count"
      /\ record' = d /\ gap' = g /\ cells' = m2 /\ rd' = h /\ wr' = o2
  BY <1>1, <1>2, <1>4 DEF EmitLast
<1>6. j \in 0..RunMax /\ i \in 0..RunMax /\ j <= j
  BY <1>1, <1>3
<1>7. Written(m, m2, o, runAt, i, j)
  <2>2. h <= g + l + 1 /\ Len(m) = g + l + Guard
    BY <1>1, <1>4
  <2>5. h <= Len(m)
    <3>1. g + l + 1 <= g + l + Guard
      BY Numbers
    <3> QED  BY <2>2, <3>1, Numbers
  <2>3. h >= g + 1 + j /\ h <= Len(m) /\ m = cells /\ o = wr /\ o >= 1
    BY <1>1, <2>5
  <2> QED  BY <1>2, <1>6, <1>17, <2>3, PutBlockWritten
<1>8. 0 <= Slack(o + j)
  BY <1>3 DEF Slack
<1>9. RunMax + 0 <= (RunMax + 1) * i + Less(i) + j
  <2>1. CASE i = 0
    <3>1. Less(i) = M - 1 /\ (M + 1) * i = 0 /\ j >= 1
      BY <1>1, <1>3, <2>1 DEF Less
    <3> QED  BY <1>3, <3>1
  <2>2. CASE i # 0
    <3>1. Less(i) = 0
      BY <2>2 DEF Less
    <3>2. (M + 1) * i >= M + 1
      <4>1. i >= 1
        BY <2>2
      <4>2. (M + 1) * i >= (M + 1) * 1
        BY <1>3, <4>1
      <4> QED  BY <1>3, <4>2
    <3>3. PICK u \in Nat : u = (M + 1) * i
      BY <1>3
    <3> QED  BY <1>3, <3>1, <3>2, <3>3
  <2> QED  BY <2>1, <2>2
<1>10. Emits(d, g, m2, h, o2, 0, 0, 0, o < h - j)
  <2>1. 0 \in Nat /\ Given(d, g) /\ BlockOK(d, g, m, h, o, runAt, i, j)
    BY <1>1
  <2> QED  BY <1>4, <1>6, <1>7, <1>8, <1>9, <2>1, EmitsNext
<1>11. PICK C \in Nat : C = Behind(g, h, 0, 0) /\ C = h - g - 1
  BY <1>1 DEF Behind
<1>16. record' \in Records /\ gap' \in Gaps
  BY <1>1, <1>5 DEF RleInv
<1>12. CASE o2 < h
  <2>1. step' = "count"
    BY <1>5, <1>12
  <2>2. o < h - j
    BY <1>4, <1>12
  <2>3. CountOK(d, g, m2, h, o2)
    <3>1. Held(d, g, m2) /\ C <= RunMax * (o2 - 1) /\ Coded(m2, d, o2 - 1, C, 0) /\ Unread(d, g, m2, h - 0)
      BY <1>10, <1>11, <2>2 DEF Emits
    <3>2. h - 0 = h /\ h \in (g + 1)..(g + Len(d) + 1) /\ o2 \in 1..(h - 1)
      BY <1>1, <1>4, <1>12
    <3>3. h = g + Len(d) + 1 \/ d[h - g] = 0
      BY <1>1 DEF BlockOK
    <3> QED  BY <1>11, <3>1, <3>2, <3>3 DEF CountOK
  <2> QED  BY <1>5, <1>16, <2>1, <2>3 DEF RleInv, RoundTrip, OverflowOnlyWhenTight
<1>13. CASE ~(o2 < h)
  <2>1. step' = "overflow"
    BY <1>5, <1>13
  <2>2. PICK A \in Nat : A = o2 - 1 /\ A >= C + g
    BY <1>4, <1>11, <1>13
  <2>3. LightAt(0, 0, A, C, 0) /\ C <= l
    BY <1>4, <1>10, <1>11, <2>2 DEF Emits
  <2>4. g <= l \div RunMax + 1
    BY <2>2, <2>3, OverflowGap
  <2> QED  BY <1>4, <1>5, <1>16, <2>1, <2>4 DEF RleInv, RoundTrip, OverflowOnlyWhenTight
<1> QED  BY <1>12, <1>13

LEMMA ChecksumKeeps == RleInv /\ Checksum => RleInv'
<1> SUFFICES ASSUME RleInv, Checksum PROVE RleInv'
  OBVIOUS
<1>0. record \in Records /\ gap \in Gaps /\ CountOK(record, gap, cells, rd, wr)
  BY DEF RleInv, Checksum
<1>1. PICK d \in Seq(Nat), g \in Nat, m \in Seq(Nat), o \in Nat :
        d = record /\ g = gap /\ m = cells /\ o = wr
  BY <1>0, Sizes DEF CountOK, Held, Given
<1>2. PICK n \in Nat : n = Len(d) /\ n >= 1 /\ g >= 1
  BY <1>0, <1>1, Sizes DEF Given
<1>3. CountOK(d, g, m, rd, o)
  BY <1>0, <1>1
<1>4. rd = g + n + 1 /\ o >= 1 /\ o <= g + n
  <2>1. rd \in (g + 1)..(g + n + 1) /\ o \in 1..(rd - 1)
    BY <1>2, <1>3 DEF CountOK
  <2>2. rd >= g + n + 1
    BY <1>1, <1>2 DEF Checksum, PEnd
  <2> QED  BY <1>2, <2>1, <2>2
<1>5. /\ Held(d, g, m) /\ n <= RunMax * (o - 1) /\ Coded(m, d, o - 1, n, 0)
  <2>1. rd - g - 1 = n
    BY <1>2, <1>4
  <2> QED  BY <1>3, <2>1 DEF CountOK
<1>6. PICK G \in Nat : G = Guard /\ G >= 2
  BY Numbers
<1>7. PICK A \in Nat, c \in Nat : A = o - 1 /\ c = o - 1 + G /\ c - G = A
  BY <1>4
<1>8. PICK bs \in Seq(Nat) : bs = [k \in 1..Guard |-> Crc] /\ Len(bs) = G
  <2>1. Crc \in Nat
    <3>1. RunMax * (RunMax + 1) \in Nat
      BY Numbers
    <3> QED  BY <3>1, Numbers DEF Crc, Mark
  <2>2. PICK x \in Nat : x = Crc
    BY <2>1
  <2>3. [k \in 1..G |-> x] \in Seq(Nat) /\ Len([k \in 1..G |-> x]) = G
    OBVIOUS
  <2> QED  BY <1>6, <2>2, <2>3
<1>9. PutTo(m, Put(m, o, bs), o, bs)
  BY PutIs
<1>10. PICK m2 \in Seq(Nat) : m2 = Put(m, o, bs) /\ PutTo(m, m2, o, bs)
  BY <1>9 DEF PutTo
<1>11. step' = "stored" /\ record' = d /\ gap' = g /\ cells' = m2 /\ comp' = c
  BY <1>1, <1>6, <1>7, <1>8, <1>10 DEF Checksum
<1>12. Len(m2) = g + n + G /\ Len(m) = g + n + G
  BY <1>2, <1>5, <1>6, <1>10 DEF Held, PutTo
<1>13. SameBytes(m2, 0, m, 0, 0, A)
  <2>1. ASSUME NEW k \in 1..A PROVE m2[k] = m[k]
    <3>1. k \in 1..Len(m) /\ ~(k \in o..(o + Len(bs) - 1))
      BY <1>4, <1>7, <1>8, <1>12
    <3> QED  BY <1>10, <3>1 DEF PutTo
  <2>2. \A k \in (0 + 1)..A : k \in 1..A /\ 0 + k = k
    OBVIOUS
  <2> QED  BY <2>1, <2>2 DEF SameBytes
<1>14. Coded(m2, d, A, n, 0)
  <2>1. Coded(m, d, A, n, 0) /\ 0 \in Nat
    BY <1>5, <1>7
  <2> QED  BY <1>13, <2>1, CodedCopied
<1>15. StoredOK(d, m2, c)
  <2>1. c \in Guard..Len(m2)
    BY <1>2, <1>4, <1>6, <1>7, <1>12
  <2>2. c - Guard = A /\ n <= RunMax * A
    BY <1>5, <1>6, <1>7
  <2> QED  BY <1>2, <1>14, <2>1, <2>2 DEF StoredOK
<1>16. record' \in Records /\ gap' \in Gaps
  BY <1>0, <1>1, <1>11
<1> QED  BY <1>11, <1>15, <1>16 DEF RleInv, RoundTrip, OverflowOnlyWhenTight

LEMMA ReadBackKeeps == RleInv /\ ReadBack => RleInv'
<1> SUFFICES ASSUME RleInv, ReadBack PROVE RleInv'
  OBVIOUS
<1>0. record \in Records /\ gap \in Gaps /\ StoredOK(record, cells, comp)
  BY DEF RleInv, ReadBack
<1>1. PICK d \in Seq(Nat), m \in Seq(Nat) : d = record /\ m = cells
  BY <1>0, Sizes DEF StoredOK, Given
<1>2. PICK n \in Nat : n = Len(d)
  OBVIOUS
<1>3. StoredOK(d, m, comp)
  BY <1>0, <1>1
<1>4. PICK G \in Nat : G = Guard /\ G >= 2
  BY Numbers
<1>25. PICK l \in Nat : l = Len(m)
  OBVIOUS
<1>5. comp \in G..l
  BY <1>3, <1>4, <1>25 DEF StoredOK
<1>6. PICK c \in Nat, A \in Nat : c = comp /\ c >= G /\ c <= l /\ A = c - G /\ A + G = c
  BY <1>5
<1>7. n <= RunMax * A /\ Coded(m, d, A, n, 0)
  BY <1>2, <1>3, <1>4, <1>6 DEF StoredOK
<1>8. /\ ReadBufferSize(A + Guard, n) \in Nat
      /\ RoundUp(A + 2 * Guard) \in Nat /\ RoundUp(A + 2 * Guard) >= A + 2 * Guard
      /\ \A a, b \in Nat : /\ a <= A /\ b <= n /\ b <= RunMax * a
                           /\ LightAt(a, b, A, n, 0)
            => b + RoundUp(A + 2 * Guard) <= ReadBufferSize(A + Guard, n) + a
  BY Room
<1>9. PICK S \in Nat, U \in Nat :
        /\ S = ReadBufferSize(c, n) /\ U = RoundUp(c + G) /\ U >= c + G
        /\ \A a, b \in Nat : /\ a <= A /\ b <= n /\ b <= RunMax * a
                             /\ LightAt(a, b, A, n, 0)
              => b + U <= S + a
  <2>1. A + Guard = c
    BY <1>4, <1>6
  <2>2. A + 2 * Guard = c + G
    BY <1>4, <1>6
  <2> QED  BY <1>8, <2>1, <2>2
<1>19. PICK R \in SUBSET (Nat \X Nat) :
        <<0, 0>> \in R /\ Cuts(R, d, m, 0, A, n) /\ Light(R, A, n, 0)
  BY <1>7 DEF Coded
<1>27. U <= S
  <2>1. 0 \in Nat /\ 0 <= A /\ 0 <= n /\ 0 <= RunMax * 0 /\ LightAt(0, 0, A, n, 0)
    BY <1>19, Numbers DEF Light
  <2>2. 0 + U <= S + 0
    BY <1>9, <2>1
  <2> QED  BY <2>2
<1>10. PICK top \in Nat : top = S - U
  BY <1>27
<1>11. \A a, b \in Nat : /\ a <= A /\ b <= n /\ b <= RunMax * a
                         /\ LightAt(a, b, A, n, 0)
            => b <= top + a
  <2>1. SUFFICES ASSUME NEW a \in Nat, NEW b \in Nat, 
                        a <= A /\ b <= n /\ b <= RunMax * a /\ LightAt(a, b, A, n, 0)
                 PROVE b <= top + a
    OBVIOUS
  <2>2. b + U <= S + a
    BY <1>9, <2>1
  <2> QED  BY <1>10, <2>2
<1>12. PICK f \in Seq(Nat) : f = Fill(top) /\ Len(f) = top
  <2>1. Fill(top) \in Seq(Nat) /\ Len(Fill(top)) = top
    BY DEF Fill
  <2> QED  BY <2>1
<1>13. PICK sb \in Seq(Nat) : sb = SubSeq(m, 1, c) /\ Len(sb) = c /\ \A k \in 1..c : sb[k] = m[k]
  <2>4. c <= l
    BY <1>6
  <2>1. SubSeq(m, 1, c) = [k \in 1..c |-> m[k]]
    BY <1>25, <2>4
  <2>2. \A k \in 1..c : m[k] \in Nat
    <3>1. \A k \in 1..c : k \in 1..l
      BY <2>4
    <3> QED  BY <1>25, <3>1
  <2>3. [k \in 1..c |-> m[k]] \in Seq(Nat) /\ Len([k \in 1..c |-> m[k]]) = c
    BY <2>2
  <2> QED  BY <2>1, <2>3
<1>26. PICK fs \in Seq(Nat) : fs = f \o sb
  BY ConcatProperties
<1>14. /\ Len(fs) = top + c
       /\ \A k \in (top + 1)..(top + c) : fs[k] = sb[k - top]
  <2>1. /\ Len(f \o sb) = Len(f) + Len(sb)
        /\ \A k \in (Len(f) + 1)..(Len(f) + Len(sb)) : (f \o sb)[k] = sb[k - Len(f)]
    BY ConcatProperties
  <2>2. Len(f) = top /\ Len(sb) = c
    BY <1>12, <1>13
  <2> QED  BY <1>26, <2>1, <2>2
<1>15. PICK mk \in Seq(Nat) : mk = Marker /\ Len(mk) = G
  BY <1>4, MarkerIs
<1>16. PICK m2 \in Seq(Nat) : /\ m2 = fs \o mk /\ Len(m2) = top + c + G
                              /\ \A k \in 1..(top + c) : m2[k] = fs[k]
  <2>1. /\ fs \o mk \in Seq(Nat) /\ Len(fs \o mk) = Len(fs) + Len(mk)
        /\ \A k \in 1..Len(fs) : (fs \o mk)[k] = fs[k]
    BY ConcatProperties
  <2> QED  BY <1>14, <1>15, <2>1
<1>17. step' = "expand" /\ record' = d /\ gap' = gap /\ cells' = m2 /\ rd' = top + 1 /\ wr' = 1 /\ comp' = c
  <2>1. /\ cells' = Fill(top) \o SubSeq(m, 1, c) \o Marker
        /\ rd' = top + 1
    BY <1>1, <1>2, <1>4, <1>6, <1>9, <1>10 DEF ReadBack
  <2> QED  BY <1>1, <1>6, <1>12, <1>13, <1>26, <1>15, <1>16, <2>1 DEF ReadBack
<1>18. SameBytes(m2, top, m, 0, 0, A)
  <2>1. ASSUME NEW k \in 1..A PROVE m2[top + k] = m[0 + k]
    <3>1. /\ k \in 1..c /\ top + k \in 1..(top + c) /\ top + k \in (top + 1)..(top + c)
          /\ (top + k) - top = k /\ 0 + k = k
      BY <1>6
    <3> QED  BY <1>13, <1>14, <1>16, <3>1
  <2>2. \A k \in (0 + 1)..A : k \in 1..A
    OBVIOUS
  <2> QED  BY <2>1, <2>2 DEF SameBytes
<1>20. PICK R2 \in SUBSET R : /\ Cuts(R2, d, m2, top, A, n)
                              /\ \A x \in Nat : <<0, x>> \in R => <<0, x>> \in R2
  <2>1. 0 \in Nat /\ 0 <= A
    OBVIOUS
  <2>2. Cuts(R, d, m, 0, A, n)
    BY <1>19
  <2>3. Rest(R, d, m2, top, A, n, 0)
    BY <1>18, <2>1, <2>2, RestOfCuts
  <2> QED  BY <2>3 DEF Rest
<1>21. <<0, 0>> \in R2 /\ R2 \in SUBSET (Nat \X Nat)
  BY <1>19, <1>20
<1>22. \A x, y \in Nat : <<x, y>> \in R2 => y <= top + x
  <2>1. SUFFICES ASSUME NEW x \in Nat, NEW y \in Nat, <<x, y>> \in R PROVE y <= top + x
    BY <1>20
  <2>2. x <= A /\ y <= n /\ y <= RunMax * x
    BY <1>19, <2>1 DEF Cuts
  <2>3. LightAt(x, y, A, n, 0)
    BY <1>19, <2>1 DEF Light
  <2> QED  BY <1>11, <2>2, <2>3
<1>23. ExpandOK(d, m2, top + 1, 1, c)
  <2>1. /\ Len(m2) = top + c + Guard /\ top + 1 = top + 0 + 1 /\ 1 = 0 + 1 /\ 0 \in Nat
        /\ \A k \in 1..0 : m2[k] = d[k]
    BY <1>4, <1>16
  <2>2. c - Guard = A /\ c >= Guard
    BY <1>4, <1>6
  <2> QED  BY <1>2, <1>20, <1>21, <1>22, <2>1, <2>2 DEF ExpandOK
<1>24. record' \in Records /\ gap' \in Gaps
  BY <1>0, <1>1, <1>17
<1> QED  BY <1>17, <1>23, <1>24 DEF RleInv, RoundTrip, OverflowOnlyWhenTight

\* A block of z zero bytes and the w others that follow the r-th byte is to be
\* expanded after b bytes of the record, is expanded, and what it has become.
Expands(d, m, b, r, z, w) ==
    /\ b + z <= r /\ r + w <= Len(m)
    /\ \A k \in 1..b : m[k] = d[k]
    /\ \A k \in 1..z : d[b + k] = 0
    /\ \A k \in 1..w : m[r + k] = d[b + z + k]
Expansion(m, b, r, z, w) ==
    LET m1 == Put(m, b + 1, Fill(z))
    IN  Put(m1, b + 1 + z, [k \in 1..w |-> m1[r + k]])
Expanded(d, m, m2, b, z, w) ==
    /\ m2 \in Seq(Nat) /\ Len(m2) = Len(m)
    /\ \A k \in 1..(b + z + w) : m2[k] = d[k]
    /\ \A k \in (b + z + w + 1)..Len(m) : m2[k] = m[k]

LEMMA BlockExpanded ==
  ASSUME NEW d \in Seq(Nat), NEW m \in Seq(Nat), NEW b \in Nat, NEW r \in Nat,
         NEW z \in 0..RunMax, NEW w \in 0..RunMax, Expands(d, m, b, r, z, w)
  PROVE  Expanded(d, m, Expansion(m, b, r, z, w), b, z, w)
<1>1. z \in Nat /\ w \in Nat /\ b + 1 \in Nat /\ b + 1 + z \in Nat
  BY Numbers
<1>2. PICK n \in Nat : n = Len(m)
  OBVIOUS
<1>15. b + z <= r /\ r + w <= n
  BY <1>2 DEF Expands
<1>16. /\ \A k \in 1..b : m[k] = d[k]
       /\ \A k \in 1..z : d[b + k] = 0
       /\ \A k \in 1..w : m[r + k] = d[b + z + k]
  BY DEF Expands
<1> DEFINE f  == Fill(z)
           m1 == Put(m, b + 1, f)
           bs == [k \in 1..w |-> m1[r + k]]
           m2 == Put(m1, b + 1 + z, bs)
<1>3. f \in Seq(Nat) /\ Len(f) = z /\ \A k \in 1..z : f[k] = 0
  BY <1>1 DEF Fill
<1>10. m1 = Put(m, b + 1, f) /\ m2 = Put(m1, b + 1 + z, bs)
  OBVIOUS
<1>13. m2 = Expansion(m, b, r, z, w)
  BY DEF Expansion
<1> HIDE DEF f, m1, m2
<1>4. /\ m1 \in Seq(Nat) /\ Len(m1) = n
      /\ \A k \in 1..n : m1[k] = IF k \in (b + 1)..(b + 1 + z - 1) THEN f[k - (b + 1) + 1] ELSE m[k]
  <2>1. PutTo(m, m1, b + 1, f)
    BY <1>1, <1>3, <1>10, PutIs
  <2> QED  BY <1>2, <1>3, <2>1 DEF PutTo
<1>5. ASSUME NEW k \in 1..w PROVE m1[r + k] \in Nat /\ m1[r + k] = d[b + z + k]
  <2>1. r + k \in 1..n /\ ~(r + k \in (b + 1)..(b + 1 + z - 1))
    BY <1>1, <1>15
  <2>2. m1[r + k] = m[r + k] /\ m1[r + k] \in Nat
    BY <1>4, <2>1
  <2> QED  BY <1>16, <2>2
<1>11. \A k \in 1..w : m1[r + k] \in Nat
  BY <1>5
<1>12. bs \in Seq(Nat) /\ Len(bs) = w /\ \A k \in 1..w : bs[k] = m1[r + k]
  BY <1>1, <1>11
<1> HIDE DEF bs
<1>6. bs \in Seq(Nat) /\ Len(bs) = w /\ \A k \in 1..w : bs[k] = d[b + z + k]
  BY <1>5, <1>12
<1>7. /\ m2 \in Seq(Nat) /\ Len(m2) = n
      /\ \A k \in 1..n : m2[k] = IF k \in (b + 1 + z)..(b + 1 + z + w - 1)
                                 THEN bs[k - (b + 1 + z) + 1] ELSE m1[k]
  <2>1. PutTo(m1, m2, b + 1 + z, bs)
    BY <1>1, <1>4, <1>6, <1>10, PutIs
  <2> QED  BY <1>4, <1>6, <2>1 DEF PutTo
<1>8. ASSUME NEW k \in 1..(b + z + w) PROVE m2[k] = d[k]
  <2>1. k \in 1..n
    BY <1>1, <1>15
  <2>2. CASE k <= b
    <3>1. ~(k \in (b + 1)..(b + 1 + z - 1)) /\ ~(k \in (b + 1 + z)..(b + 1 + z + w - 1)) /\ k \in 1..b
      BY <1>1, <2>2
    <3> QED  BY <1>4, <1>7, <1>16, <2>1, <3>1
  <2>3. CASE k > b /\ k <= b + z
    <3>1. k \in (b + 1)..(b + 1 + z - 1) /\ ~(k \in (b + 1 + z)..(b + 1 + z + w - 1))
      BY <1>1, <2>3
    <3>2. PICK x \in 1..z : x = k - (b + 1) + 1 /\ k = b + x
      BY <1>1, <2>3
    <3>3. m2[k] = f[x]
      BY <1>4, <1>7, <2>1, <3>1, <3>2
    <3> QED  BY <1>3, <1>16, <3>2, <3>3
  <2>4. CASE k > b + z
    <3>1. k \in (b + 1 + z)..(b + 1 + z + w - 1)
      BY <1>1, <2>4
    <3>2. PICK x \in 1..w : x = k - (b + 1 + z) + 1 /\ k = b + z + x
      BY <1>1, <2>4
    <3>3. m2[k] = bs[x]
      BY <1>7, <2>1, <3>1, <3>2
    <3> QED  BY <1>6, <3>2, <3>3
  <2> QED  BY <1>1, <2>2, <2>3, <2>4
<1>9. ASSUME NEW k \in (b + z + w + 1)..n PROVE m2[k] = m[k]
  <2>1. k \in 1..n /\ ~(k \in (b + 1)..(b + 1 + z - 1)) /\ ~(k \in (b + 1 + z)..(b + 1 + z + w - 1))
    BY <1>1
  <2> QED  BY <1>4, <1>7, <2>1
<1>14. Expanded(d, m, m2, b, z, w)
  BY <1>2, <1>7, <1>8, <1>9 DEF Expanded
<1> QED  BY <1>13, <1>14

LEMMA ExpandKeeps == RleInv /\ Expand => RleInv'
<1> SUFFICES ASSUME RleInv, Expand PROVE RleInv'
  OBVIOUS
<1>0. record \in Records /\ gap \in Gaps /\ ExpandOK(record, cells, rd, wr, comp)
  BY DEF RleInv, Expand
<1>1. PICK d \in Seq(Nat), m \in Seq(Nat) : d = record /\ m = cells
  BY <1>0, Sizes DEF ExpandOK, Given
<1>2. PICK n \in Nat : n = Len(d)
  OBVIOUS
<1>3. ExpandOK(d, m, rd, wr, comp)
  BY <1>0, <1>1
<1>4. PICK G \in Nat : G = Guard /\ G >= 2
  BY Numbers
<1>5. PICK c \in Nat, A \in Nat : c = comp /\ c >= G /\ A = c - G /\ A = c - Guard /\ c = A + G
  BY <1>3, <1>4 DEF ExpandOK
<1>15. ExpandOK(d, m, rd, wr, c)
  BY <1>3, <1>5
<1>6. PICK top \in Nat, a \in Nat, b \in Nat :
          /\ Len(m) = top + c + Guard
          /\ rd = top + a + 1 /\ wr = b + 1
          /\ \A k \in 1..b : m[k] = d[k]
          /\ \E R \in SUBSET (Nat \X Nat) :
                /\ <<a, b>> \in R
                /\ Cuts(R, d, m, top, c - Guard, Len(d))
                /\ \A x, y \in Nat : <<x, y>> \in R => y <= top + x
  BY <1>15 DEF ExpandOK
<1>16. c - Guard = A
  BY <1>5
<1>7. PICK R \in SUBSET (Nat \X Nat) :
                /\ <<a, b>> \in R
                /\ Cuts(R, d, m, top, A, n)
                /\ \A x, y \in Nat : <<x, y>> \in R => y <= top + x
  BY <1>2, <1>6, <1>16
<1>8. PICK l \in Nat : l = Len(m) /\ l = top + A + 2 * G
  <2>1. PICK l \in Nat : l = Len(m)
    OBVIOUS
  <2>2. l = top + c + G
    BY <1>4, <1>6, <2>1
  <2>3. c = A + G
    BY <1>5
  <2>4. l = top + A + 2 * G
    BY <2>2, <2>3
  <2> QED  BY <2>1, <2>4
<1>17. PICK r \in Nat : r = rd /\ r = top + a + 1
  BY <1>6
<1>18. PICK e \in Nat : e = top + A + 1
  OBVIOUS
<1>9. r = rd /\ r = top + a + 1 /\ e = Len(cells) - 2 * Guard + 1 /\ e = top + A + 1
  <2>1. Len(cells) - 2 * Guard + 1 = l - 2 * G + 1
    BY <1>1, <1>4, <1>8
  <2>2. l - 2 * G + 1 = e
    BY <1>8, <1>18
  <2> QED  BY <1>17, <1>18, <2>1, <2>2
<1>10. PICK o \in Nat : o = wr /\ o = b + 1
  BY <1>6
<1>11. a <= A /\ b <= n /\ Goes(R, d, m, top, a, b, A, n) /\ n <= top + A
  BY <1>7 DEF Cuts
<1>12. record' \in Records /\ gap' \in Gaps /\ record' = d /\ gap' = gap /\ comp' = c
  BY <1>0, <1>1, <1>5 DEF Expand
<1>13. CASE r < e
  <2>1. a < A /\ a # A
    BY <1>9, <1>13
  <2>17. Goes(R, d, m, top, a, b, A, n) /\ ~(a = A /\ b = n)
    BY <1>11, <2>1
  <2>2. PICK a2 \in Nat, b2 \in Nat : <<a2, b2>> \in R /\ BlockBetween(d, m, top, a, b, a2, b2)
    BY <2>17 DEF Goes
  <2>3. PICK z \in 0..RunMax, w \in 0..RunMax :
          /\ m[top + a + 1] = Prefix(z, w)
          /\ a2 = a + 1 + w /\ b2 = b + z + w
          /\ \A k \in 1..z : d[b + k] = 0
          /\ \A k \in 1..w : m[top + a + 1 + k] = d[b + z + k]
    BY <2>2 DEF BlockBetween
  <2>4. cells[rd] \div (RunMax + 1) = z /\ cells[rd] % (RunMax + 1) = w
    <3>1. cells[rd] = Prefix(z, w)
      BY <1>1, <1>9, <2>3
    <3> QED  BY <3>1, PrefixIs
  <2>5. z \in Nat /\ w \in Nat
    BY Numbers
  <2>6. PICK M \in Nat : M = a2 /\ a2 <= A /\ b2 <= top + a2 /\ r + w = top + a2
    BY <1>7, <1>9, <2>2, <2>3 DEF Cuts
  <2>7. b + z <= r /\ r + w <= l
    <3>1. b + z + w <= top + a2 /\ a2 = a + 1 + w /\ a2 <= A /\ l = top + A + 2 * G /\ r = top + a + 1
      BY <1>8, <1>17, <2>3, <2>6
    <3>2. PICK x \in Nat, y \in Nat : x = z /\ y = w
      BY <2>5
    <3>3. b + x + y <= top + a2 /\ a2 = a + 1 + y /\ a2 <= A /\ l = top + A + 2 * G /\ r = top + a + 1
      BY <3>1, <3>2
    <3>4. b + x <= r /\ r + y <= l
      BY <3>3
    <3> QED  BY <3>2, <3>4
  <2> DEFINE m2 == Expansion(m, b, r, z, w)
  <2>8. /\ cells' = m2 /\ rd' = r + 1 + w /\ wr' = o + z + w /\ step' = "expand"
    <3>1. rd < Len(cells) - 2 * Guard + 1
      BY <1>9, <1>13
    <3> QED  BY <1>1, <1>9, <1>10, <2>4, <3>1 DEF Expand, Expansion
  <2> HIDE DEF m2
  <2>9. /\ m2 \in Seq(Nat) /\ Len(m2) = l
        /\ \A k \in 1..(b + z + w) : m2[k] = d[k]
        /\ \A k \in (b + z + w + 1)..l : m2[k] = m[k]
    <3>1. \A k \in 1..b : m[k] = d[k]
      BY <1>6
    <3>2. \A k \in 1..w : m[r + k] = d[b + z + k]
      BY <1>9, <2>3
    <3>3. b + z <= r /\ r + w <= Len(m)
      BY <1>8, <2>7
    <3>4. \A k \in 1..z : d[b + k] = 0
      BY <2>3
    <3>5. Expands(d, m, b, r, z, w)
      BY <3>1, <3>2, <3>3, <3>4 DEF Expands
    <3>6. Expanded(d, m, m2, b, z, w)
      BY <3>5, BlockExpanded DEF m2
    <3> QED  BY <1>8, <3>6 DEF Expanded
  <2>10. PICK mm \in Seq(Nat) : mm = m2 /\ Len(mm) = l
    BY <2>9
  <2>11. \A k \in 1..b2 : mm[k] = d[k]
    BY <2>3, <2>9, <2>10
  <2>12. SameBytes(mm, top, m, top, a2, A)
    <3>1. ASSUME NEW k \in (a2 + 1)..A PROVE mm[top + k] = m[top + k]
      <4>1. top + k \in (b2 + 1)..l
        BY <1>8, <2>6
      <4>2. b2 + 1 = b + z + w + 1
        BY <2>3
      <4> QED  BY <2>9, <2>10, <4>1, <4>2
    <3> QED  BY <3>1 DEF SameBytes
  <2>13. Rest(R, d, mm, top, A, n, a2)
    <3>1. a2 <= A /\ Cuts(R, d, m, top, A, n)
      BY <1>7, <2>6
    <3> QED  BY <2>12, <3>1, RestOfCuts
  <2>14. PICK R2 \in SUBSET R : Cuts(R2, d, mm, top, A, n) /\ <<a2, b2>> \in R2
    BY <2>2, <2>13 DEF Rest
  <2>15. ExpandOK(d, mm, top + a2 + 1, b2 + 1, c)
    <3>1. Len(mm) = top + c + Guard
      BY <1>6, <1>8, <2>10
    <3>2. R2 \in SUBSET (Nat \X Nat) /\ \A x, y \in Nat : <<x, y>> \in R2 => y <= top + x
      BY <1>7, <2>14
    <3>3. c - Guard = A /\ c >= Guard
      BY <1>4, <1>5
    <3> QED  BY <1>2, <2>11, <2>14, <3>1, <3>2, <3>3 DEF ExpandOK
  <2>16. rd' = top + a2 + 1 /\ wr' = b2 + 1
    <3>1. r + 1 + w = top + a2 + 1 /\ o + z + w = b2 + 1
      BY <1>9, <1>10, <2>3, <2>5
    <3> QED  BY <2>8, <3>1
  <2> QED  BY <1>12, <2>8, <2>10, <2>15, <2>16 DEF RleInv, RoundTrip, OverflowOnlyWhenTight
<1>14. CASE ~(r < e)
  <2>1. a = A
    BY <1>9, <1>11, <1>14
  <2>2. b = n
    <3>1. SUFFICES ASSUME b # n PROVE FALSE
      OBVIOUS
    <3>2. PICK a2 \in Nat, b2 \in Nat : <<a2, b2>> \in R /\ BlockBetween(d, m, top, a, b, a2, b2)
      BY <1>11, <3>1 DEF Goes
    <3>3. a2 <= A /\ a2 > a
      BY <1>7, <3>2, BlockForward DEF Cuts
    <3> QED  BY <2>1, <3>3
  <2>3. step' = "ready" /\ cells' = m
    <3>1. ~(rd < Len(cells) - 2 * Guard + 1)
      BY <1>9, <1>14
    <3>2. wr = Len(record) + 1
      BY <1>1, <1>2, <1>10, <2>2
    <3> QED  BY <1>1, <3>1, <3>2 DEF Expand
  <2>4. SubSeq(m, 1, n) = d
    <3>1. n <= l
      BY <1>8, <1>11
    <3>2. SubSeq(m, 1, n) = [k \in 1..n |-> m[k]]
      BY <1>8, <3>1
    <3>3. d = [k \in 1..n |-> d[k]]
      BY <1>2
    <3>4. \A k \in 1..n : m[k] = d[k]
      BY <1>6, <2>2
    <3> QED  BY <3>2, <3>3, <3>4
  <2> QED  BY <1>2, <1>12, <2>3, <2>4 DEF RleInv, RoundTrip, OverflowOnlyWhenTight
<1> QED  BY <1>13, <1>14

\* The inductive invariant of pool_compress and pool_uncompress.
THEOREM RleInvariance == RleSpec => []RleInv
<1>1. RleInv /\ [RleNext]_rleVars => RleInv'
  <2> SUFFICES ASSUME RleInv, [RleNext]_rleVars PROVE RleInv'
    OBVIOUS
  <2>1. CASE UNCHANGED rleVars
    BY <2>1 DEF rleVars, RleInv, RoundTrip, OverflowOnlyWhenTight
  <2> QED  BY <2>1, CountKeeps, EmitZerosKeeps, EmitRunKeeps, EmitLastKeeps, ChecksumKeeps,
              ReadBackKeeps, ExpandKeeps DEF RleNext
<1> QED  BY <1>1, InitRle, PTL DEF RleSpec

\* A record that pool_compress has stored over the bytes it was reading is expanded by
\* pool_uncompress, over the bytes it is reading, to what it was.
THEOREM RecordsSurvive == RleSpec => []RoundTrip
<1>1. RleInv => RoundTrip
  BY DEF RleInv
<1> QED  BY <1>1, RleInvariance, PTL

\* pool_compress overflows only if the copy-out left no more than a byte for each
\* full block and one more, so a retry in a larger buffer is not refused.
THEOREM OverflowIsTight == RleSpec => []OverflowOnlyWhenTight
<1>1. RleInv => OverflowOnlyWhenTight
  BY DEF RleInv
<1> QED  BY <1>1, RleInvariance, PTL
=============================================================================
