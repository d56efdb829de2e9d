----------------------------- MODULE LPCReloc -----------------------------
(***************************************************************************)
(* Relocation of a serial pool (src/lpc/lpc_pool.c, make_pool_rbvec and    *)
(* relocate_pool).  The words of the pool that hold internal pointers are  *)
(* tagged.  On copy-out the tags are sorted, turned into deltas, encoded   *)
(* in place as a vector of bytes, and the vector is walked to make every   *)
(* pointer relative; on copy-in it is walked again, in a pool at another   *)
(* address, to make them absolute.                                         *)
(*                                                                         *)
(* A byte carries Radix values and a follow-on bit, 128 in the code.       *)
(* Small values of Radix bring the long encodings within small pools.      *)
(***************************************************************************)
EXTENDS Integers, Sequences, FiniteSets

CONSTANTS
    Words,      \* words in the pool
    Radix,      \* 0x80
    WordBytes,  \* sizeof(ulong)
    Bases       \* addresses a pool may be given

MaxBytes == 4   \* of an encoded delta, 872-893

ASSUME RelocConstants ==
    /\ Words \in Nat \ {0}
    /\ Radix \in Nat \ {0, 1}
    /\ WordBytes \in Nat /\ WordBytes >= MaxBytes
    /\ \A b \in Bases : b \in Nat /\ b > Words

VARIABLES
    tags,     \* pool->tags: the words that hold pointers
    base,     \* pool->storage
    mem,      \* the words of the pool; word w points to word w, data is 0
    deltas,   \* reloc_vec, from when it is made
    bytes,    \* reloc_bvec, growing over the front of reloc_vec
    p, q,     \* the walk: next byte of the vector, and word reached
    pc

relocVars == <<tags, base, mem, deltas, bytes, p, q, pc>>

Byte == 0..(2 * Radix - 1)
PCs  == {"tagged", "encode", "copyout", "record", "copyin", "ready", "error"}

RelocTypeOK ==
    /\ tags \in (SUBSET (0..Words-1)) \ {{}}
    /\ base \in Bases
    /\ mem \in [0..Words-1 -> Int]
    /\ deltas \in Seq(0..Words-1)
    /\ bytes \in Seq(Byte)
    /\ p \in 1..(MaxBytes * Words + 2)
    /\ q \in Nat
    /\ pc \in PCs

\* The pool as the copy-out leaves it: entry->op_array is always tagged.
RelocInit ==
    /\ tags \in (SUBSET (0..Words-1)) \ {{}}
    /\ base \in Bases
    /\ mem = [w \in 0..Words-1 |-> IF w \in tags THEN base + w ELSE 0]
    /\ deltas = <<>> /\ bytes = <<>>
    /\ p = 1 /\ q = 0
    /\ pc = "tagged"

-----------------------------------------------------------------------------
(* make_pool_rbvec *)
Sorted == [i \in 1..Cardinality(tags) |->
              CHOOSE t \in tags : Cardinality({u \in tags : u < t}) = i - 1]

MakeDeltas ==
    /\ pc = "tagged"
    /\ LET v == Sorted
       IN  deltas' = [i \in 1..Len(v) |-> IF i = 1 THEN v[1] ELSE v[i] - v[i-1]]
    /\ pc' = "encode"
    /\ UNCHANGED <<tags, base, mem, bytes, p, q>>

\* 1, 0x80, 0x4000, 0x200000, 0x10000000.
Power(k) == <<1, Radix, Radix * Radix, Radix * Radix * Radix,
              Radix * Radix * Radix * Radix>>[k + 1]

\* Faulty variant of Digit: the higher bits are not masked.
DigitUnmasked(d, k) == d \div Power(k-1)

Digit(d, k)  == (d \div Power(k-1)) % Radix
\* Faulty variant of Digits: a limit itself is thought to fit.
DigitsTight(d) == CHOOSE k \in 1..MaxBytes :
                      d <= Power(k) /\ (k = 1 \/ d > Power(k-1))

Digits(d)    == CHOOSE k \in 1..MaxBytes :
                    d < Power(k) /\ (k = 1 \/ d >= Power(k-1))
\* Faulty variant of Encode: all the digits of a word, with leading zeros.
EncodePadded(d) == [k \in 1..(WordBytes + 1) |->
                       Digit(d, k) + IF k <= WordBytes THEN Radix ELSE 0]

Encode(d)    == [k \in 1..Digits(d) |->
                    Digit(d, k) + IF k < Digits(d) THEN Radix ELSE 0]

\* One turn of the loop of 871-894; p counts the entries done.
EncodeNext ==
    /\ pc = "encode" /\ p <= Len(deltas)
    /\ IF deltas[p] < Power(MaxBytes)
       THEN bytes' = bytes \o Encode(deltas[p]) /\ p' = p + 1 /\ UNCHANGED pc
       ELSE pc' = "error" /\ UNCHANGED <<bytes, p>>
    /\ UNCHANGED <<tags, base, mem, deltas, q>>

EncodeEnd ==
    /\ pc = "encode" /\ p > Len(deltas)
    /\ bytes' = Append(bytes, 0)
    /\ p' = 1
    /\ pc' = "copyout"
    /\ UNCHANGED <<tags, base, mem, deltas, q>>

-----------------------------------------------------------------------------
(* relocate_pool *)
More(i)  == bytes[i] >= Radix
Value(n) == LET v(k) == IF k <= n THEN (bytes[p+k-1] % Radix) * Power(k-1) ELSE 0
            IN  v(1) + v(2) + v(3) + v(4)

\* How many bytes the delta at p is made of, and by how many p is advanced:
\* the four-byte case steps by three.
Length == IF ~More(p) THEN 1 ELSE IF ~More(p+1) THEN 2 ELSE IF ~More(p+2) THEN 3 ELSE 4
Stride == IF Length = 4 THEN 3 ELSE Length

\* One turn of the loop: move q, adjust the word there by Adjust, stop at a
\* zero byte.  A word that is not a pointer is a fatal error.
Relocate(Adjust(_), Valid(_), next) ==
    LET w == q + Value(Length)
    IN  IF w \in 0..Words-1 /\ Valid(mem[w])
        THEN /\ mem' = [mem EXCEPT ![w] = Adjust(@)]
             /\ IF bytes[p + Stride] = 0
                THEN pc' = next /\ p' = 1 /\ q' = 0
                ELSE pc' = pc /\ p' = p + Stride /\ q' = w
        ELSE pc' = "error" /\ UNCHANGED <<mem, p, q>>

RelocateOut ==
    /\ pc = "copyout"
    /\ Relocate(LAMBDA v : v - base, LAMBDA v : v >= base, "record")
    /\ UNCHANGED <<tags, base, deltas, bytes>>

\* The record is written, and read back into storage at some address.
Reload ==
    /\ pc = "record"
    /\ base' \in Bases
    /\ pc' = "copyin"
    /\ UNCHANGED <<tags, mem, deltas, bytes, p, q>>

RelocateIn ==
    /\ pc = "copyin"
    /\ Relocate(LAMBDA v : v + base, LAMBDA v : v < Words, "ready")
    /\ UNCHANGED <<tags, base, deltas, bytes>>

RelocNext == MakeDeltas \/ EncodeNext \/ EncodeEnd \/ RelocateOut \/ Reload \/ RelocateIn

RelocSpec == RelocInit /\ [][RelocNext]_relocVars

-----------------------------------------------------------------------------
\* A record read back has every pointer of the pool aimed at the word it was
\* aimed at, from its new address, and all else as it was.
PointersRestored ==
    /\ pc = "ready" =>
           mem = [w \in 0..Words-1 |-> IF w \in tags THEN base + w ELSE 0]
    /\ pc # "error"

\* The encoding copes with every gap it can express: relocation never meets
\* a word that is not a pointer (lpc_pool.c:854-860).
NoRelocationError == pc # "error"

\* The bytes written over the front of reloc_vec never reach an entry still
\* to be read, though nothing separates the two (lpc_pool.c:814-818).
UnreadKept == pc = "encode" => Len(bytes) <= (p - 1) * WordBytes
=============================================================================
