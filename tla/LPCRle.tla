------------------------------ MODULE LPCRle ------------------------------
(***************************************************************************)
(* The default compression of lpc (src/lpc/lpc_pool.c, pool_compress and   *)
(* pool_uncompress, algorithm 1) with its memory: a record is compressed   *)
(* from the top of the storage to its bottom, over the bytes it still has  *)
(* to read, and is expanded in the same manner after having been read back *)
(* to the top of a buffer that lpc_pool_storage has sized.                 *)
(*                                                                         *)
(* The record is a series of blocks <prefix><non-zero bytes>; the prefix   *)
(* counts the zero bytes that come first and the others that follow.  Each *)
(* count is at most RunMax, 15 in the code.  The checksum and the marker   *)
(* take Guard bytes each, 4 in the code, and storage comes in quanta of    *)
(* at least 32768 bytes; they scale down with RunMax.                      *)
(***************************************************************************)
EXTENDS Naturals, Sequences

CONSTANTS
    RunMax,          \* 15
    Guard,           \* sizeof(zend_uint)
    Word,            \* sizeof(pointer)
    StorageQuantum,  \* lpc.storage_quantum
    Records,         \* the records to store
    Gaps             \* free bytes a copy-out may leave in the storage

Mark   == RunMax * (RunMax + 1) + RunMax + 1   \* END_MARKER, 0xEE 0 0xEE 0
Crc    == Mark + 1                             \* a correct checksum

ASSUME RleConstants ==
    /\ RunMax \in Nat \ {0, 1}
    /\ Guard \in Nat \ {0, 1}
    /\ Word \in Nat \ {0}
    /\ StorageQuantum \in Nat \ {0}
    /\ \A r \in Records : r \in Seq(0..(Mark - 1)) /\ r # <<>>
    /\ Gaps \subseteq Nat \ {0}

\* A quantum has room for what a short record may grow by while it is expanded:
\* 5528 bytes in the code, which refuses quanta below 32768 (lpc_request.c 130).
ASSUME RleRoom ==
    StorageQuantum >=
        (2 * (RunMax * (RunMax * (Guard + Word)))) + (RunMax * Word) + (2 * Guard)

\* p, q, s, i and j in the code are rd, wr, runAt, zleft and nleft.
VARIABLES
    record,        \* history: the record that is to be stored
    gap,           \* history: available, what the copy-out left free
    cells,         \* the storage, from address 1
    rd, wr,        \* next byte to read and to write
    runAt,         \* start of the run of non-zero bytes
    zleft, nleft,  \* zero and non-zero bytes counted, and still to write
    comp,          \* length of the compressed record
    step

rleVars == <<record, gap, cells, rd, wr, runAt, zleft, nleft, comp, step>>

Cell  == 0..Crc
Steps == {"count", "block", "end", "overflow", "stored", "expand", "ready", "error"}

RleTypeOK ==
    /\ record \in Records
    /\ gap \in Gaps
    /\ cells \in Seq(Cell)
    /\ rd \in Nat /\ wr \in Nat /\ runAt \in Nat /\ zleft \in Nat /\ nleft \in Nat
    /\ comp \in Nat
    /\ step \in Steps

\* END_MARKER fills the Guard bytes after what it follows.
Marker == [k \in 1..Guard |-> IF k % 2 = 1 THEN Mark ELSE 0]
Fill(n) == [k \in 1..n |-> 0]

\* lpc_pool_serialize has moved the record up against the marker.
RleInit ==
    /\ record \in Records
    /\ gap \in Gaps
    /\ cells = Fill(gap) \o record \o Marker
    /\ rd = gap + 1 /\ wr = 1 /\ runAt = 0
    /\ zleft = 0 /\ nleft = 0
    /\ comp = 0
    /\ step = "count"

Least(S) == CHOOSE m \in S : \A n \in S : m <= n
Put(m, at, bs) == [k \in DOMAIN m |->
                     IF k \in at..(at + Len(bs) - 1) THEN bs[k - at + 1] ELSE m[k]]

-----------------------------------------------------------------------------
(* pool_compress *)
PEnd == gap + Len(record) + 1

\* Count a run of zero bytes, then a run of others.  The marker stops either;
\* what was counted of it is taken back.
Count ==
    /\ step = "count" /\ rd < PEnd
    /\ LET nz == Least({k \in rd..Len(cells) : cells[k] # 0})
           z  == Least({k \in nz..Len(cells) : cells[k] = 0})
       IN  IF nz >= PEnd
           THEN zleft' = PEnd - rd /\ nleft' = 0 /\ runAt' = runAt /\ rd' = PEnd
           ELSE /\ zleft' = nz - rd /\ runAt' = nz
                /\ rd' = IF z > PEnd THEN PEnd ELSE z
                /\ nleft' = rd' - nz
    /\ step' = "block"
    /\ UNCHANGED <<record, gap, cells, wr, comp>>

\* Faulty variant of Prefix: the halves overlap.
PrefixWide(zeros, others) == zeros * (RunMax + 2) + others

Prefix(zeros, others) == zeros * (RunMax + 1) + others

\* The prefix is written before the bytes that follow it are copied.
PutBlock(zeros, others) ==
    LET m == Put(cells, wr, <<Prefix(zeros, others)>>)
    IN  Put(m, wr + 1, [k \in 1..others |-> m[runAt + k - 1]])

\* A prefix for RunMax zero bytes; RunMax non-zero bytes with their prefix;
\* or the last block, after which the writer may have overtaken the reader.
EmitZeros ==
    /\ step = "block" /\ zleft > RunMax
    /\ cells' = Put(cells, wr, <<Prefix(RunMax, 0)>>)
    /\ wr' = wr + 1
    /\ zleft' = zleft - RunMax
    /\ UNCHANGED <<record, gap, rd, runAt, nleft, comp, step>>

\* Faulty variant of EmitRun: the zero bytes are counted again in the next block.
EmitRunAgain ==
    /\ step = "block" /\ zleft <= RunMax /\ nleft > RunMax
    /\ cells' = PutBlock(zleft, RunMax)
    /\ wr' = wr + 1 + RunMax
    /\ runAt' = runAt + RunMax
    /\ nleft' = nleft - RunMax
    /\ UNCHANGED <<record, gap, rd, zleft, comp, step>>

EmitRun ==
    /\ step = "block" /\ zleft <= RunMax /\ nleft > RunMax
    /\ cells' = PutBlock(zleft, RunMax)
    /\ wr' = wr + 1 + RunMax
    /\ runAt' = runAt + RunMax
    /\ zleft' = 0
    /\ nleft' = nleft - RunMax
    /\ UNCHANGED <<record, gap, rd, comp, step>>

\* Faulty variant of EmitLast: room for a whole block is asked for.
EmitLastEarly ==
    /\ step = "block" /\ zleft <= RunMax /\ nleft <= RunMax
    /\ cells' = PutBlock(zleft, nleft)
    /\ wr' = wr + 1 + nleft
    /\ step' = IF wr' + RunMax >= rd THEN "overflow" ELSE "count"
    /\ UNCHANGED <<record, gap, rd, runAt, zleft, nleft, comp>>

EmitLast ==
    /\ step = "block" /\ zleft <= RunMax /\ nleft <= RunMax
    /\ cells' = PutBlock(zleft, nleft)
    /\ wr' = wr + 1 + nleft
    /\ step' = IF wr' >= rd THEN "overflow" ELSE "count"
    /\ UNCHANGED <<record, gap, rd, runAt, zleft, nleft, comp>>

Checksum ==
    /\ step = "count" /\ rd >= PEnd
    /\ cells' = Put(cells, wr, [k \in 1..Guard |-> Crc])
    /\ comp' = wr - 1 + Guard
    /\ step' = "stored"
    /\ UNCHANGED <<record, gap, rd, wr, runAt, zleft, nleft>>

-----------------------------------------------------------------------------
(* lpc_pool_storage for reading, and pool_uncompress *)
Multiple(n, q)   == q * ((n + q - 1) \div q)
WholeQuanta(n)   == Multiple(n, StorageQuantum)
RoundUp(n)       == Multiple(n, Word)
ReadBufferSize(c, n) == WholeQuanta((IF c > n THEN c ELSE n) + c \div RunMax + Guard)

\* The record is read to the top of the buffer, to the start of a word, with a
\* marker after it; what is left of the last word is never read.  The checksum was
\* taken over these very bytes and so is found correct.
ReadBack ==
    /\ step = "stored"
    /\ LET top == ReadBufferSize(comp, Len(record)) - RoundUp(comp + Guard)
       IN  /\ cells' = Fill(top) \o SubSeq(cells, 1, comp) \o Marker
           /\ rd' = top + 1
    /\ wr' = 1
    /\ step' = "expand"
    /\ UNCHANGED <<record, gap, runAt, zleft, nleft, comp>>

\* One block; the loop ends at the checksum.
Expand ==
    /\ step = "expand"
    /\ LET pend   == Len(cells) - 2 * Guard + 1
           zeros  == cells[rd] \div (RunMax + 1)
           others == cells[rd] % (RunMax + 1)
           blank  == Put(cells, wr, Fill(zeros))
       IN  IF rd < pend
           THEN /\ cells' = Put(blank, wr + zeros, [k \in 1..others |-> blank[rd + k]])
                /\ rd' = rd + 1 + others
                /\ wr' = wr + zeros + others
                /\ UNCHANGED step
           ELSE /\ step' = IF wr = Len(record) + 1 THEN "ready" ELSE "error"
                /\ UNCHANGED <<cells, rd, wr>>
    /\ UNCHANGED <<record, gap, runAt, zleft, nleft, comp>>

RleNext == Count \/ EmitZeros \/ EmitRun \/ EmitLast \/ Checksum \/ ReadBack \/ Expand

RleSpec == RleInit /\ [][RleNext]_rleVars

-----------------------------------------------------------------------------
\* A record that was stored is read back as it was: neither working in place
\* nor running into the marker ever costs a byte (lpc_pool.c:713-719, 423-426).
RoundTrip ==
    /\ step = "ready" => SubSeq(cells, 1, Len(record)) = record
    /\ step # "error"

\* Overflow is a matter of room: a gap of one byte per full block, and one
\* more, is always enough, so the retries come to an end.
OverflowOnlyWhenTight == step = "overflow" => gap <= Len(record) \div RunMax + 1
=============================================================================
