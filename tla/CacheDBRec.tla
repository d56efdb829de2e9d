---------------------------- MODULE CacheDBRec ----------------------------
(***************************************************************************)
(* The records of one cachedb database as one session reads and writes     *)
(* them (src/cachedb/cachedb.c): the index with its offsets, the base and  *)
(* the temporary stream with their cached positions, and the database a    *)
(* close commits.  Other sessions are the subject of CacheDB.              *)
(*                                                                         *)
(* A stored record is a run of cells, one per unit of length; a cell knows *)
(* its record and its place in it, so that a read from a wrong position or *)
(* of a wrong length yields visibly wrong cells, as it yields wrong bytes. *)
(*                                                                         *)
(* Serialising an object calls its __sleep, and unserialising its __wakeup *)
(* method: code of the program, which may use the same handle in the       *)
(* middle of an add or a fetch.                                            *)
(***************************************************************************)
EXTENDS Naturals, Sequences, SequencesExt

CONSTANTS
    Keys,
    Values,    \* [str, code : BOOLEAN, n, z, l : Nat]: is it a string, has it
               \* methods that are called back, its length, and its compressed
               \* and plain length when serialised
    Nested,    \* <<outer, inner>> calls such a method may make, outer one of
               \* "add" and "fetch", inner "exists", "fetch", "add" or "same",
               \* an add of the key that is being added
    Mixed,     \* sessions may read a database in the format it does not have
    MaxRecs,   \* bound: records in the index of a session
    MaxDepth   \* bound: calls in progress

ASSUME ConstantsOK ==
    /\ Mixed \in BOOLEAN
    /\ MaxRecs \in Nat /\ MaxDepth \in Nat
    /\ Nested \subseteq {"add", "fetch"} \X {"exists", "fetch", "add", "same"}
    /\ Values \subseteq [str : BOOLEAN, code : BOOLEAN, n : Nat, z : Nat \ {0}, l : Nat \ {0}]

VARIABLES
    file,    \* the database file: [index, data], or NoFile
    st,      \* "closed", "open"; after a fatal error, until the shutdown,
             \* "error" (read, load) or "misuse" (non-string in binary mode)
    mode,    \* db->mode
    bin,     \* db->is_binary
    index,   \* index_list and index_hash: [key, zlen, len, start], and, as a
             \* history the code does not keep, the stored val and format bin
    base,    \* base_file.fp: [data, hlen, pos, next], pos the true position
    tmp,     \* tmp_file: [data, len, pos, next], len the filelength kept for it
    last,    \* last_find: its entry in the index, 0 for none
    got,     \* cells the last fetch returned, <<>> for none
    calls    \* adds and fetches in progress, innermost last

vars == <<file, st, mode, bin, index, base, tmp, last, got, calls>>

NoFile == [index |-> <<>>, data |-> <<>>, exists |-> FALSE]
NoBase == [data |-> <<>>, hlen |-> 0, pos |-> 0, next |-> 0]
NoTmp  == [data |-> <<>>, len |-> 0, pos |-> 0, next |-> 0]

-----------------------------------------------------------------------------
(* Stored form of a value: itself if binary, else compressed serialisation. *)
ZLen(v, b) == IF b THEN v.n ELSE v.z
PLen(v, b) == IF b THEN v.n ELSE v.l
Cells(k, v, b) == [i \in 1..ZLen(v, b) |-> [key |-> k, val |-> v, bin |-> b, at |-> i]]

(* cachedb_read_var accepts any bytes in binary mode; otherwise they must   *)
(* uncompress, to the expected length, and unserialize.                     *)
Readable(cs, n, plen, b) ==
    /\ Len(cs) = n
    /\ b \/ /\ n > 0
            /\ cs = Cells(cs[1].key, cs[1].val, FALSE)
            /\ plen = cs[1].val.l

ReadAt(data, pos, n) ==
    SubSeq(data, pos + 1, IF pos + n <= Len(data) THEN pos + n ELSE Len(data))

WriteAt(data, pos, cs) ==
    SubSeq(data, 1, pos) \o cs \o SubSeq(data, pos + Len(cs) + 1, Len(data))

(* Length of header and index on disk, which grows with the index.          *)
HeaderLen(ix) == 1 + Len(ix)

BaseLen == base.hlen + Len(base.data)
TmpLen  == tmp.len

(* cachedb_load_index: offsets are the running sum of the record lengths,   *)
(* which must end exactly at the end of the file.                           *)
Sums(ix) ==
    LET sum[i \in 0..Len(ix)] == IF i = 0 THEN 0 ELSE sum[i - 1] + ix[i].zlen
    IN  sum
SumZLen(ix) == Sums(ix)[Len(ix)]

\* Faulty variant of LoadIndex: offsets are those of the ends.
LoadIndexEnds(f) ==
    [i \in 1..Len(f.index) |->
        [f.index[i] EXCEPT !.start = HeaderLen(f.index) + Sums(f.index)[i]]]

LoadIndex(f) ==
    [i \in 1..Len(f.index) |->
        [f.index[i] EXCEPT !.start = HeaderLen(f.index) + Sums(f.index)[i - 1]]]
OnDisk(ix) == [i \in 1..Len(ix) |-> [ix[i] EXCEPT !.start = 0]]
IndexLoads(f) == SumZLen(f.index) = Len(f.data)

Init ==
    /\ file = NoFile
    /\ st = "closed"
    /\ mode = "r"
    /\ bin = FALSE
    /\ index = <<>>
    /\ base = NoBase
    /\ tmp = NoTmp
    /\ last = 0
    /\ got = <<>>
    /\ calls = <<>>

-----------------------------------------------------------------------------
(* _cachedb_open.  A program opens a database in the format it was written  *)
(* in, unless Mixed: the file does not say which that was.                  *)
Open(m, b) ==
    /\ st = "closed"
    /\ UNCHANGED calls
    /\ Mixed \/ m = "c" \/ \A i \in 1..Len(file.index) : file.index[i].bin = b
    /\ bin' = b
    /\ last' = 0
    /\ got' = <<>>
    /\ tmp' = NoTmp
    /\ UNCHANGED file
    /\ IF m # "c" /\ file.exists
       THEN /\ mode' = m
            /\ st' = IF IndexLoads(file) THEN "open" ELSE "error"
            /\ index' = LoadIndex(file)
            /\ base' = [data |-> file.data, hlen |-> HeaderLen(file.index),
                        pos |-> HeaderLen(file.index), next |-> HeaderLen(file.index)]
       ELSE /\ mode' = IF m = "w" THEN "c" ELSE m
            /\ st' = "open"
            /\ index' = <<>>
            /\ base' = NoBase

(* A call comes from the script, or from a method of the object that the    *)
(* innermost call is serialising or has just unserialised.                  *)
Allowed ==
    IF calls = <<>> THEN {"exists", "fetch", "add"}
    ELSE IF Len(calls) < MaxDepth /\ Last(calls).code
    THEN {op \in {"exists", "fetch", "add", "same"} : <<Last(calls).op, op>> \in Nested}
    ELSE {}
May(op) == st = "open" /\ op \in Allowed

(* Of two records of one key, the hash table has the first.                 *)
Lookup(k) == {i \in 1..Len(index) : index[i].key = k /\ \A j \in 1..(i - 1) : index[j].key # k}

Find(k) ==
    /\ May("exists")
    /\ last' = IF Lookup(k) = {} THEN 0 ELSE CHOOSE i \in Lookup(k) : TRUE
    /\ UNCHANGED <<file, st, mode, bin, index, base, tmp, got, calls>>

\* Faulty variant of ReadFrom: it never seeks.
ReadFromHere(f, start, off, rec) ==
    LET n == IF bin THEN rec.len ELSE rec.zlen
    IN  [cells |-> ReadAt(f.data, f.pos - off, n), n |-> n, after |-> [f EXCEPT !.pos = @ + n]]

(* Read the found record from the stream it lives in: seek only if the      *)
(* cached position is not its start.                                        *)
ReadFrom(f, start, off, rec) ==
    LET n   == IF bin THEN rec.len ELSE rec.zlen
        pos == IF start # f.next THEN start ELSE f.pos
    IN  [cells |-> ReadAt(f.data, pos - off, n), n |-> n, after |-> [f EXCEPT !.pos = pos + n]]

InBase(rec) == rec.start < BaseLen

(* last_find.start, which counts from the start of the stream: the base has *)
(* hlen units before the records.  No find, or a vain one, leaves it 0.     *)
LastStart ==
    IF last = 0 THEN 0
    ELSE index[last].start - (IF InBase(index[last]) THEN 0 ELSE BaseLen)

LastZLen == IF last = 0 THEN 0 ELSE index[last].zlen

(* _cachedb_fetch up to the end of cachedb_read_var: the stream has moved,  *)
(* and the object that was read is awake.                                   *)
BeginFetch ==
    /\ May("fetch")
    /\ LastZLen # 0
    /\ LET rec  == index[last]
           read == IF InBase(rec) THEN ReadFrom(base, LastStart, base.hlen, rec)
                   ELSE ReadFrom(tmp, LastStart, 0, rec)
       IN  IF Readable(read.cells, read.n, rec.len, bin)
           THEN /\ calls' = Append(calls, [op |-> "fetch", rec |-> rec, cells |-> read.cells,
                                 code |-> ~bin /\ read.cells[1].val.code])
                /\ base' = IF InBase(rec) THEN read.after ELSE base
                /\ tmp' = IF InBase(rec) THEN tmp ELSE read.after
                /\ UNCHANGED <<st, got>>
           ELSE /\ got' = <<>> /\ st' = "error" /\ calls' = <<>>
                /\ UNCHANGED <<base, tmp>>
    /\ UNCHANGED <<file, mode, bin, index, last>>

FetchNothing ==
    /\ May("fetch")
    /\ LastZLen = 0
    /\ got' = <<>>
    /\ UNCHANGED <<file, st, mode, bin, index, base, tmp, last, calls>>

(* The rest: the position of the stream is remembered, from where the last  *)
(* find is by now and the length of the record this fetch began with.       *)
EndFetch ==
    /\ calls # <<>> /\ Last(calls).op = "fetch"
    /\ LET call == Last(calls)
           next == LastStart + call.rec.zlen
       IN  /\ got' = call.cells
           /\ base' = IF InBase(call.rec) THEN [base EXCEPT !.next = next] ELSE base
           /\ tmp' = IF InBase(call.rec) THEN tmp ELSE [tmp EXCEPT !.next = next]
    /\ calls' = Front(calls)
    /\ UNCHANGED <<file, st, mode, bin, index, last>>

Addable(k) == mode # "r" /\ Lookup(k) = {} /\ Len(index) + Len(calls) < MaxRecs

Adding == {calls[i].key : i \in {j \in DOMAIN calls : calls[j].op = "add"}}

\* Faulty variant of BeginAdd: no seek to the end.
BeginAddHere(k, v) ==
    /\ May(IF k \in Adding THEN "same" ELSE "add") /\ Addable(k) /\ (bin => v.str)
    /\ calls' = Append(calls, [op |-> "add", key |-> k, val |-> v, code |-> ~bin /\ v.code])
    /\ UNCHANGED <<file, st, mode, bin, index, base, tmp, last, got>>

(* _cachedb_add up to the serialisation: seek to the end of the temporary   *)
(* file if a fetch moved away from it.                                      *)
BeginAdd(k, v) ==
    /\ May(IF k \in Adding THEN "same" ELSE "add")
    /\ Addable(k)
    /\ v.str \/ ~bin
    /\ tmp' = IF tmp.next # TmpLen THEN [tmp EXCEPT !.pos = TmpLen] ELSE tmp
    /\ calls' = Append(calls, [op |-> "add", key |-> k, val |-> v, code |-> ~bin /\ v.code])
    /\ UNCHANGED <<file, st, mode, bin, index, base, last, got>>

Entry(call, start) ==
    [key |-> call.key, val |-> call.val, bin |-> bin, start |-> start,
     zlen |-> ZLen(call.val, bin), len |-> PLen(call.val, bin)]

(* The rest: write where the stream is, and take the length of the file,    *)
(* which the code keeps, for the position.                                  *)
EndAdd ==
    /\ calls # <<>> /\ Last(calls).op = "add"
    /\ LET cs  == Cells(Last(calls).key, Last(calls).val, bin)
       IN  /\ tmp' = [data |-> WriteAt(tmp.data, tmp.pos, cs), pos |-> tmp.pos + Len(cs),
                      len |-> tmp.len + Len(cs), next |-> tmp.len + Len(cs)]
           /\ index' = Append(index, Entry(Last(calls), BaseLen + tmp.len))
    /\ calls' = Front(calls)
    /\ UNCHANGED <<file, st, mode, bin, base, last, got>>

(* A non-string value in binary mode is a fatal error.                      *)
AddNonString(k, v) ==
    /\ st = "open" /\ calls = <<>>
    /\ Addable(k)
    /\ bin /\ ~v.str
    /\ st' = "misuse"
    /\ UNCHANGED <<file, mode, bin, index, base, tmp, last, got, calls>>

Forget ==
    /\ st' = "closed"
    /\ mode' = "r"
    /\ bin' = FALSE
    /\ index' = <<>>
    /\ base' = NoBase
    /\ tmp' = NoTmp
    /\ last' = 0
    /\ got' = <<>>
    /\ calls' = <<>>

\* Faulty variant of Close: only mode 'w' commits.
CloseWrite ==
    /\ st = "open" /\ calls = <<>>
    /\ Forget
    /\ IF mode = "w" /\ tmp.next > 0
       THEN file' = [index |-> OnDisk(index), data |-> base.data \o tmp.data, exists |-> TRUE]
       ELSE UNCHANGED file

(* Whether a close commits is decided by the position in the temporary file. *)
Close ==
    /\ st = "open" /\ calls = <<>>
    /\ Forget
    /\ IF mode # "r" /\ tmp.next > 0
       THEN file' = [index |-> OnDisk(index), data |-> base.data \o tmp.data, exists |-> TRUE]
       ELSE UNCHANGED file

(* Request shutdown closes with force_mode 'r'.                             *)
Shutdown ==
    /\ st \in {"open", "error", "misuse"} /\ calls = <<>>
    /\ Forget
    /\ UNCHANGED file

Next ==
    \/ \E m \in {"r", "w", "c"}, b \in BOOLEAN : Open(m, b)
    \/ \E k \in Keys : Find(k)
    \/ BeginFetch
    \/ FetchNothing
    \/ EndFetch
    \/ \E k \in Keys, v \in Values : BeginAdd(k, v) \/ AddNonString(k, v)
    \/ EndAdd
    \/ Close
    \/ Shutdown

Spec == Init /\ [][Next]_vars

-----------------------------------------------------------------------------
TypeOK ==
    /\ st \in {"closed", "open", "error", "misuse"}
    /\ mode \in {"r", "w", "c"}
    /\ bin \in BOOLEAN
    /\ last \in 0..Len(index)
    /\ base.pos \in Nat /\ base.next \in Nat
    /\ tmp.pos \in Nat /\ tmp.next \in Nat
    /\ file.exists \in BOOLEAN

\* Whatever was found, fetched and added before, and is done by the methods of the
\* objects in it, a fetch returns the value that was stored under the key, if it
\* was stored in the format of this session.
FetchReturnsStored ==
    [][EndFetch => LET rec == Last(calls).rec
                   IN  rec.bin = bin => got' = Cells(rec.key, rec.val, bin)]_vars

\* Nothing a session of the database's own format does makes a read, or the
\* loading of the index, fail: the offsets in memory are those on the disk.
NoReadError == st # "error"

\* The offsets tile the files: every indexed record lies in full, unbroken, at
\* its offset in the base or the temporary file, and nothing else does.
OffsetsTile ==
    st = "open" =>
        /\ \A i \in 1..Len(index) :
              LET r == index[i]
              IN  Cells(r.key, r.val, r.bin) =
                      IF r.start < BaseLen
                      THEN ReadAt(base.data, r.start - base.hlen, r.zlen)
                      ELSE ReadAt(tmp.data, r.start - BaseLen, r.zlen)
        /\ SumZLen(index) = Len(base.data) + TmpLen

\* What cachedb.c:44-45 promises: new objects are committed on closure, and with
\* them the database holds exactly the index of the session.
AdditionsCommitted ==
    [][Close /\ mode # "r" /\ index # <<>> =>
          {file'.index[i].key : i \in 1..Len(file'.index)} =
              {index[i].key : i \in 1..Len(index)}]_vars

=============================================================================
