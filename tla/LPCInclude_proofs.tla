------------------------- MODULE LPCInclude_proofs -------------------------
(***************************************************************************)
(* Proofs about the include handler, for any files, names, settings and    *)
(* code.                                                                   *)
(***************************************************************************)
EXTENDS LPCInclude, SequenceTheorems, FiniteSetTheorems, TLAPS

Instruction == [name : Names, once : BOOLEAN]
Code(f)     == [Own[f] -> Instruction]
FrameType   == [file : Files, code : UNION {Code(f) : f \in Files},
                by : {None} \cup (Nat \X Sites), rewrite : BOOLEAN]

\* The names a site may hold: as written, or as resolved at some time.
NameOK(s, n) == n = Operand[s] \/ (n \in Files /\ MayFind(s, n))

\* Code as the compiler or the copy-out leave it.
Fresh(f, code) ==
    /\ code \in Code(f)
    /\ \A s \in Own[f] : code[s].once = (s \in Once) /\ NameOK(s, code[s].name)

\* A name leads to a file by some setting or from some place; a file to itself.
Found(n, f) ==
    /\ f \in Files
    /\ n \in Files => n = f
    /\ (\E e \in Settings : Where[e][n] = f) \/ (\E g \in Files : Beside[g][n] = f)

IndexOK ==
    \A n \in Names : index[n] # None => Fresh(index[n].file, index[n].code) /\ Found(n, index[n].file)

\* The instruction s of level l, and the site that included the file of level i.
SiteOK(l, s) ==
    LET c == frames[l].code
    IN  NameOK(s, c[s].name) /\ (c[s].once => s \in Once)
ByOK(i) ==
    \E l \in 1..(i - 1) : \E s \in Own[frames[l].file] :
        frames[i].by = <<l, s>> /\ (frames[i].rewrite => s \in Once)

FramesOK ==
    /\ frames \in Seq(FrameType)
    /\ frames # <<>> => frames[1].file = Main
    /\ \A l \in 1..Level : frames[l].code \in Code(frames[l].file)
    /\ \A l \in 1..Level : \A s \in Own[frames[l].file] : SiteOK(l, s)
    /\ \A i \in 2..Level : ByOK(i)

\* Before the shutdown, only those of its functions are executed that the script calls.
ShutdownApart ==
    ~down => \A i \in 2..Level : frames[i].rewrite => frames[i].by[2] \notin Shutdown \ Called

\* What RewrittenOnlyInside says, of one instruction.
Well(l, s) ==
    IF frames[l].code[s].once = (s \in Once) THEN Rewriters(l, s) = {}
    ELSE \E i \in 2..Level : Rewriters(l, s) = {i}

Rewriting ==
    \A l \in 1..Level : \A s \in Live(l) :
        (down /\ l = 1 => s \notin Called) => Well(l, s)

IInv ==
    /\ TypeOK
    /\ IndexOK
    /\ FramesOK
    /\ ShutdownApart
    /\ Rewriting

-----------------------------------------------------------------------------
(* Names, files and code.                                                  *)

\* What each way to look a name up may find.
LEMMA Lookups ==
  ASSUME NEW n \in Names, NEW f \in Files, NEW e \in Settings
  PROVE  Where[e][n] \in Files \cup {None} /\ Beside[f][n] \in Files \cup {None}
BY IncludeConstants

LEMMA EngineFound ==
  ASSUME setting \in Settings, NEW n \in Names, NEW g \in Files, EngineFinds(n, g) # None
  PROVE  Found(n, EngineFinds(n, g))
<1>1. EngineFinds(n, g) \in Files
  BY Lookups DEF EngineFinds
<1>2. n \in Files => EngineFinds(n, g) = n
  BY IncludeConstants DEF EngineFinds
<1> QED  BY <1>1, <1>2 DEF Found, EngineFinds

LEMMA FileFound ==
  ASSUME setting \in Settings, IndexOK, NEW n \in Names, NEW g \in Files,
         FileOf(n, EngineFinds(n, g)) # None
  PROVE  Found(n, FileOf(n, EngineFinds(n, g)))
BY EngineFound DEF FileOf, IndexOK

LEMMA NameLeads ==
  ASSUME NEW s \in Sites, NEW n, NEW f, NameOK(s, n), Found(n, f)
  PROVE  f \in Files /\ MayFind(s, f)
<1>1. CASE n = Operand[s]
  BY <1>1 DEF Found, MayFind
<1>2. CASE n \in Files /\ MayFind(s, n)
  BY <1>2 DEF Found
<1> QED  BY <1>1, <1>2 DEF NameOK

LEMMA SiteFacts ==
  ASSUME NEW f \in Files, NEW s \in Own[f]
  PROVE  s \in Sites /\ Operand[s] \in Names
BY IncludeConstants DEF Sites

LEMMA ResolvedIsFresh ==
  ASSUME setting \in Settings, NEW f \in Files, NEW by \in Files \cup {None}
  PROVE  Fresh(f, Written(f)) /\ Fresh(f, Resolved(f, by))
<1>1. Fresh(f, Written(f))
  BY SiteFacts DEF Fresh, Written, Code, Instruction, NameOK
<1>2. ASSUME NEW s \in Own[f], LpcFinds(Operand[s], by) # None
      PROVE  LpcFinds(Operand[s], by) \in Files /\ MayFind(s, LpcFinds(Operand[s], by))
  <2>1. Operand[s] \in Names /\ Main \in Files
    BY SiteFacts, IncludeConstants
  <2>2. LpcFinds(Operand[s], by) \in Files
    BY <1>2, <2>1, Lookups DEF LpcFinds
  <2>3. MayFind(s, LpcFinds(Operand[s], by))
    BY <1>2, <2>1 DEF LpcFinds, MayFind
  <2> QED  BY <2>2, <2>3
<1>3. \A s \in Own[f] : NameOK(s, Resolved(f, by)[s].name) /\ Resolved(f, by)[s].name \in Names
  BY <1>2, SiteFacts, IncludeConstants DEF Resolved, NameOK
<1>4. \A s \in Own[f] : Resolved(f, by)[s].once = (s \in Once)
  BY DEF Resolved
<1>5. Resolved(f, by) \in Code(f)
  <2>1. \A s \in Own[f] : Resolved(f, by)[s] \in Instruction
    <3> TAKE s \in Own[f]
    <3>1. (s \in Once) \in BOOLEAN
      OBVIOUS
    <3> QED  BY <1>3, <3>1 DEF Resolved, Instruction
  <2> QED  BY <2>1 DEF Resolved, Code
<1> QED  BY <1>1, <1>3, <1>4, <1>5 DEF Fresh

LEMMA CodeIsFresh ==
  ASSUME setting \in Settings, IndexOK, NEW n \in Names, NEW f \in Files,
         NEW by \in Files \cup {None}, index[n] # None => f = index[n].file,
         NEW code \in CodeOf(n, f, by)
  PROVE  Fresh(f, code)
BY ResolvedIsFresh DEF CodeOf, IndexOK

LEMMA CompileKeeps ==
  ASSUME TypeOK, IndexOK, NEW n \in Names, NEW f \in Files, NEW by, NEW code,
         Fresh(f, code), Found(n, f), Compile(n, f, by, code)
  PROVE  IndexOK' /\ index' \in [Names -> Entries \cup {None}]
<1>1. CASE UNCHANGED index
  BY <1>1 DEF TypeOK, IndexOK
<1>2. CASE index' = [index EXCEPT ![n] = [file |-> f, code |-> code]]
  <2>1. [file |-> f, code |-> code] \in Entries
    BY DEF Entries, Fresh, Code, Instruction
  <2>2. index' \in [Names -> Entries \cup {None}]
    BY <1>2, <2>1 DEF TypeOK
  <2>3. IndexOK'
    BY <1>2 DEF TypeOK, IndexOK
  <2> QED  BY <2>2, <2>3
<1> QED  BY <1>1, <1>2 DEF Compile

-----------------------------------------------------------------------------
(* Frames.                                                                 *)

\* g is q, but that the instruction s of level l reads _once, or not.
SetSite(q, g, l, s, v) ==
    /\ g \in Seq(FrameType) /\ Len(g) = Len(q)
    /\ \A i \in 1..Len(q) :
          /\ g[i].file = q[i].file /\ g[i].by = q[i].by /\ g[i].rewrite = q[i].rewrite
          /\ g[i].code \in Code(q[i].file)
          /\ \A t \in Own[q[i].file] :
                /\ g[i].code[t].name = q[i].code[t].name
                /\ g[i].code[t].once = IF i = l /\ t = s THEN v ELSE q[i].code[t].once

LEMMA SiteIsSet ==
  ASSUME NEW q \in Seq(FrameType), \A i \in 1..Len(q) : q[i].code \in Code(q[i].file),
         NEW l \in 1..Len(q), NEW s \in Own[q[l].file], NEW v \in BOOLEAN
  PROVE  SetSite(q, [q EXCEPT ![l].code[s].once = v], l, s, v)
<1> DEFINE c == [q[l].code EXCEPT ![s].once = v]
           r == [q[l] EXCEPT !.code = c]
           g == [q EXCEPT ![l] = r]
<1>1. q[l] \in FrameType /\ q[l].file \in Files /\ q[l].code \in Code(q[l].file)
  <2>1. q[l] \in FrameType
    OBVIOUS
  <2> QED  BY <2>1 DEF FrameType
<1>2. c \in Code(q[l].file)
  BY <1>1 DEF Code, Instruction
<1>3. /\ r \in FrameType /\ r.file = q[l].file /\ r.by = q[l].by /\ r.rewrite = q[l].rewrite
      /\ r.code = c
  <2> HIDE DEF c
  <2> QED  BY <1>1, <1>2 DEF FrameType
<1>4. \A t \in Own[q[l].file] : c[t].name = q[l].code[t].name
                             /\ c[t].once = IF t = s THEN v ELSE q[l].code[t].once
  BY <1>1 DEF Code, Instruction
<1>5. g \in Seq(FrameType) /\ Len(g) = Len(q) /\ \A i \in 1..Len(q) : g[i] = IF i = l THEN r ELSE q[i]
  <2> HIDE DEF r
  <2> QED  BY <1>3
<1>6. SetSite(q, g, l, s, v)
  <2> HIDE DEF g, r, c
  <2> QED  BY <1>2, <1>3, <1>4, <1>5 DEF SetSite
<1> QED  BY <1>6

\* A site that may come next.
LEMMA Reachable ==
  ASSUME FramesOK, NEW x \in Reach
  PROVE  \E l \in 1..Level : \E s \in Own[frames[l].file] :
            /\ x = <<l, s>>
            /\ s \notin Funcs => l = Level /\ ~(down /\ l = 1)
            /\ l = 1 /\ ~down => s \in Live(1)
            /\ l > 1 => s \in Live(l) /\ s \notin Funcs
            /\ s \in Funcs => l = 1 /\ (s \in Called \/ (down /\ s \in Shutdown))
<1>1. frames # <<>> /\ Level \in Nat \ {0}
  BY DEF Reach, FramesOK, Level
<1>2. Top \in FrameType /\ Top.file \in Files /\ frames[1].file = Main
  <2>1. Top \in FrameType
    BY <1>1 DEF FramesOK, Top, Level
  <2> QED  BY <1>1, <2>1 DEF FramesOK, FrameType
<1>3. Funcs \subseteq Own[Main] /\ Shutdown \subseteq Funcs /\ Calls[Top.file] \subseteq Funcs
  BY <1>2, IncludeConstants
<1>4. CASE Level = 1 /\ down
  <2>1. PICK s \in Shutdown : x = <<1, s>>
    BY <1>1, <1>4 DEF Reach
  <2> QED  BY <1>2, <1>3, <1>4, <2>1
<1>5. CASE ~(Level = 1 /\ down)
  <2>1. CASE \E s \in Own[Top.file] \ Funcs : x = <<Level, s>>
    <3>1. PICK s \in Own[Top.file] \ Funcs : x = <<Level, s>>
      BY <2>1
    <3>2. frames[Level] = Top /\ s \in Live(Level) /\ s \notin Shutdown
      BY <1>3, <1>5 DEF Live, Top
    <3> QED  BY <1>1, <1>5, <3>1, <3>2
  <2>2. CASE \E s \in Calls[Top.file] : x = <<1, s>>
    <3>1. PICK s \in Calls[Top.file] : x = <<1, s>>
      BY <2>2
    <3>2. s \in Called
      BY <1>2, <3>1 DEF Called
    <3> QED  BY <1>1, <1>2, <1>3, <3>1, <3>2 DEF Live
  <2> QED  BY <1>1, <1>5, <2>1, <2>2 DEF Reach
<1> QED  BY <1>4, <1>5

\* What every frame is, and the code in it.
LEMMA FrameFacts ==
  ASSUME TypeOK, FramesOK, NEW l \in 1..Level
  PROVE  /\ frames[l] \in FrameType /\ frames[l].file \in Files
         /\ \A s \in Own[frames[l].file] :
               /\ s \in Sites /\ frames[l].code[s] \in Instruction
               /\ frames[l].code[s].name \in Names
<1>1. frames[l] \in FrameType
  BY DEF FramesOK, Level
<1>2. frames[l].file \in Files
  BY <1>1 DEF FrameType
<1>3. \A s \in Own[frames[l].file] : s \in Sites /\ frames[l].code[s] \in Instruction
  BY <1>2, SiteFacts DEF FramesOK, Code
<1> QED  BY <1>1, <1>2, <1>3 DEF Instruction

\* What Load does, of a name that a site holds: nothing but a fresh copy of the code
\* of a file comes into execution, and the site is rewritten or left as it is.
Loaded(l, s, rewrite, f, code, g) ==
    /\ f \in Files /\ Fresh(f, code) /\ MayFind(s, f)
    /\ SetSite(frames, g, l, s, IF rewrite THEN FALSE ELSE frames[l].code[s].once)
    /\ frames' = Append(g, [file |-> f, code |-> code, by |-> <<l, s>>, rewrite |-> rewrite])
    /\ included' = included \cup {f}
    /\ executed' = [executed EXCEPT ![f] = IF @ = 2 THEN 2 ELSE @ + 1]

LEMMA LoadDoes ==
  ASSUME IInv, NEW l \in 1..Level, NEW s \in Own[frames[l].file], NEW n \in Names,
         \A f : Found(n, f) => MayFind(s, f), NEW rewrite \in BOOLEAN,
         Load(<<l, s>>, n, rewrite)
  PROVE  /\ \E f, code, g :
               /\ Loaded(l, s, rewrite, f, code, g) /\ Found(n, f)
               /\ f = FileOf(n, EngineFinds(n, frames[l].file))
               /\ code \in CodeOf(n, f, frames[l].file)
               /\ \/ UNCHANGED index
                  \/ index[n] = None /\ index' = [index EXCEPT ![n] = [file |-> f, code |-> code]]
         /\ IndexOK' /\ index' \in [Names -> Entries \cup {None}]
         /\ Level < MaxDepth /\ UNCHANGED <<setting, down>>
<1> DEFINE by == frames[l].file
           f == FileOf(n, EngineFinds(n, by))
           base == IF rewrite THEN [frames EXCEPT ![l].code[s].once = FALSE] ELSE frames
<1> USE DEF IInv
<1>1. /\ f # None /\ Level < MaxDepth /\ UNCHANGED <<setting, down>>
      /\ included' = included \cup {f}
      /\ executed' = [executed EXCEPT ![f] = IF @ = 2 THEN 2 ELSE @ + 1]
  BY DEF Load, Count
<1>2. PICK code \in CodeOf(n, f, by) :
        /\ Compile(n, f, by, code)
        /\ frames' = Append(base, [file |-> f, code |-> code, by |-> <<l, s>>, rewrite |-> rewrite])
  BY DEF Load
<1>3. by \in Files /\ setting \in Settings
  BY FrameFacts DEF TypeOK
<1>4. Found(n, f)
  BY <1>1, <1>3, FileFound
<1>5. f \in Files /\ MayFind(s, f)
  BY <1>4 DEF Found
<1>6. index[n] # None => f = index[n].file
  BY DEF FileOf
<1>7. Fresh(f, code)
  <2> HIDE DEF f, by
  <2> QED  BY <1>2, <1>3, <1>5, <1>6, CodeIsFresh
<1>8. IndexOK' /\ index' \in [Names -> Entries \cup {None}]
  <2> HIDE DEF f, by
  <2> QED  BY <1>2, <1>4, <1>5, <1>7, CompileKeeps
<1>9. SetSite(frames, base, l, s, IF rewrite THEN FALSE ELSE frames[l].code[s].once)
  <2>1. CASE rewrite
    <3>1. base = [frames EXCEPT ![l].code[s].once = FALSE]
      BY <2>1
    <3>2. SetSite(frames, [frames EXCEPT ![l].code[s].once = FALSE], l, s, FALSE)
      BY SiteIsSet DEF FramesOK, Level
    <3> QED  BY <2>1, <3>1, <3>2
  <2>2. CASE ~rewrite
    <3>1. base = frames
      BY <2>2
    <3>2. SetSite(frames, frames, l, s, frames[l].code[s].once)
      BY DEF SetSite, FramesOK, Level
    <3> QED  BY <2>2, <3>1, <3>2
  <2> QED  BY <2>1, <2>2
<1>10. Loaded(l, s, rewrite, f, code, base)
  <2> HIDE DEF f, base
  <2> QED  BY <1>1, <1>2, <1>5, <1>7, <1>9 DEF Loaded
<1>11. UNCHANGED index \/ (index[n] = None /\ index' = [index EXCEPT ![n] = [file |-> f, code |-> code]])
  BY <1>2 DEF Compile
<1> QED
  <2> HIDE DEF f, base
  <2>1. f = FileOf(n, EngineFinds(n, frames[l].file))
    BY DEF f
  <2>2. code \in CodeOf(n, f, frames[l].file)
    BY <1>2 DEF by
  <2> QED  BY <1>1, <1>4, <1>8, <1>10, <1>11, <2>1, <2>2

\* The frames after a load.
Pushed(l, s, rewrite, f, code) ==
    /\ Level \in Nat /\ Level' = Level + 1
    /\ \A i \in 1..Level :
          /\ frames'[i].file = frames[i].file /\ frames'[i].by = frames[i].by
          /\ frames'[i].rewrite = frames[i].rewrite
          /\ \A t \in Own[frames[i].file] :
                /\ frames'[i].code[t].name = frames[i].code[t].name
                /\ frames'[i].code[t].once =
                      IF i = l /\ t = s /\ rewrite THEN FALSE ELSE frames[i].code[t].once
    /\ LET new == frames'[Level + 1]
       IN  new.file = f /\ new.code = code /\ new.by = <<l, s>> /\ new.rewrite = rewrite
    /\ FramesOK'

LEMMA FramesPushed ==
  ASSUME IInv, NEW l \in 1..Level, NEW s \in Own[frames[l].file], NEW rewrite \in BOOLEAN,
         rewrite => s \in Once,
         NEW f, NEW code, NEW g, Loaded(l, s, rewrite, f, code, g)
  PROVE  Pushed(l, s, rewrite, f, code)
<1> DEFINE new == [file |-> f, code |-> code, by |-> <<l, s>>, rewrite |-> rewrite]
<1> USE DEF IInv
<1>1. Level \in Nat /\ Len(g) = Level /\ g \in Seq(FrameType) /\ frames # <<>>
  BY DEF Loaded, SetSite, FramesOK, Level
<1>2. s \in Sites /\ l \in Nat /\ f \in Files /\ code \in Code(f)
  BY <1>1, FrameFacts DEF Loaded, Fresh
<1>3. new \in FrameType /\ new.file = f /\ new.code = code /\ new.by = <<l, s>> /\ new.rewrite = rewrite
  BY <1>2 DEF FrameType
<1>4. /\ frames' \in Seq(FrameType) /\ Level' = Level + 1
      /\ frames'[Level + 1] = new /\ \A i \in 1..Level : frames'[i] = g[i]
  <2> HIDE DEF new
  <2>1. frames' = Append(g, new)
    BY DEF Loaded, new
  <2> QED  BY SMTT(30), <1>1, <1>3, <2>1 DEF Level
<1> HIDE DEF IInv, new
<1>5. ASSUME NEW i \in 1..Level
      PROVE  /\ frames'[i].file = frames[i].file /\ frames'[i].by = frames[i].by
             /\ frames'[i].rewrite = frames[i].rewrite
             /\ frames'[i].code \in Code(frames[i].file)
             /\ \A t \in Own[frames[i].file] :
                   /\ frames'[i].code[t].name = frames[i].code[t].name
                   /\ frames'[i].code[t].once =
                          IF i = l /\ t = s /\ rewrite THEN FALSE ELSE frames[i].code[t].once
  <2> DEFINE v == IF rewrite THEN FALSE ELSE frames[l].code[s].once
  <2>1. SetSite(frames, g, l, s, v)
    BY DEF Loaded
  <2>2. frames'[i] = g[i]
    BY <1>4
  <2>3. /\ g[i].file = frames[i].file /\ g[i].by = frames[i].by
        /\ g[i].rewrite = frames[i].rewrite
        /\ g[i].code \in Code(frames[i].file)
        /\ \A t \in Own[frames[i].file] :
              /\ g[i].code[t].name = frames[i].code[t].name
              /\ g[i].code[t].once = IF i = l /\ t = s THEN v ELSE frames[i].code[t].once
    <3> HIDE DEF v
    <3> QED  BY <2>1 DEF SetSite, Level
  <2> QED  BY <2>2, <2>3
<1>6. \A i \in 1..Level' : frames'[i].code \in Code(frames'[i].file)
  <2> SUFFICES ASSUME NEW i \in 1..Level' PROVE frames'[i].code \in Code(frames'[i].file)
    OBVIOUS
  <2>1. CASE i \in 1..Level
    BY <1>5, <2>1
  <2>2. CASE i = Level + 1
    BY <1>2, <1>3, <1>4, <2>2
  <2> QED  BY <1>1, <1>4, <2>1, <2>2
<1>7. \A i \in 1..Level' : \A t \in Own[frames'[i].file] : SiteOK(i, t)'
  <2> SUFFICES ASSUME NEW i \in 1..Level', NEW t \in Own[frames'[i].file] PROVE SiteOK(i, t)'
    OBVIOUS
  <2>1. CASE i \in 1..Level
    <3>0. t \in Own[frames[i].file]
      BY <1>5, <2>1
    <3>1. SiteOK(i, t) /\ frames'[i].code[t].name = frames[i].code[t].name
      BY <1>5, <2>1, <3>0 DEF FramesOK, IInv
    <3>2. frames'[i].code[t].once => frames[i].code[t].once
      BY <1>5, <2>1, <3>0
    <3> QED  BY <3>1, <3>2 DEF SiteOK, NameOK, MayFind
  <2>2. CASE i = Level + 1
    <3>1. Fresh(f, code) /\ frames'[i].code = code /\ t \in Own[f]
      BY <1>3, <1>4, <2>2 DEF Loaded
    <3> QED  BY <3>1 DEF Fresh, SiteOK, NameOK, MayFind
  <2> QED  BY SMTT(30), <1>1, <1>4, <2>1, <2>2
<1>8. \A i \in 2..Level' : ByOK(i)'
  <2> SUFFICES ASSUME NEW i \in 2..Level' PROVE ByOK(i)'
    OBVIOUS
  <2>1. CASE i \in 2..Level
    <3>1. PICK k \in 1..(i - 1) : \E t \in Own[frames[k].file] :
              frames[i].by = <<k, t>> /\ (frames[i].rewrite => t \in Once)
      BY <2>1 DEF FramesOK, ByOK, IInv
    <3>2. k \in 1..Level /\ i \in 1..Level
      BY <1>1, <2>1, <3>1
    <3>3. frames'[k].file = frames[k].file /\ frames'[i].by = frames[i].by
          /\ frames'[i].rewrite = frames[i].rewrite
      BY <1>5, <3>2
    <3> QED  BY <3>1, <3>3 DEF ByOK
  <2>2. CASE i = Level + 1
    <3>1. l \in 1..(i - 1)
      BY <1>1, <2>2
    <3>2. s \in Own[frames'[l].file]
      BY <1>5
    <3> QED  BY <1>3, <1>4, <2>2, <3>1, <3>2 DEF ByOK
  <2> QED  BY <1>1, <1>4, <2>1, <2>2
<1>9. frames'[1].file = Main
  <2>1. 1 \in 1..Level
    BY <1>1
  <2> QED  BY <1>1, <1>5, <2>1 DEF FramesOK, IInv
<1>10. FramesOK'
  BY <1>4, <1>6, <1>7, <1>8, <1>9 DEF FramesOK
<1> QED  BY <1>1, <1>3, <1>4, <1>5, <1>10 DEF Pushed

\* The instructions of a file that has just come into execution have rewritten nothing.
LEMMA RewritersPushed ==
  ASSUME IInv, NEW l \in 1..Level, NEW s \in Own[frames[l].file], NEW rewrite \in BOOLEAN,
         rewrite => s \in Once,
         NEW f, NEW code, NEW g, Loaded(l, s, rewrite, f, code, g)
  PROVE  /\ \A k \in 1..Level, t \in Sites : Rewriters(k, t)' =
               IF k = l /\ t = s /\ rewrite THEN Rewriters(k, t) \cup {Level + 1}
               ELSE Rewriters(k, t)
         /\ \A k \in Nat, t \in Sites : k > Level => Rewriters(k, t)' = {}
<1>1. /\ Level \in Nat /\ Level' = Level + 1 /\ FramesOK'
      /\ \A i \in 1..Level : frames'[i].by = frames[i].by /\ frames'[i].rewrite = frames[i].rewrite
      /\ frames'[Level + 1].by = <<l, s>> /\ frames'[Level + 1].rewrite = rewrite
  <2>1. Pushed(l, s, rewrite, f, code)
    BY FramesPushed
  <2> QED  BY <2>1 DEF Pushed
<1>2. Level >= 1 /\ 2..Level' = (2..Level) \cup {Level + 1} /\ 2..Level \subseteq 1..Level
  BY <1>1
<1>3. \A k \in 1..Level, t \in Sites : Rewriters(k, t)' =
         IF k = l /\ t = s /\ rewrite THEN Rewriters(k, t) \cup {Level + 1} ELSE Rewriters(k, t)
  BY <1>1, <1>2 DEF Rewriters
<1>4. ASSUME NEW k \in Nat, NEW t \in Sites, k > Level PROVE Rewriters(k, t)' = {}
  <2>1. ASSUME NEW i \in 2..Level', frames'[i].by = <<k, t>> PROVE FALSE
    <3>1. PICK j \in 1..(i - 1) : \E u \in Own[frames'[j].file] : frames'[i].by = <<j, u>>
      BY <1>1 DEF FramesOK, ByOK
    <3> QED  BY <1>1, <1>4, <2>1, <3>1
  <2> QED  BY <2>1 DEF Rewriters
<1> QED  BY <1>3, <1>4

LEMMA LoadKeeps ==
  ASSUME IInv, NEW x \in Reach, NEW n \in Names, NEW rewrite \in BOOLEAN,
         Load(x, n, rewrite), rewrite => Instr(x).once,
         \A f : Found(n, f) => MayFind(x[2], f)
  PROVE  IInv'
<1>0. TypeOK /\ IndexOK /\ FramesOK /\ ShutdownApart /\ Rewriting
  BY DEF IInv
<1>19. PICK l \in 1..Level : \E s \in Own[frames[l].file] :
        /\ x = <<l, s>>
        /\ l = 1 /\ ~down => s \in Live(1)
        /\ l > 1 => s \in Live(l) /\ s \notin Funcs
        /\ s \in Funcs => l = 1 /\ (s \in Called \/ (down /\ s \in Shutdown))
  BY <1>0, Reachable
<1>1. PICK s \in Own[frames[l].file] :
        /\ x = <<l, s>>
        /\ l = 1 /\ ~down => s \in Live(1)
        /\ l > 1 => s \in Live(l) /\ s \notin Funcs
        /\ s \in Funcs => l = 1 /\ (s \in Called \/ (down /\ s \in Shutdown))
  BY <1>19
<1>2. rewrite => s \in Once /\ frames[l].code[s].once = TRUE
  <2>1. SiteOK(l, s) /\ frames[l].code[s] \in Instruction
    BY <1>0, <1>1, FrameFacts DEF FramesOK
  <2> QED  BY <1>1, <2>1 DEF SiteOK, Instr, Instruction
<1>3. Load(<<l, s>>, n, rewrite) /\ \A f : Found(n, f) => MayFind(s, f)
  BY <1>1
<1>4. IndexOK' /\ index' \in [Names -> Entries \cup {None}] /\ Level < MaxDepth /\ UNCHANGED <<setting, down>>
  BY <1>3, LoadDoes
<1>20. PICK f, code, g : Loaded(l, s, rewrite, f, code, g)
  BY <1>3, LoadDoes
<1>21. Pushed(l, s, rewrite, f, code)
  BY <1>2, <1>20, FramesPushed
<1>5. /\ Level \in Nat /\ Level' = Level + 1
      /\ \A i \in 1..Level :
            /\ frames'[i].file = frames[i].file /\ frames'[i].by = frames[i].by
            /\ frames'[i].rewrite = frames[i].rewrite
            /\ \A t \in Own[frames[i].file] :
                  frames'[i].code[t].once =
                      IF i = l /\ t = s /\ rewrite THEN FALSE ELSE frames[i].code[t].once
      /\ LET new == frames'[Level + 1]
         IN  new.file = f /\ new.code = code /\ new.by = <<l, s>> /\ new.rewrite = rewrite
      /\ FramesOK'
  BY <1>21 DEF Pushed
<1>22. /\ \A k \in 1..Level, t \in Sites : Rewriters(k, t)' =
            IF k = l /\ t = s /\ rewrite THEN Rewriters(k, t) \cup {Level + 1} ELSE Rewriters(k, t)
      /\ \A k \in Nat, t \in Sites : k > Level => Rewriters(k, t)' = {}
  BY <1>2, <1>20, RewritersPushed
<1>6. TypeOK'
  <2>1. f \in Files /\ included' = included \cup {f}
        /\ executed' = [executed EXCEPT ![f] = IF @ = 2 THEN 2 ELSE @ + 1]
    BY <1>20 DEF Loaded
  <2>2. executed' \in [Files -> 0..2]
    BY <1>0, <2>1 DEF TypeOK
  <2> QED  BY <1>0, <1>4, <1>5, <2>1, <2>2, IncludeConstants DEF TypeOK, Level
<1>7. ShutdownApart'
  <2> SUFFICES ASSUME ~down, NEW i \in 2..Level', frames'[i].rewrite
               PROVE  frames'[i].by[2] \notin Shutdown \ Called
    BY <1>4 DEF ShutdownApart
  <2>1. CASE i \in 2..Level
    <3>1. i \in 1..Level /\ frames'[i].by = frames[i].by /\ frames'[i].rewrite = frames[i].rewrite
      <4>1. i \in 1..Level
        BY <1>5, <2>1
      <4>2. \A j \in 1..Level : frames'[j].by = frames[j].by /\ frames'[j].rewrite = frames[j].rewrite
        BY <1>5
      <4> QED  BY <4>1, <4>2
    <3>2. frames[i].rewrite
      BY <3>1
    <3> QED  BY <1>0, <2>1, <3>1, <3>2 DEF ShutdownApart
  <2>2. CASE i = Level + 1
    <3>1. rewrite /\ frames'[i].by[2] = s /\ s \in Once
      BY <1>2, <1>5, <2>2
    <3>2. l > 1 => s \notin Shutdown
      BY <1>1, IncludeConstants
    <3>3. l = 1 => s \notin Shutdown \ Called
      BY <1>1, IncludeConstants
    <3> QED  BY <1>5, <3>1, <3>2, <3>3
  <2> QED  BY <1>5, <2>1, <2>2
<1>8. Rewriting'
  <2> SUFFICES ASSUME NEW k \in 1..Level', NEW t \in Live(k)', down /\ k = 1 => t \notin Called
               PROVE  Well(k, t)'
    BY <1>4 DEF Rewriting
  <2>1. CASE k = Level + 1
    <3>1. k # 1 /\ t \in Own[f] /\ frames'[k].code = code
      BY <1>5, <2>1 DEF Live
    <3>2. Fresh(f, code) /\ f \in Files
      BY <1>20 DEF Loaded
    <3>3. t \in Sites /\ code[t].once = (t \in Once)
      BY <3>1, <3>2, SiteFacts DEF Fresh
    <3>4. Rewriters(k, t)' = {}
      BY <1>5, <1>22, <2>1, <3>3
    <3> QED  BY <3>1, <3>3, <3>4 DEF Well
  <2>2. CASE k \in 1..Level
    <3>1. t \in Live(k) /\ t \in Own[frames[k].file]
      <4>1. k = 1 => frames[1].file = Main
        <5>1. k = 1 => frames # <<>>
          BY <1>5, <2>2 DEF Level
        <5> QED  BY <1>0, <5>1 DEF FramesOK
      <4> QED  BY <1>4, <1>5, <2>2, <4>1, IncludeConstants DEF Live
    <3>2. Well(k, t) /\ t \in Sites
      BY <1>0, <1>4, <2>2, <3>1, FrameFacts DEF Rewriting
    <3>3. CASE k = l /\ t = s /\ rewrite
      <4>1. Rewriters(k, t) = {}
        BY <1>2, <3>2, <3>3 DEF Well
      <4>2. Rewriters(k, t)' = {Level + 1}
        BY <1>22, <2>2, <3>2, <3>3, <4>1
      <4>3. frames'[k].code[t].once = FALSE
        <5>1. frames'[k].code[t].once = IF k = l /\ t = s /\ rewrite THEN FALSE ELSE frames[k].code[t].once
          BY <1>5, <2>2, <3>1
        <5> QED  BY <3>3, <5>1
      <4>4. t \in Once /\ Level + 1 \in 2..Level'
        BY <1>2, <1>5, <3>3
      <4> QED  BY <4>2, <4>3, <4>4 DEF Well
    <3>4. CASE ~(k = l /\ t = s /\ rewrite)
      <4>1. Rewriters(k, t)' = Rewriters(k, t)
        BY <1>22, <2>2, <3>2, <3>4
      <4>2. frames'[k].code[t].once = frames[k].code[t].once
        BY <1>5, <2>2, <3>1, <3>4
      <4>3. 2..Level \subseteq 2..Level'
        BY <1>5
      <4> QED  BY <3>2, <4>1, <4>2, <4>3 DEF Well
    <3> QED  BY <3>3, <3>4
  <2> QED  BY <1>5, <2>1, <2>2
<1> QED  BY <1>4, <1>5, <1>6, <1>7, <1>8 DEF IInv

-----------------------------------------------------------------------------
(* The actions.                                                            *)

\* A plain include, one made plain, and an include_once left as it is.
LEMMA IncludeKeeps ==
  ASSUME IInv, NEW x \in Reach, Include(x) \/ IncludeOnce(x)
  PROVE  IInv'
<1>1. TypeOK /\ FramesOK
  BY DEF IInv
<1>2. PICK l \in 1..Level : \E s \in Own[frames[l].file] : x = <<l, s>>
  BY <1>1, Reachable
<1>3. PICK s \in Own[frames[l].file] : x = <<l, s>>
  BY <1>2
<1>4. /\ Instr(x) \in Instruction /\ Instr(x).name \in Names /\ frames[l].file \in Files
      /\ s \in Sites /\ NameOK(s, Instr(x).name)
  BY <1>1, <1>3, FrameFacts DEF FramesOK, SiteOK, Instr
<1>5. CASE Include(x)
  <2>1. Rewrites(x) \in BOOLEAN /\ (Rewrites(x) => Instr(x).once)
    BY DEF Rewrites
  <2>2. \A f : Found(Instr(x).name, f) => MayFind(x[2], f)
    BY <1>3, <1>4, NameLeads
  <2>3. Load(x, Instr(x).name, Rewrites(x))
    BY <1>5 DEF Include
  <2> HIDE DEF Rewrites
  <2> QED  BY <1>4, <2>1, <2>2, <2>3, LoadKeeps
<1>6. CASE IncludeOnce(x)
  <2> DEFINE n == Instr(x).name
             f == EngineFinds(n, frames[l].file)
  <2>1. f # None /\ Load(x, f, FALSE)
    BY <1>3, <1>6 DEF IncludeOnce
  <2>2. Found(n, f)
    BY <1>1, <1>4, <2>1, EngineFound DEF TypeOK
  <2>3. f \in Files /\ f \in Names /\ MayFind(s, f)
    BY <1>4, <2>2, NameLeads, IncludeConstants
  <2>4. \A g : Found(f, g) => MayFind(x[2], g)
    BY <1>3, <2>3 DEF Found
  <2> HIDE DEF f
  <2> QED  BY <2>1, <2>3, <2>4, LoadKeeps
<1> QED  BY <1>5, <1>6

\* What Return does: the last file is gone, and the site that included it is restored.
Returned(l, s) ==
    /\ frames[Level].by = <<l, s>>
    /\ frames[Level].rewrite => s \in Once
    /\ Level \in Nat /\ Level > 1 /\ Level' = Level - 1
    /\ frames' \in Seq(FrameType)
    /\ \A i \in 1..(Level - 1) :
          /\ frames'[i].file = frames[i].file /\ frames'[i].by = frames[i].by
          /\ frames'[i].rewrite = frames[i].rewrite
          /\ frames'[i].code \in Code(frames[i].file)
          /\ \A t \in Own[frames[i].file] :
                /\ frames'[i].code[t].name = frames[i].code[t].name
                /\ frames'[i].code[t].once =
                      IF i = l /\ t = s /\ frames[Level].rewrite THEN TRUE
                      ELSE frames[i].code[t].once

LEMMA ReturnDoes ==
  ASSUME IInv, Return
  PROVE  \E l \in 1..(Level - 1) : \E s \in Own[frames[l].file] : Returned(l, s)
<1> DEFINE q == Front(frames)
<1>1. FramesOK /\ frames \in Seq(FrameType) /\ Level \in Nat /\ Level > 1 /\ Level \in 2..Level
  BY DEF IInv, FramesOK, Return, Level
<1>2. q \in Seq(FrameType) /\ Len(q) = Level - 1 /\ \A i \in 1..(Level - 1) : q[i] = frames[i]
  BY <1>1 DEF Front, Level
<1>3. PICK l \in 1..(Level - 1) : \E s \in Own[frames[l].file] :
            frames[Level].by = <<l, s>> /\ (frames[Level].rewrite => s \in Once)
  BY <1>1 DEF FramesOK, ByOK
<1>4. PICK s \in Own[frames[l].file] :
            frames[Level].by = <<l, s>> /\ (frames[Level].rewrite => s \in Once)
  BY <1>3
<1>5. \A i \in 1..Len(q) : q[i].code \in Code(q[i].file)
  BY <1>1, <1>2 DEF FramesOK
<1>6. l \in 1..Len(q) /\ s \in Own[q[l].file]
  BY <1>1, <1>2
<1>7. SetSite(q, frames', l, s, IF frames[Level].rewrite THEN TRUE ELSE q[l].code[s].once)
  <2>1. CASE frames[Level].rewrite
    <3>1. frames' = [q EXCEPT ![l].code[s].once = TRUE]
      BY <1>4, <2>1 DEF Return, Top
    <3> HIDE DEF q
    <3>2. SetSite(q, [q EXCEPT ![l].code[s].once = TRUE], l, s, TRUE)
      BY <1>2, <1>5, <1>6, SiteIsSet
    <3> QED  BY <2>1, <3>1, <3>2
  <2>2. CASE ~frames[Level].rewrite
    <3>1. frames' = q
      BY <2>2 DEF Return, Top
    <3> HIDE DEF q
    <3>2. SetSite(q, q, l, s, q[l].code[s].once)
      BY <1>2, <1>5 DEF SetSite
    <3> QED  BY <2>2, <3>1, <3>2
  <2> QED  BY <2>1, <2>2
<1> HIDE DEF q
<1>8. Level' = Level - 1 /\ frames' \in Seq(FrameType)
  BY <1>2, <1>7 DEF SetSite, Level
<1>9. ASSUME NEW i \in 1..(Level - 1)
      PROVE  /\ frames'[i].file = frames[i].file /\ frames'[i].by = frames[i].by
             /\ frames'[i].rewrite = frames[i].rewrite
             /\ frames'[i].code \in Code(frames[i].file)
             /\ \A t \in Own[frames[i].file] :
                   /\ frames'[i].code[t].name = frames[i].code[t].name
                   /\ frames'[i].code[t].once =
                         IF i = l /\ t = s /\ frames[Level].rewrite THEN TRUE
                         ELSE frames[i].code[t].once
  <2> DEFINE v == IF frames[Level].rewrite THEN TRUE ELSE q[l].code[s].once
  <2>1. SetSite(q, frames', l, s, v) /\ i \in 1..Len(q) /\ q[i] = frames[i] /\ q[l] = frames[l]
    BY <1>1, <1>2, <1>7
  <2>2. /\ frames'[i].file = frames[i].file /\ frames'[i].by = frames[i].by
        /\ frames'[i].rewrite = frames[i].rewrite
        /\ frames'[i].code \in Code(frames[i].file)
        /\ \A t \in Own[frames[i].file] :
              /\ frames'[i].code[t].name = frames[i].code[t].name
              /\ frames'[i].code[t].once = IF i = l /\ t = s THEN v ELSE frames[i].code[t].once
    <3> HIDE DEF v
    <3> QED  BY <2>1 DEF SetSite
  <2> QED  BY <2>1, <2>2
<1> QED  BY <1>1, <1>4, <1>8, <1>9 DEF Returned

LEMMA ReturnKeeps ==
  ASSUME IInv, Return
  PROVE  IInv'
<1>0. TypeOK /\ IndexOK /\ FramesOK /\ ShutdownApart /\ Rewriting
  BY DEF IInv
<1>1. UNCHANGED <<index, included, setting, down, executed>>
  BY DEF Return
<1>2. PICK l \in 1..(Level - 1) : \E s \in Own[frames[l].file] : Returned(l, s)
  BY ReturnDoes
<1>3. PICK s \in Own[frames[l].file] : Returned(l, s)
  BY <1>2
<1>4. Level' \in Nat /\ Level' >= 1 /\ Level \in Nat /\ Level' = Level - 1 /\ l \in 1..Level'
  BY <1>3 DEF Returned
<1>13. /\ \A i \in 1..Level' : i \in 1..(Level - 1) /\ i \in 1..Level
       /\ \A i \in 2..Level' : i \in 1..Level' /\ i \in 2..Level
  BY <1>4
<1>5. \A i \in 1..Level' :
         /\ i \in 1..Level
         /\ frames'[i].file = frames[i].file /\ frames'[i].by = frames[i].by
         /\ frames'[i].rewrite = frames[i].rewrite
         /\ frames'[i].code \in Code(frames[i].file)
         /\ \A t \in Own[frames[i].file] :
               /\ frames'[i].code[t].name = frames[i].code[t].name
               /\ frames'[i].code[t].once =
                     IF i = l /\ t = s /\ frames[Level].rewrite THEN TRUE
                     ELSE frames[i].code[t].once
  BY <1>3, <1>13 DEF Returned
<1>6. /\ frames[Level].by = <<l, s>> /\ (frames[Level].rewrite => s \in Once)
      /\ frames' \in Seq(FrameType) /\ s \in Own[frames[l].file]
  BY <1>3 DEF Returned
<1>7. TypeOK'
  BY <1>0, <1>1, <1>4, IncludeConstants DEF TypeOK, Level
<1>8. IndexOK'
  BY <1>0, <1>1 DEF IndexOK
<1>9. FramesOK'
  <2>1. frames'[1].file = Main
    <3>1. frames # <<>> /\ 1 \in 1..Level'
      BY <1>4 DEF Level
    <3> QED  BY <1>0, <1>5, <3>1 DEF FramesOK
  <2>2. \A k \in 1..Level' : frames'[k].code \in Code(frames'[k].file)
    BY <1>5
  <2>3. ASSUME NEW k \in 1..Level', NEW t \in Own[frames'[k].file] PROVE SiteOK(k, t)'
    <3>1. t \in Own[frames[k].file] /\ SiteOK(k, t) /\ frames'[k].code[t].name = frames[k].code[t].name
      BY <1>0, <1>5, <2>3 DEF FramesOK
    <3>2. frames'[k].code[t].once => t \in Once
      <4>1. frames'[k].code[t].once = IF k = l /\ t = s /\ frames[Level].rewrite THEN TRUE
                                     ELSE frames[k].code[t].once
        BY <1>5, <2>3, <3>1
      <4> QED  BY <1>6, <3>1, <4>1 DEF SiteOK
    <3> QED  BY <3>1, <3>2 DEF SiteOK, NameOK, MayFind
  <2>4. ASSUME NEW i \in 2..Level' PROVE ByOK(i)'
    <3>1. i \in 1..Level' /\ i \in 2..Level
      BY <1>4
    <3>2. PICK k \in 1..(i - 1) : \E t \in Own[frames[k].file] :
              frames[i].by = <<k, t>> /\ (frames[i].rewrite => t \in Once)
      BY <1>0, <3>1 DEF FramesOK, ByOK
    <3>3. k \in 1..Level'
      BY <3>1, <3>2, <1>4
    <3>4. frames'[i].by = frames[i].by /\ frames'[i].rewrite = frames[i].rewrite
          /\ frames'[k].file = frames[k].file
      BY <1>5, <3>1, <3>3
    <3> QED  BY <3>2, <3>4 DEF ByOK
  <2> QED  BY <1>6, <2>1, <2>2, <2>3, <2>4 DEF FramesOK
<1>10. ShutdownApart'
  <2> SUFFICES ASSUME ~down, NEW i \in 2..Level', frames'[i].rewrite
               PROVE  frames'[i].by[2] \notin Shutdown \ Called
    BY <1>1 DEF ShutdownApart
  <2>1. i \in 1..Level' /\ i \in 2..Level
    BY <1>4
  <2>2. frames'[i].by = frames[i].by /\ frames'[i].rewrite = frames[i].rewrite
    BY <1>5, <2>1
  <2>3. frames[i].rewrite
    BY <2>2
  <2> QED  BY <1>0, <2>1, <2>2, <2>3 DEF ShutdownApart
<1>11. ASSUME NEW k \in 1..Level', NEW t \in Own[frames[k].file]
       PROVE  Rewriters(k, t)' = IF k = l /\ t = s /\ frames[Level].rewrite
                                 THEN Rewriters(k, t) \ {Level} ELSE Rewriters(k, t)
  <2>1. 2..Level = (2..Level') \cup {Level} /\ Level \notin 2..Level'
    BY <1>4
  <2>2. \A i \in 2..Level' : frames'[i].by = frames[i].by /\ frames'[i].rewrite = frames[i].rewrite
    BY <1>5, <1>13
  <2>3. frames[Level].by = <<k, t>> <=> (k = l /\ t = s)
    BY <1>6
  <2>4. Rewriters(k, t)' = {i \in 2..Level' : frames[i].by = <<k, t>> /\ frames[i].rewrite}
    BY <2>2 DEF Rewriters
  <2> QED  BY <2>1, <2>3, <2>4 DEF Rewriters
<1>12. Rewriting'
  <2> SUFFICES ASSUME NEW k \in 1..Level', NEW t \in Live(k)', down /\ k = 1 => t \notin Called
               PROVE  Well(k, t)'
    BY <1>1 DEF Rewriting
  <2>1. t \in Live(k) /\ t \in Own[frames[k].file]
    <3>1. k = 1 => frames[1].file = Main
      <4>1. frames # <<>>
        BY <1>4 DEF Level
      <4> QED  BY <1>0, <4>1 DEF FramesOK
    <3> QED  BY <1>1, <1>5, <3>1, IncludeConstants DEF Live
  <2>2. Well(k, t)
    <3>1. k \in 1..Level
      BY <1>5
    <3> QED  BY <1>0, <2>1, <3>1 DEF Rewriting
  <2>3. Rewriters(k, t)' = IF k = l /\ t = s /\ frames[Level].rewrite
                           THEN Rewriters(k, t) \ {Level} ELSE Rewriters(k, t)
    BY <1>11, <2>1
  <2>4. frames'[k].code[t].once = IF k = l /\ t = s /\ frames[Level].rewrite THEN TRUE
                                  ELSE frames[k].code[t].once
    BY <1>5, <2>1
  <2>5. CASE k = l /\ t = s /\ frames[Level].rewrite
    <3>1. Level \in Rewriters(k, t)
      <4>1. Level \in 2..Level
        BY <1>4
      <4> QED  BY <1>6, <2>5, <4>1 DEF Rewriters
    <3>2. \E i \in 2..Level : Rewriters(k, t) = {i}
      BY <2>2, <3>1 DEF Well
    <3>3. Rewriters(k, t)' = {}
      BY <2>3, <2>5, <3>1, <3>2
    <3>4. frames'[k].code[t].once = TRUE /\ (t \in Once) = TRUE
      BY <1>6, <2>4, <2>5
    <3> QED  BY <3>3, <3>4 DEF Well
  <2>6. CASE ~(k = l /\ t = s /\ frames[Level].rewrite)
    <3>1. Rewriters(k, t)' = Rewriters(k, t) /\ frames'[k].code[t].once = frames[k].code[t].once
      BY <2>3, <2>4, <2>6
    <3>2. Rewriters(k, t)' \subseteq 2..Level'
      BY DEF Rewriters
    <3> QED  BY <2>2, <3>1, <3>2 DEF Well
  <2> QED  BY <2>5, <2>6
<1> QED  BY <1>7, <1>8, <1>9, <1>10, <1>12 DEF IInv

LEMMA EndScriptKeeps ==
  ASSUME IInv, EndScript
  PROVE  IInv'
<1>0. TypeOK /\ IndexOK /\ FramesOK /\ ShutdownApart /\ Rewriting
  BY DEF IInv
<1>1. frames # <<>> /\ down' = TRUE /\ UNCHANGED <<index, included, setting, executed>>
  BY DEF EndScript
<1>2. Level \in Nat /\ Level >= 1 /\ frames[1] \in FrameType
  BY <1>0, <1>1 DEF FramesOK, Level
<1>3. CASE down
  <2>1. frames' = <<>> /\ Level' = 0
    BY <1>3 DEF EndScript, Level
  <2> QED  BY <1>0, <1>1, <2>1, IncludeConstants
           DEF IInv, TypeOK, IndexOK, FramesOK, ShutdownApart, Rewriting, Level
<1>4. CASE ~down
  <2>1. frames' = <<frames[1]>> /\ frames' \in Seq(FrameType) /\ Level' = 1 /\ frames'[1] = frames[1]
    BY <1>2, <1>4 DEF EndScript, Level
  <2>2. TypeOK'
    BY <1>0, <1>1, <2>1, IncludeConstants DEF TypeOK, Level
  <2>3. IndexOK' /\ ShutdownApart'
    BY <1>0, <1>1 DEF IndexOK, ShutdownApart
  <2>4. FramesOK'
    <3>1. \A s \in Own[frames[1].file] : SiteOK(1, s)
      BY <1>0, <1>2 DEF FramesOK
    <3>2. \A s \in Own[frames'[1].file] : SiteOK(1, s)'
      BY <2>1, <3>1 DEF SiteOK, NameOK, MayFind
    <3>3. frames[1].file = Main /\ frames[1].code \in Code(frames[1].file)
      BY <1>0, <1>1, <1>2 DEF FramesOK
    <3>4. \A k \in 1..Level' : k = 1
      BY <2>1
    <3>5. \A k \in 1..Level' : frames'[k].code \in Code(frames'[k].file)
      BY <2>1, <3>3, <3>4
    <3>6. \A k \in 1..Level' : \A s \in Own[frames'[k].file] : SiteOK(k, s)'
      BY <3>2, <3>4
    <3>7. 2..Level' = {}
      BY <2>1
    <3> QED  BY <2>1, <3>3, <3>5, <3>6, <3>7 DEF FramesOK
  <2>5. Rewriting'
    <3> SUFFICES ASSUME NEW s \in Shutdown \ Called PROVE Well(1, s)'
      BY <1>1, <2>1 DEF Rewriting, Live
    <3>1. s \in Own[frames[1].file] /\ s \in Live(1)
      BY <1>0, <1>1, <1>4, IncludeConstants DEF FramesOK, Live
    <3>2. Well(1, s)
      BY <1>0, <1>2, <1>4, <3>1 DEF Rewriting
    <3>3. \A i \in Rewriters(1, s) : FALSE
      <4> SUFFICES ASSUME NEW i \in Rewriters(1, s) PROVE FALSE
        OBVIOUS
      <4>1. i \in 2..Level /\ frames[i].by[2] = s /\ frames[i].rewrite
        BY DEF Rewriters
      <4> QED  BY <1>0, <1>4, <4>1 DEF ShutdownApart
    <3>4. frames[1].code[s].once = (s \in Once)
      BY <3>2, <3>3 DEF Well
    <3>5. Rewriters(1, s)' = {}
      BY <2>1 DEF Rewriters
    <3> QED  BY <2>1, <3>4, <3>5 DEF Well
  <2> QED  BY <2>2, <2>3, <2>4, <2>5 DEF IInv
<1> QED  BY <1>3, <1>4

LEMMA NextRequestKeeps ==
  ASSUME IInv, NextRequest
  PROVE  IInv'
<1>0. TypeOK /\ IndexOK /\ setting \in Settings
  BY DEF IInv, TypeOK
<1>1. PICK code \in CodeOf(Main, Main, None) :
        /\ Compile(Main, Main, None, code)
        /\ frames' = <<[file |-> Main, code |-> code, by |-> None, rewrite |-> FALSE]>>
  BY DEF NextRequest
<1>2. Main \in Files /\ Main \in Names /\ Found(Main, Main)
  BY IncludeConstants DEF Found
<1>3. Fresh(Main, code)
  <2>1. index[Main] # None => Main = index[Main].file
    BY <1>0, <1>2 DEF IndexOK, Found
  <2> QED  BY <1>0, <1>1, <1>2, <2>1, CodeIsFresh
<1>4. IndexOK' /\ index' \in [Names -> Entries \cup {None}]
  BY <1>0, <1>1, <1>2, <1>3, CompileKeeps
<1>5. /\ frames' \in Seq(FrameType) /\ Level' = 1 /\ frames'[1].file = Main
      /\ frames'[1].code = code /\ code \in Code(Main)
  BY <1>1, <1>2, <1>3 DEF FrameType, Fresh, Level
<1>6. TypeOK'
  <2>1. 1 <= MaxDepth /\ Level' <= MaxDepth
    BY <1>5, IncludeConstants
  <2>2. included' \subseteq Files /\ down' \in BOOLEAN /\ setting' \in Settings
    BY <1>0, <1>2 DEF NextRequest
  <2>3. executed' = [f \in Files |-> 0]
    BY DEF NextRequest
  <2>4. executed' \in [Files -> 0..2]
    BY <2>3
  <2> QED  BY <1>4, <2>1, <2>2, <2>4 DEF TypeOK, Level
<1>7. 1..Level' = {1} /\ 2..Level' = {}
  BY <1>5
<1>8. FramesOK'
  <2>1. \A s \in Own[Main] : SiteOK(1, s)'
    BY <1>3, <1>5 DEF Fresh, SiteOK, NameOK, MayFind
  <2> QED  BY <1>5, <1>7, <2>1 DEF FramesOK
<1>9. ShutdownApart'
  BY <1>7 DEF ShutdownApart
<1>10. Rewriting'
  <2>1. \A s \in Own[Main] : Well(1, s)'
    BY <1>3, <1>5, <1>7 DEF Well, Rewriters, Fresh
  <2>2. down' = FALSE
    BY DEF NextRequest
  <2> QED  BY <1>5, <1>7, <2>1, <2>2 DEF Rewriting, Live
<1> QED  BY <1>4, <1>6, <1>8, <1>9, <1>10 DEF IInv

LEMMA OthersKeep ==
  ASSUME IInv, ChangeSetting \/ EndRequest \/ UNCHANGED vars
  PROVE  IInv'
<1>0. TypeOK /\ IndexOK /\ FramesOK /\ ShutdownApart /\ Rewriting
  BY DEF IInv
<1>1. UNCHANGED <<frames, down, executed>> /\ setting' \in Settings
  BY <1>0, IncludeConstants DEF ChangeSetting, EndRequest, vars, TypeOK
<1>2. included' \subseteq Files /\ index' \in {index, [n \in Names |-> None]}
  BY <1>0 DEF ChangeSetting, EndRequest, vars, TypeOK
<1>3. TypeOK' /\ IndexOK'
  BY <1>0, <1>1, <1>2 DEF TypeOK, IndexOK
<1>4. FramesOK'
  BY <1>0, <1>1 DEF FramesOK, SiteOK, NameOK, MayFind, ByOK, Level
<1>5. ShutdownApart'
  BY <1>0, <1>1 DEF ShutdownApart, Level
<1>6. Rewriting'
  <2>1. \A l, s : (Well(l, s)' <=> Well(l, s)) /\ Live(l)' = Live(l)
    BY <1>1 DEF Well, Live, Rewriters, Level
  <2> QED  BY <1>0, <1>1, <2>1 DEF Rewriting, Level
<1> QED  BY <1>3, <1>4, <1>5, <1>6 DEF IInv

\* The invariant is inductive: the index and the code in execution hold what the files
\* say, under names a site may have, and only what a file in execution has rewritten
\* differs from its source.
THEOREM Invariance == Spec => []IInv
<1>1. Init => IInv
  BY IncludeConstants DEF Init, IInv, TypeOK, IndexOK, FramesOK, ShutdownApart, Rewriting, Level
<1>2. IInv /\ [Next]_vars => IInv'
  BY IncludeKeeps, ReturnKeeps, EndScriptKeeps, NextRequestKeeps, OthersKeep DEF Next
<1> QED  BY <1>1, <1>2, PTL DEF Spec

\* Whatever the scripts include, every entry of the cache holds the code of a file and
\* no execution nests deeper than the bound.
THEOREM TypeCorrect == Spec => []TypeOK
BY Invariance, PTL DEF IInv

-----------------------------------------------------------------------------
(* What is rewritten.                                                      *)

\* A site that can still be executed is plain while its own include is in execution,
\* and not otherwise, however scripts nest, recur or end, but for a function
\* at the shutdown that the script calls too.
THEOREM RewritesOnlyInside == Spec => []RewrittenOnlyInside
<1>1. ASSUME IInv PROVE RewrittenOnlyInside
  <2> SUFFICES ASSUME NEW l \in 1..Level, NEW s \in Live(l), down /\ l = 1 => s \notin Called
               PROVE  Cardinality(Rewriters(l, s)) =
                        IF frames[l].code[s].once # (s \in Once) THEN 1 ELSE 0
    BY DEF RewrittenOnlyInside
  <2>1. Well(l, s)
    BY <1>1 DEF IInv, Rewriting
  <2>2. CASE frames[l].code[s].once = (s \in Once)
    <3>1. Rewriters(l, s) = {}
      BY <2>1, <2>2 DEF Well
    <3> QED  BY <2>2, <3>1, FS_EmptySet
  <2>3. CASE frames[l].code[s].once # (s \in Once)
    <3>1. PICK i \in 2..Level : Rewriters(l, s) = {i}
      BY <2>1, <2>3 DEF Well
    <3>2. Cardinality({i}) = 1
      BY FS_Singleton
    <3> QED  BY <2>3, <3>1, <3>2
  <2> QED  BY <2>2, <2>3
<1> QED  BY <1>1, Invariance, PTL

\* No instruction outside functions is met rewritten: only the last file in execution
\* executes its own, and what would have rewritten one is above it.
LEMMA MetAsWritten ==
  ASSUME IInv, NEW x \in Reach, x[2] \in Once \ Funcs, Include(x)
  PROVE  Rewrites(x)
<1>0. TypeOK /\ FramesOK /\ Rewriting
  BY DEF IInv
<1>1. PICK l \in 1..Level : \E s \in Own[frames[l].file] :
         x = <<l, s>> /\ (s \notin Funcs => l = Level /\ ~(down /\ l = 1))
  BY <1>0, Reachable
<1>2. PICK s \in Own[frames[l].file] :
         x = <<l, s>> /\ (s \notin Funcs => l = Level /\ ~(down /\ l = 1))
  BY <1>1
<1>3. s \in Once /\ l = Level /\ ~(down /\ l = 1) /\ Level \in Nat
  BY <1>0, <1>2 DEF FramesOK, Level
<1>4. Well(l, s)
  <2>1. s \in Live(l)
    BY <1>2, <1>3 DEF Live
  <2> QED  BY <1>0, <1>3, <2>1 DEF Rewriting
<1>5. \A i \in 2..Level : i \notin Rewriters(l, s)
  <2> SUFFICES ASSUME NEW i \in 2..Level, frames[i].by = <<l, s>> PROVE FALSE
    BY DEF Rewriters
  <2>1. PICK k \in 1..(i - 1) : \E t \in Own[frames[k].file] : frames[i].by = <<k, t>>
    BY <1>0 DEF FramesOK, ByOK
  <2>2. k = l
    BY <2>1
  <2> QED  BY <1>3, <2>1, <2>2
<1>6. frames[l].code[s].once = (s \in Once)
  BY <1>4, <1>5 DEF Well
<1>7. Instr(x).once
  BY <1>2, <1>3, <1>6 DEF Instr
<1> QED  BY <1>7 DEF Include

\* One in a function is met rewritten while its own include is in execution, or at
\* the shutdown, if the script calls the function too.
LEMMA MetInFunction ==
  ASSUME IInv, NEW x \in Reach, x[2] \in Once \cap Funcs, Include(x)
  PROVE  Rewrites(x) \/ Rewriters(x[1], x[2]) # {} \/ (x[2] \in Called /\ down)
<1>0. TypeOK /\ FramesOK /\ Rewriting
  BY DEF IInv
<1>1. PICK l \in 1..Level : \E s \in Own[frames[l].file] :
         /\ x = <<l, s>>
         /\ l = 1 /\ ~down => s \in Live(1)
         /\ s \in Funcs => l = 1 /\ (s \in Called \/ (down /\ s \in Shutdown))
  BY <1>0, Reachable
<1>2. PICK s \in Own[frames[l].file] :
         /\ x = <<l, s>>
         /\ l = 1 /\ ~down => s \in Live(1)
         /\ s \in Funcs => l = 1 /\ (s \in Called \/ (down /\ s \in Shutdown))
  BY <1>1
<1>3. s \in Once /\ s \in Funcs /\ l = 1 /\ (s \in Called \/ (down /\ s \in Shutdown))
  BY <1>2
<1>4. ASSUME s \notin Called \/ ~down, Rewriters(l, s) = {} PROVE Rewrites(x)
  <2>1. CASE ~down
    <3>1. Well(l, s)
      BY <1>0, <1>2, <1>3, <2>1 DEF Rewriting
    <3> QED  BY <1>2, <1>3, <1>4, <3>1 DEF Well, Include, Instr
  <2>2. CASE down /\ s \in Shutdown /\ s \notin Called
    <3>1. Well(l, s)
      BY <1>0, <1>3, <2>2 DEF Rewriting, Live
    <3> QED  BY <1>2, <1>3, <1>4, <3>1 DEF Well, Include, Instr
  <2> QED  BY <1>3, <1>4, <2>1, <2>2
<1> QED  BY <1>2, <1>4

\* No instruction is met rewritten but by the files that its own include has brought
\* into execution, and left so but for the shutdown: outside functions, the rewriting
\* is for a single execution step.
THEOREM MeetsRewrittenInside == Spec => MetRewrittenInside
<1>1. IInv /\ [Next]_vars =>
        [\A x \in Reach : x[2] \in Once /\ Include(x) =>
          \/ Rewrites(x)
          \/ x[2] \in Funcs /\ Rewriters(x[1], x[2]) # {}
          \/ x[2] \in Called /\ down]_vars
  BY MetAsWritten, MetInFunction
<1> QED  BY <1>1, Invariance, PTL DEF Spec, MetRewrittenInside

-----------------------------------------------------------------------------
(* Once.                                                                   *)

\* Of some files that only _once sites may find: one that has been executed is in the
\* list, and the cache has it by its own name only, which is the one in the list.
OnceInv(G) ==
    /\ \A f \in G : executed[f] # 2 /\ (executed[f] = 1 /\ frames # <<>> => f \in included)
    /\ \A n \in Names : index[n] # None /\ index[n].file \in G => n = index[n].file

\* The sites that may find them are rewritten for a single step.
OneStep(G) ==
    \A x \in Reach : x[2] \in Once /\ (\E f \in G : MayFind(x[2], f)) /\ Include(x) => Rewrites(x)

LEMMA OnceLoad ==
  ASSUME IInv, NEW G \in SUBSET OnceFiles, OnceInv(G),
         NEW l \in 1..Level, NEW s \in Own[frames[l].file], NEW n \in Names,
         NEW rewrite \in BOOLEAN, Load(<<l, s>>, n, rewrite),
         \A f : Found(n, f) => MayFind(s, f),
         \A f \in G : Found(n, f) /\ f = FileOf(n, EngineFinds(n, frames[l].file)) =>
             f \notin included /\ (index[n] = None => n = f)
  PROVE  OnceInv(G)'
<1>1. PICK f, code, g :
        /\ Loaded(l, s, rewrite, f, code, g) /\ Found(n, f)
        /\ f = FileOf(n, EngineFinds(n, frames[l].file))
        /\ \/ UNCHANGED index
           \/ index[n] = None /\ index' = [index EXCEPT ![n] = [file |-> f, code |-> code]]
  BY LoadDoes
<1>2. /\ included' = included \cup {f} /\ f \in Files
      /\ executed' = [executed EXCEPT ![f] = IF @ = 2 THEN 2 ELSE @ + 1]
      /\ executed \in [Files -> 0..2] /\ frames # <<>>
      /\ index \in [Names -> Entries \cup {None}]
  <2>1. frames # <<>>
    BY DEF Level
  <2> QED  BY <1>1, <2>1 DEF Loaded, IInv, TypeOK
<1>3. f \in G => f \notin included /\ (index[n] = None => n = f)
  BY <1>1
<1>4. ASSUME NEW h \in G
      PROVE  executed'[h] # 2 /\ (executed'[h] = 1 /\ frames' # <<>> => h \in included')
  <2>1. executed[h] # 2 /\ (executed[h] = 1 => h \in included) /\ h \in Files /\ executed[h] \in 0..2
    BY <1>2 DEF OnceInv, OnceFiles
  <2>2. CASE h = f
    BY <1>2, <1>3, <2>1, <2>2
  <2>3. CASE h # f
    BY <1>2, <2>1, <2>3
  <2> QED  BY <2>2, <2>3
<1>5. ASSUME NEW m \in Names, index'[m] # None, index'[m].file \in G PROVE m = index'[m].file
  <2>1. CASE UNCHANGED index
    BY <1>5, <2>1 DEF OnceInv
  <2>2. CASE index[n] = None /\ index' = [index EXCEPT ![n] = [file |-> f, code |-> code]]
    <3>1. CASE m = n
      BY <1>2, <1>3, <1>5, <2>2, <3>1
    <3>2. CASE m # n
      BY <1>2, <1>5, <2>2, <3>2 DEF OnceInv
    <3> QED  BY <3>1, <3>2
  <2> QED  BY <1>1, <2>1, <2>2
<1> QED  BY <1>4, <1>5 DEF OnceInv

LEMMA OnceInclude ==
  ASSUME IInv, NEW G \in SUBSET OnceFiles, OnceInv(G), OneStep(G),
         NEW x \in Reach, Include(x) \/ IncludeOnce(x)
  PROVE  OnceInv(G)'
<1>1. TypeOK /\ FramesOK
  BY DEF IInv
<1>2. PICK l \in 1..Level : \E s \in Own[frames[l].file] : x = <<l, s>>
  BY <1>1, Reachable
<1>3. PICK s \in Own[frames[l].file] : x = <<l, s>>
  BY <1>2
<1>4. /\ Instr(x).name \in Names /\ frames[l].file \in Files
      /\ s \in Sites /\ NameOK(s, Instr(x).name)
  BY <1>1, <1>3, FrameFacts DEF FramesOK, SiteOK, Instr
<1>5. \A f : Found(Instr(x).name, f) => MayFind(s, f)
  BY <1>4, NameLeads
<1>6. CASE Include(x)
  <2> DEFINE n == Instr(x).name
  <2>1. Rewrites(x) \in BOOLEAN /\ Load(<<l, s>>, n, Rewrites(x))
    BY <1>3, <1>6 DEF Include, Rewrites
  <2>2. ASSUME NEW f \in G, Found(n, f), f = FileOf(n, EngineFinds(n, frames[l].file))
        PROVE  f \notin included /\ (index[n] = None => n = f)
    <3>1. MayFind(s, f)
      BY <1>5, <2>2
    <3>2. s \in Once
      BY <1>4, <3>1 DEF OnceFiles
    <3>3. Rewrites(x)
      BY <1>3, <1>6, <3>1, <3>2 DEF OneStep
    <3>4. index[n] # None /\ n \notin included
      BY <3>3 DEF Rewrites
    <3>5. f = index[n].file
      BY <2>2, <3>4 DEF FileOf
    <3>6. n = f
      BY <1>4, <3>4, <3>5 DEF OnceInv
    <3> QED  BY <3>4, <3>6
  <2> HIDE DEF n, Rewrites
  <2> QED  BY <1>4, <1>5, <2>1, <2>2, OnceLoad DEF n
<1>7. CASE IncludeOnce(x)
  <2> DEFINE n == EngineFinds(Instr(x).name, frames[l].file)
  <2>1. n # None /\ n \notin included /\ Load(<<l, s>>, n, FALSE)
    BY <1>3, <1>7 DEF IncludeOnce
  <2>2. Found(Instr(x).name, n)
    BY <1>1, <1>4, <2>1, EngineFound DEF TypeOK
  <2>3. n \in Files /\ n \in Names /\ MayFind(s, n)
    BY <1>4, <2>2, NameLeads, IncludeConstants
  <2>4. \A f : Found(n, f) => f = n
    BY <2>3 DEF Found
  <2> HIDE DEF n
  <2> QED  BY <2>1, <2>3, <2>4, OnceLoad
<1> QED  BY <1>6, <1>7

LEMMA OnceKeeps ==
  ASSUME IInv, NEW G \in SUBSET OnceFiles, OnceInv(G), OneStep(G), [Next]_vars
  PROVE  OnceInv(G)'
<1>1. ASSUME NEW x \in Reach, Include(x) \/ IncludeOnce(x) PROVE OnceInv(G)'
  BY <1>1, OnceInclude
<1>2. CASE Return
  <2>1. frames # <<>> /\ UNCHANGED <<index, included, executed>>
    BY <1>2 DEF Return, Level
  <2> QED  BY <2>1 DEF OnceInv
<1>3. CASE ChangeSetting \/ EndScript \/ UNCHANGED vars
  <2>1. (frames = <<>> => frames' = <<>>) /\ UNCHANGED <<index, included, executed>>
    BY <1>3 DEF ChangeSetting, EndScript, vars
  <2> QED  BY <2>1 DEF OnceInv
<1>4. CASE EndRequest
  <2>1. frames' = <<>> /\ UNCHANGED executed /\ index' \in {index, [n \in Names |-> None]}
    BY <1>4 DEF EndRequest
  <2> QED  BY <2>1 DEF OnceInv
<1>5. CASE NextRequest
  <2>1. executed' = [f \in Files |-> 0] /\ \A f \in G : f \in Files
    BY <1>5 DEF NextRequest, OnceFiles
  <2>2. \/ UNCHANGED index
        \/ \E code : index' = [index EXCEPT ![Main] = [file |-> Main, code |-> code]]
    BY <1>5 DEF NextRequest, Compile
  <2>3. index \in [Names -> Entries \cup {None}]
    BY DEF IInv, TypeOK
  <2>4. \A n \in Names : index'[n] # None /\ index'[n].file \in G => n = index'[n].file
    <3>1. CASE UNCHANGED index
      BY <3>1 DEF OnceInv
    <3>2. CASE \E code : index' = [index EXCEPT ![Main] = [file |-> Main, code |-> code]]
      <4>1. PICK code : index' = [index EXCEPT ![Main] = [file |-> Main, code |-> code]]
        BY <3>2
      <4>2. \A n \in Names : n # Main => index'[n] = index[n]
        BY <2>3, <4>1
      <4>3. Main \in Names => index'[Main].file = Main
        BY <2>3, <4>1
      <4> QED  BY <4>2, <4>3 DEF OnceInv
    <3> QED  BY <2>2, <3>1, <3>2
  <2> QED  BY <2>1, <2>4 DEF OnceInv
<1> QED  BY <1>1, <1>2, <1>3, <1>4, <1>5 DEF Next

LEMMA OnceStarts ==
  ASSUME NEW G \in SUBSET OnceFiles, Init
  PROVE  OnceInv(G)
BY DEF Init, OnceInv, OnceFiles

\* Whatever names it is included by, a file that only _once sites outside functions
\* may find is executed at most once per request.
THEOREM OnceOutsideFunctions ==
  Spec => [](\A f \in OnceFiles : (\A s \in Funcs : ~MayFind(s, f)) => executed[f] < 2)
<1> DEFINE G == {f \in OnceFiles : \A s \in Funcs : ~MayFind(s, f)}
<1>1. G \in SUBSET OnceFiles
  OBVIOUS
<1>2. ASSUME IInv PROVE OneStep(G)
  BY <1>2, MetAsWritten DEF OneStep
<1>3. ASSUME IInv, OnceInv(G)
      PROVE  \A f \in OnceFiles : (\A s \in Funcs : ~MayFind(s, f)) => executed[f] < 2
  <2> SUFFICES ASSUME NEW f \in G PROVE executed[f] < 2
    OBVIOUS
  <2>1. executed[f] # 2 /\ executed[f] \in 0..2
    BY <1>3 DEF OnceInv, OnceFiles, IInv, TypeOK
  <2> QED  BY <2>1
<1> HIDE DEF G
<1>4. Init => OnceInv(G)
  BY <1>1, OnceStarts
<1>5. IInv /\ OnceInv(G) /\ [Next]_vars => OnceInv(G)'
  BY <1>1, <1>2, OnceKeeps
<1> QED  BY <1>3, <1>4, <1>5, Invariance, PTL DEF Spec

\* So if no function includes such a file, ...
THEOREM ExecutesOnce ==
  ASSUME \A s \in Funcs : \A f \in OnceFiles : ~MayFind(s, f)
  PROVE  Spec => []ExecutedOnce
<1>1. (\A f \in OnceFiles : (\A s \in Funcs : ~MayFind(s, f)) => executed[f] < 2) => ExecutedOnce
  BY DEF ExecutedOnce
<1> QED  BY <1>1, OnceOutsideFunctions, PTL

\* ... and in any case if no instruction is met rewritten by another execution of it:
\* a function that includes _once is the one way a file is executed twice.
THEOREM OneStepMeansOnce == Spec /\ RewrittenForOneStep => []ExecutedOnce
<1> DEFINE A == \A x \in Reach : x[2] \in Once /\ Include(x) => Rewrites(x)
<1>1. Init => OnceInv(OnceFiles)
  BY OnceStarts
<1>2. IInv /\ OnceInv(OnceFiles) /\ [Next]_vars /\ [A]_vars => OnceInv(OnceFiles)'
  <2>1. CASE A
    BY <2>1, OnceKeeps DEF OneStep
  <2>2. CASE UNCHANGED vars
    BY <2>2 DEF vars, OnceInv
  <2> QED  BY <2>1, <2>2
<1>3. IInv /\ OnceInv(OnceFiles) => ExecutedOnce
  <2> SUFFICES ASSUME IInv, OnceInv(OnceFiles), NEW f \in OnceFiles PROVE executed[f] < 2
    BY DEF ExecutedOnce
  <2>1. executed[f] # 2 /\ executed[f] \in 0..2
    BY DEF OnceInv, OnceFiles, IInv, TypeOK
  <2> QED  BY <2>1
<1> QED  BY <1>1, <1>2, <1>3, Invariance, PTL DEF Spec, RewrittenForOneStep

-----------------------------------------------------------------------------
(* What is found.                                                          *)

\* Instructions hold their names as written or resolved to what these lead to, and
\* entries are files that their keys lead to.
Means(s, i) == i.name \in {Operand[s]} \cup Leads(Operand[s])
CodeMeans(f, code) == \A s \in Own[f] : Means(s, code[s])
EntryMeans(n, e) == e # None => e.file \in Leads(n) /\ CodeMeans(e.file, e.code)
MInv ==
    /\ \A n \in Names : EntryMeans(n, index[n])
    /\ \A l \in 1..Level : CodeMeans(frames[l].file, frames[l].code)

LEMMA FileLeads ==
  ASSUME NEW f \in Files
  PROVE  f \in Names /\ Leads(f) = {f}
<1>1. f \in Names /\ f # None /\ Settings # {} /\ Files # {}
  BY IncludeConstants
<1> QED  BY <1>1, IncludeConstants DEF Leads

LEMMA LeadsToFiles ==
  ASSUME NEW n \in Names
  PROVE  Leads(n) \subseteq Files
BY Lookups DEF Leads

\* Both ways to look a name up find what it leads to.
LEMMA FindsLead ==
  ASSUME setting \in Settings, NEW n
  PROVE  /\ \A g \in Files : EngineFinds(n, g) \in Leads(n) \cup {None}
         /\ \A by \in Files \cup {None} : LpcFinds(n, by) \in Leads(n) \cup {None}
<1>1. Main \in Files
  BY IncludeConstants
<1>2. \A g \in Files : EngineFinds(n, g) \in Leads(n) \cup {None}
  BY DEF EngineFinds, Leads
<1>3. ASSUME NEW by \in Files \cup {None}
      PROVE  LpcFinds(n, by) \in Leads(n) \cup {None}
  BY <1>1 DEF LpcFinds, Leads
<1> QED  BY <1>2, <1>3

LEMMA CodeHasMeaning ==
  ASSUME setting \in Settings, NEW n \in Names, EntryMeans(n, index[n]), NEW f \in Files,
         NEW by \in Files \cup {None}, index[n] # None => f = index[n].file,
         NEW code \in CodeOf(n, f, by)
  PROVE  CodeMeans(f, code)
<1>1. ASSUME NEW s \in Own[f] PROVE Means(s, Written(f)[s]) /\ Means(s, Resolved(f, by)[s])
  <2>1. LpcFinds(Operand[s], by) \in Leads(Operand[s]) \cup {None}
    BY FindsLead
  <2>2. Resolved(f, by)[s].name \in {Operand[s]} \cup Leads(Operand[s])
    BY <2>1 DEF Resolved
  <2> QED  BY <2>2 DEF Means, Written
<1> QED  BY <1>1 DEF CodeMeans, CodeOf, EntryMeans

\* What is loaded under a name is a file that it leads to, and the one the engine finds
\* if the index does not have the name.
LEMMA LoadMeans ==
  ASSUME IInv, MInv, NEW l \in 1..Level, NEW s \in Own[frames[l].file],
         NEW n \in Names, \A f : Found(n, f) => MayFind(s, f), NEW rewrite \in BOOLEAN,
         rewrite => s \in Once, Load(<<l, s>>, n, rewrite)
  PROVE  /\ MInv'
         /\ Level' = Level + 1 /\ frames'[Level'].by = <<l, s>>
         /\ frames'[Level'].file \in Leads(n)
         /\ index[n] = None => frames'[Level'].file = EngineFinds(n, frames[l].file)
<1>0. TypeOK /\ IndexOK /\ FramesOK /\ setting \in Settings
  BY DEF IInv, TypeOK
<1>1. PICK f, code, g :
        /\ Loaded(l, s, rewrite, f, code, g) /\ Found(n, f)
        /\ f = FileOf(n, EngineFinds(n, frames[l].file))
        /\ code \in CodeOf(n, f, frames[l].file)
        /\ \/ UNCHANGED index
           \/ index[n] = None /\ index' = [index EXCEPT ![n] = [file |-> f, code |-> code]]
  BY LoadDoes
<1>2. Pushed(l, s, rewrite, f, code)
  BY <1>1, FramesPushed
<1>3. frames[l].file \in Files /\ f \in Files /\ f # None
  BY <1>0, <1>1, FrameFacts, IncludeConstants DEF Found
<1>4. EntryMeans(n, index[n])
  BY DEF MInv
<1>5. f \in Leads(n)
  <2>1. CASE index[n] # None
    BY <1>1, <1>4, <2>1 DEF EntryMeans, FileOf
  <2>2. CASE index[n] = None
    BY <1>0, <1>1, <1>3, <2>2, FindsLead DEF FileOf
  <2> QED  BY <2>1, <2>2
<1>6. CodeMeans(f, code)
  <2>1. index[n] # None => f = index[n].file
    BY <1>1 DEF FileOf
  <2> QED  BY <1>0, <1>1, <1>3, <1>4, <2>1, CodeHasMeaning
<1>7. \A m \in Names : EntryMeans(m, index'[m])
  <2> SUFFICES ASSUME NEW m \in Names, index'[m] # None
               PROVE  index'[m].file \in Leads(m) /\ CodeMeans(index'[m].file, index'[m].code)
    BY DEF EntryMeans
  <2>1. EntryMeans(m, index[m])
    BY DEF MInv
  <2>2. CASE index'[m] = index[m]
    BY <2>1, <2>2 DEF EntryMeans
  <2>3. CASE index'[m] # index[m]
    <3>1. m = n /\ index'[m] = [file |-> f, code |-> code]
      BY <1>0, <1>1, <2>3 DEF TypeOK
    <3> QED  BY <1>5, <1>6, <3>1
  <2> QED  BY <2>2, <2>3
<1>8. /\ Level \in Nat /\ Level' = Level + 1
      /\ \A i \in 1..Level :
            /\ frames'[i].file = frames[i].file
            /\ \A t \in Own[frames[i].file] :
                  frames'[i].code[t].name = frames[i].code[t].name
      /\ frames'[Level + 1].file = f /\ frames'[Level + 1].code = code
      /\ frames'[Level + 1].by = <<l, s>>
  BY <1>2 DEF Pushed
<1>9. ASSUME NEW i \in 1..Level' PROVE CodeMeans(frames'[i].file, frames'[i].code)
  <2>1. CASE i \in 1..Level
    <3> SUFFICES ASSUME NEW t \in Own[frames[i].file] PROVE Means(t, frames'[i].code[t])
      BY <1>8, <2>1 DEF CodeMeans
    <3>1. Means(t, frames[i].code[t])
      BY <2>1 DEF MInv, CodeMeans
    <3>2. frames'[i].code[t].name = frames[i].code[t].name
      BY <1>8, <2>1
    <3> QED  BY <3>1, <3>2 DEF Means
  <2>2. CASE i = Level + 1
    BY <1>6, <1>8, <2>2
  <2> QED  BY <1>8, <2>1, <2>2
<1>10. MInv'
  <2> QED  BY <1>7, <1>9 DEF MInv
<1>11. index[n] = None => f = EngineFinds(n, frames[l].file)
  BY <1>1 DEF FileOf
<1> QED  BY <1>5, <1>8, <1>10, <1>11

\* What LoadsWhatNameMeans says of a step.
NameMeans ==
    LET l == New.by[1]
        n == Operand[New.by[2]]
    IN  /\ New.file \in Leads(n)
        /\ \/ AsEngine
           \/ ~Clear(n) /\ (frames[l].code[New.by[2]].name # n \/ index[n] # None)

LEMMA IncludeMeans ==
  ASSUME IInv, MInv, NEW x \in Reach, Include(x) \/ IncludeOnce(x)
  PROVE  MInv' /\ NameMeans
<1>1. TypeOK /\ FramesOK /\ setting \in Settings
  BY DEF IInv, TypeOK
<1>2. PICK l \in 1..Level : \E s \in Own[frames[l].file] : x = <<l, s>>
  BY <1>1, Reachable
<1>3. PICK s \in Own[frames[l].file] : x = <<l, s>>
  BY <1>2
<1>4. PICK n : n = Instr(x).name
  OBVIOUS
<1>5. /\ n \in Names /\ frames[l].file \in Files
      /\ s \in Sites /\ Operand[s] \in Names /\ NameOK(s, n) /\ (Instr(x).once => s \in Once)
      /\ frames[l].code[s].name = n
  BY <1>1, <1>3, <1>4, FrameFacts, SiteFacts DEF FramesOK, SiteOK, Instr
<1>6. n = Operand[s] \/ n \in Leads(Operand[s])
  BY <1>3, <1>4 DEF MInv, CodeMeans, Means, Instr
<1>7. n # Operand[s] => n \in Files /\ Leads(n) = {n}
  BY <1>5, <1>6, LeadsToFiles, FileLeads
<1>8. PICK own : own = EngineFinds(Operand[s], frames[l].file)
  OBVIOUS
<1>9. own \in Leads(Operand[s]) \cup {None}
  BY <1>1, <1>5, <1>8, FindsLead
<1>10. ASSUME NEW f, frames'[Level'].by = <<l, s>>, frames'[Level'].file = f, f \in Leads(n),
              n = Operand[s] /\ index[n] = None => f = own
       PROVE  NameMeans
  <2>1. f \in Leads(Operand[s])
    BY <1>6, <1>7, <1>10
  <2>2. own \in {f, None} \/ ~Clear(Operand[s])
    BY <1>9, <2>1 DEF Clear
  <2>3. own \in {f, None} \/ (~Clear(Operand[s]) /\ (n # Operand[s] \/ index[Operand[s]] # None))
    BY <1>10, <2>2
  <2> QED  BY <1>5, <1>8, <1>10, <2>1, <2>3 DEF NameMeans, New, AsEngine, Level
<1>11. CASE Include(x)
  <2>1. Load(<<l, s>>, n, Rewrites(x))
    BY <1>3, <1>4, <1>11 DEF Include
  <2>2. Rewrites(x) \in BOOLEAN /\ (Rewrites(x) => Instr(x).once)
    BY DEF Rewrites
  <2>3. \A f : Found(n, f) => MayFind(s, f)
    BY <1>5, NameLeads
  <2>4. MInv' /\ frames'[Level'].by = <<l, s>> /\ frames'[Level'].file \in Leads(n)
        /\ (index[n] = None => frames'[Level'].file = EngineFinds(n, frames[l].file))
    <3> HIDE DEF Rewrites
    <3> QED  BY <1>5, <2>1, <2>2, <2>3, LoadMeans
  <2> QED  BY <1>8, <1>10, <2>4
<1>12. CASE IncludeOnce(x)
  <2>1. PICK f : f = EngineFinds(n, frames[l].file)
    OBVIOUS
  <2>2. f # None /\ Load(<<l, s>>, f, FALSE)
    BY <1>3, <1>4, <1>12, <2>1 DEF IncludeOnce
  <2>3. Found(n, f) /\ f \in Files /\ f \in Leads(n)
    BY <1>1, <1>5, <2>1, <2>2, EngineFound, FindsLead DEF Found
  <2>4. f \in Names /\ Leads(f) = {f}
    BY <2>3, FileLeads
  <2>5. \A g : Found(f, g) => MayFind(s, g)
    <3>1. MayFind(s, f)
      BY <1>5, <2>3, NameLeads
    <3> QED  BY <2>3, <3>1 DEF Found
  <2>6. MInv' /\ frames'[Level'].by = <<l, s>> /\ frames'[Level'].file = f
    BY <2>2, <2>4, <2>5, LoadMeans
  <2>7. n = Operand[s] => f = own
    BY <1>8, <2>1
  <2> QED  BY <1>10, <2>3, <2>6, <2>7
<1> QED  BY <1>11, <1>12

LEMMA OthersMean ==
  ASSUME IInv, MInv, [Next]_vars,
         ~\E x \in Reach : Include(x) \/ IncludeOnce(x)
  PROVE  MInv' /\ ~(Level' = Level + 1 /\ frames # <<>>)
<1>0. TypeOK /\ FramesOK /\ setting \in Settings /\ Level \in Nat /\ Level = Len(frames)
  BY DEF IInv, TypeOK, FramesOK, Level
<1> DEFINE Kept == \A i \in 1..Level' :
              /\ i \in 1..Level /\ frames'[i].file = frames[i].file
              /\ \A t \in Own[frames[i].file] :
                    frames'[i].code[t].name = frames[i].code[t].name
<1>1. ASSUME index' \in {index, [n \in Names |-> None]}, Kept PROVE MInv'
  <2>1. ASSUME NEW n \in Names PROVE EntryMeans(n, index'[n])
    <3>1. EntryMeans(n, index[n]) /\ (index'[n] = index[n] \/ index'[n] = None)
      BY <1>1 DEF MInv
    <3> QED  BY <3>1 DEF EntryMeans
  <2>2. ASSUME NEW i \in 1..Level' PROVE CodeMeans(frames'[i].file, frames'[i].code)
    <3>1. \A t \in Own[frames[i].file] : Means(t, frames'[i].code[t])
      <4> SUFFICES ASSUME NEW t \in Own[frames[i].file] PROVE Means(t, frames'[i].code[t])
        OBVIOUS
      <4>1. Means(t, frames[i].code[t])
        BY <1>1 DEF MInv, CodeMeans
      <4>2. frames'[i].code[t].name = frames[i].code[t].name
        BY <1>1
      <4> QED  BY <4>1, <4>2 DEF Means
    <3>2. frames'[i].file = frames[i].file
      BY <1>1
    <3> QED  BY <3>1, <3>2 DEF CodeMeans
  <2> QED  BY <2>1, <2>2 DEF MInv
<1>2. CASE UNCHANGED <<index, frames>> \/ (UNCHANGED frames /\ index' = [n \in Names |-> None])
  <2>1. Level' = Level /\ Kept
    BY <1>2 DEF Level
  <2> HIDE DEF Kept
  <2> QED  BY <1>0, <1>1, <1>2, <2>1
<1>3. CASE Return
  <2>1. PICK l, s : Returned(l, s)
    BY <1>3, ReturnDoes
  <2>3. UNCHANGED index /\ Level' = Level - 1
    BY <1>3, <2>1 DEF Return, Returned
  <2>2. Kept
    <3>1. \A i \in 1..(Level - 1) :
             /\ frames'[i].file = frames[i].file
             /\ \A t \in Own[frames[i].file] :
                   frames'[i].code[t].name = frames[i].code[t].name
      BY <2>1 DEF Returned
    <3>2. \A i \in 1..Level' : i \in 1..Level /\ i \in 1..(Level - 1)
      BY <1>0, <2>3
    <3> QED  BY <3>1, <3>2
  <2> HIDE DEF Kept
  <2> QED  BY <1>0, <1>1, <2>2, <2>3
<1>4. CASE EndScript
  <2>1. UNCHANGED index /\ Level \in Nat \ {0}
    BY <1>0, <1>4 DEF EndScript
  <2>2. CASE frames' = <<>>
    <3>1. Level' = 0
      BY <2>2 DEF Level
    <3>2. Kept
      BY <3>1
    <3> HIDE DEF Kept
    <3> QED  BY <1>0, <1>1, <2>1, <3>1, <3>2
  <2>3. CASE frames' = <<frames[1]>>
    <3>1. Level' = 1 /\ frames'[1] = frames[1]
      BY <2>3 DEF Level
    <3>2. Kept
      BY <2>1, <3>1
    <3> HIDE DEF Kept
    <3> QED  BY <1>0, <1>1, <2>1, <3>1, <3>2
  <2> QED  BY <1>4, <2>2, <2>3 DEF EndScript
<1>5. CASE NextRequest
  <2>1. PICK code \in CodeOf(Main, Main, None) :
          /\ Compile(Main, Main, None, code)
          /\ frames' = <<[file |-> Main, code |-> code, by |-> None, rewrite |-> FALSE]>>
    BY <1>5 DEF NextRequest
  <2>2. Main \in Files /\ Main \in Names /\ Leads(Main) = {Main}
    BY IncludeConstants, FileLeads
  <2>3. EntryMeans(Main, index[Main]) /\ (index[Main] # None => Main = index[Main].file)
    BY <2>2 DEF MInv, EntryMeans
  <2>4. CodeMeans(Main, code)
    BY <1>0, <2>1, <2>2, <2>3, CodeHasMeaning
  <2>5. \A m \in Names : EntryMeans(m, index'[m])
    <3> SUFFICES ASSUME NEW m \in Names, index'[m] # None
                 PROVE  index'[m].file \in Leads(m) /\ CodeMeans(index'[m].file, index'[m].code)
      BY DEF EntryMeans
    <3>1. EntryMeans(m, index[m])
      BY DEF MInv
    <3>2. CASE index'[m] = index[m]
      BY <3>1, <3>2 DEF EntryMeans
    <3>3. CASE index'[m] # index[m]
      <4>1. m = Main /\ index'[m] = [file |-> Main, code |-> code]
        BY <1>0, <2>1, <2>2, <3>3 DEF TypeOK, Compile
      <4> QED  BY <2>2, <2>4, <4>1
    <3> QED  BY <3>2, <3>3
  <2>6. Level' = 1 /\ frames'[1].file = Main /\ frames'[1].code = code /\ frames = <<>>
    BY <1>5, <2>1 DEF Level, NextRequest
  <2>7. \A i \in 1..Level' : CodeMeans(frames'[i].file, frames'[i].code)
    <3>1. \A i \in 1..Level' : i = 1
      BY <2>6
    <3> QED  BY <2>4, <2>6, <3>1
  <2> QED  BY <2>5, <2>6, <2>7 DEF MInv
<1>6. ChangeSetting \/ EndRequest \/ UNCHANGED vars =>
         UNCHANGED <<index, frames>> \/ (UNCHANGED frames /\ index' = [n \in Names |-> None])
  BY DEF ChangeSetting, EndRequest, vars
<1> QED  BY <1>2, <1>3, <1>4, <1>5, <1>6 DEF Next

\* Whatever the settings become, however names are resolved, from wherever a file is
\* included and whatever the index has: every include loads a file that its name leads
\* to, and the one the engine would find, unless the name leads to several and was
\* resolved before or is in the index.
THEOREM LoadsWhatIsMeant == Spec => LoadsWhatNameMeans
<1>1. Init => MInv
  BY DEF Init, MInv, EntryMeans, Level
<1>2. IInv /\ MInv /\ [Next]_vars => MInv'
  BY IncludeMeans, OthersMean
<1>3. IInv /\ MInv /\ [Next]_vars => [Including => NameMeans]_vars
  BY IncludeMeans, OthersMean DEF Including, Level
<1>4. [Including => NameMeans]_vars =>
        [Including =>
          LET l == New.by[1]
              n == Operand[New.by[2]]
          IN  /\ New.file \in Leads(n)
              /\ \/ AsEngine
                 \/ ~Clear(n) /\ (frames[l].code[New.by[2]].name # n \/ index[n] # None)]_vars
  BY DEF NameMeans
<1> QED  BY <1>1, <1>2, <1>3, <1>4, Invariance, PTL DEF Spec, LoadsWhatNameMeans
=============================================================================
