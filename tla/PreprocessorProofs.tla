------------------------- MODULE PreprocessorProofs -------------------------
(***************************************************************************)
(* TLAPS proof that the stacks of the preprocessor agree, for all programs *)
(* and limits: the chain of open macros and loops names the ends that are  *)
(* in the buffers, and the expansion that ends is always the innermost.    *)
(***************************************************************************)
EXTENDS PreprocessorProps, SequenceTheorems, TLAPS

-----------------------------------------------------------------------------
(* Types.                                                                  *)
EndText == [op |-> "end", arg |-> 0]
NamesOf(p) == {t.arg : t \in TextsOf(p)} \cup {Loop}
Wheres(p) == (DOMAIN p) \X Nat

BodyLines(p) == [text : TextsOf(p), where : Wheres(p), suppressed : {FALSE},
                 finishes : {NoBlock}]
Blocks(p) == [id : Nat \ {0}, name : NamesOf(p), body : Seq(BodyLines(p)),
              left : Int, outer : Seq(Nat)]
TextLines(p) == [text : TextsOf(p), where : Wheres(p), suppressed : BOOLEAN,
                 finishes : {NoBlock}]
EndLines(p) == [text : {EndText}, where : Wheres(p), suppressed : BOOLEAN,
                finishes : Blocks(p)]
Lines(p) == TextLines(p) \cup EndLines(p)
CondStates == {"IF_TRUE", "IF_FALSE", "DONE", "NEVER", "ELSE_TRUE", "ELSE_FALSE"}
Sources(p) == [file : DOMAIN p, read : Nat, where : Wheres(p),
               expansion : Seq(Lines(p)), conds : Seq(CondStates), mstk : Seq(Nat)]

PreprocessorTypeOK ==
    /\ program \in Programs
    /\ istk \in Seq(Sources(program))
    /\ defining \in Blocks(program) \cup {NoBlock}
    /\ nested_mac_count \in Nat /\ nested_rep_count \in Nat
    /\ \A i \in DOMAIN mmacros : mmacros[i] \in Blocks(program) /\ mmacros[i].name # Loop
    /\ blocks \in Nat
    /\ strayed \in BOOLEAN

-----------------------------------------------------------------------------
(* What a buffer keeps: %rep and %endrep balance in the body of a loop and *)
(* in what is left of it, and %exitrep and %exitmacro leave lines behind   *)
(* that are suppressed up to an end.                                       *)
Step(l) == IF l.text.op = "rep" THEN 1 ELSE IF l.text.op = "endrep" THEN -1 ELSE 0

(* How many loops are open in a body before each line and at its end.      *)
IsBodyDepth(d, body) ==
    /\ d \in [1..Len(body) + 1 -> Nat]
    /\ \A k \in DOMAIN body : d[k + 1] = d[k] + Step(body[k])
EndsAt(body, n) == \E d : IsBodyDepth(d, body) /\ d[Len(body) + 1] = n

(* The same for a buffer, where the next end is that of a loop.            *)
Outside == -1
IsDepth(d, e) ==
    /\ d \in [DOMAIN e -> Nat \cup {Outside}]
    /\ \A k \in DOMAIN e :
          /\ IsEnd(e[k]) => d[k] = IF e[k].finishes.name = Loop THEN 0 ELSE Outside
          /\ ~IsEnd(e[k]) =>
                IF k + 1 \in DOMAIN e /\ d[k + 1] # Outside
                THEN d[k] \in Nat /\ d[k + 1] = d[k] + Step(e[k])
                ELSE d[k] = Outside

LoopsBalance(e) ==
    /\ \A k \in DOMAIN e : e[k].finishes.name = Loop => EndsAt(e[k].finishes.body, 0)
    /\ \E d : IsDepth(d, e)
SuppressedFirst(e) ==
    \A j, k \in DOMAIN e : j < k /\ e[k].suppressed => e[j].suppressed
BufferInv(e) == LoopsBalance(e) /\ SuppressedFirst(e) /\ ChainsNest(e)

SourceInv(s) == BufferInv(s.expansion) /\ Names(s.mstk, s.expansion, 1)
FilesInv == \A i \in DOMAIN istk : SourceInv(istk[i])

(* A loop is being defined: its lines are not suppressed, its chain is that*)
(* of the file, its body is balanced up to the loops counted as open, and  *)
(* the buffer has their ends and its own before the end of the loop around.*)
Awake(s) == /\ s.conds = <<>> \/ Emitting(Head(s.conds))
            /\ \A i \in DOMAIN s.expansion : ~s.expansion[i].suppressed
EndIsAhead(e, count) ==
    \E d : IsDepth(d, e) /\ (e # <<>> /\ d[1] # Outside => d[1] > count)
LoopIsBegun ==
    /\ istk # <<>>
    /\ Awake(Top)
    /\ defining.outer = Top.mstk
    /\ EndsAt(defining.body, nested_rep_count)
    /\ EndIsAhead(Top.expansion, nested_rep_count)

DefinitionInv ==
    /\ defining.name = Loop /\ result = "running" => LoopIsBegun
    /\ defining.name # Loop => nested_rep_count = 0

PreprocessorInv ==
    /\ PreprocessorTypeOK
    /\ ~strayed => FilesInv /\ DefinitionInv /\ result # "assertion"

-----------------------------------------------------------------------------
(* Lines and what is told of them.                                         *)
LEMMA LineFacts ==
    ASSUME NEW p, NEW l \in Lines(p)
    PROVE  /\ ~IsEnd(l) => l \in TextLines(p) /\ l.finishes = NoBlock
                           /\ l.text \in TextsOf(p) /\ l.finishes.name # Loop
           /\ IsEnd(l) => l \in EndLines(p) /\ l.finishes \in Blocks(p)
                          /\ l.text = EndText
           /\ l.suppressed \in BOOLEAN
           /\ l.where \in Wheres(p)
           /\ Step(l) \in Int
  <1>1. CASE l \in TextLines(p)
    <2>1. l.finishes = NoBlock /\ l.text \in TextsOf(p)
          /\ l.suppressed \in BOOLEAN /\ l.where \in Wheres(p)
      BY <1>1 DEF TextLines
    <2>2. NoBlock.name # Loop
      BY DEF NoBlock, Loop
    <2>3. Step(l) \in Int
      BY DEF Step
    <2> QED
      BY <1>1, <2>1, <2>2, <2>3 DEF IsEnd
  <1>2. CASE l \in EndLines(p)
    <2>1. l.finishes \in Blocks(p)
      BY <1>2 DEF EndLines
    <2>2. l.finishes.id # NoBlock.id
      BY <2>1 DEF Blocks, NoBlock
    <2> QED
      BY <1>2, <2>1, <2>2 DEF EndLines, IsEnd, Step
  <1> QED
    BY <1>1, <1>2 DEF Lines

(* Two lines that differ in what is suppressed or counted only.            *)
Alike(x, y) ==
    /\ IsEnd(x) <=> IsEnd(y)
    /\ x.text = y.text
    /\ x.finishes.id = y.finishes.id
    /\ x.finishes.name = y.finishes.name
    /\ x.finishes.body = y.finishes.body
    /\ x.finishes.outer = y.finishes.outer

(* A chain names the ends of a buffer wherever its lines are moved.        *)
LEMMA NamesMove ==
    ASSUME NEW S, NEW e \in Seq(S), NEW f \in Seq(S), NEW n \in Int,
           Len(f) = Len(e) + n, NEW i \in Nat, i >= 1, i + n >= 1,
           \A j \in DOMAIN e : j >= i => Alike(e[j], f[j + n]),
           NEW chain, Names(chain, e, i)
    PROVE  Names(chain, f, i + n)
  <1>1. \A j \in DOMAIN f : j >= i + n => j - n \in DOMAIN e /\ Alike(e[j - n], f[j])
    <2> SUFFICES ASSUME NEW j \in DOMAIN f, j >= i + n
                 PROVE  j - n \in DOMAIN e /\ Alike(e[j - n], f[j])
      OBVIOUS
    <2>1. j - n \in DOMAIN e /\ j - n >= i /\ (j - n) + n = j
      OBVIOUS
    <2> QED
      BY <2>1, SMT
  <1>2. CASE chain = <<>> /\ \A j \in DOMAIN e : j >= i => ~IsEnd(e[j])
    <2>1. \A j \in DOMAIN f : j >= i + n => ~IsEnd(f[j])
      <3> SUFFICES ASSUME NEW j \in DOMAIN f, j >= i + n
                   PROVE  ~IsEnd(f[j])
        OBVIOUS
      <3>1. j - n \in DOMAIN e /\ j - n >= i /\ Alike(e[j - n], f[j])
        BY <1>1
      <3> QED
        BY <1>2, <3>1 DEF Alike
    <2> QED
      BY <1>2, <2>1 DEF Names
  <1>3. CASE \E j \in DOMAIN e :
                /\ FirstEnd(e, i, j)
                /\ chain = <<e[j].finishes.id>> \o e[j].finishes.outer
    <2>1. PICK j \in DOMAIN e :
                /\ FirstEnd(e, i, j)
                /\ chain = <<e[j].finishes.id>> \o e[j].finishes.outer
      BY <1>3
    <2>2. j + n \in DOMAIN f /\ Alike(e[j], f[j + n])
      BY <2>1 DEF FirstEnd
    <2>3. \A k \in i + n .. (j + n) - 1 : ~IsEnd(f[k])
      <3> SUFFICES ASSUME NEW k \in i + n .. (j + n) - 1
                   PROVE  ~IsEnd(f[k])
        OBVIOUS
      <3>1. k \in DOMAIN f /\ k >= i + n /\ k - n \in i .. j - 1
        BY <2>2
      <3> QED
        BY <1>1, <2>1, <3>1 DEF FirstEnd, Alike
    <2>4. FirstEnd(f, i + n, j + n)
      BY <2>1, <2>2, <2>3 DEF FirstEnd, Alike
    <2>5. chain = <<f[j + n].finishes.id>> \o f[j + n].finishes.outer
      BY <2>1, <2>2 DEF Alike
    <2> QED
      BY <2>2, <2>4, <2>5 DEF Names
  <1> QED
    BY <1>2, <1>3 DEF Names

-----------------------------------------------------------------------------
(* A buffer without its first line.                                        *)
LEMMA TailKept ==
    ASSUME NEW p, NEW e \in Seq(Lines(p)), e # <<>>, BufferInv(e)
    PROVE  /\ Tail(e) \in Seq(Lines(p))
           /\ BufferInv(Tail(e))
           /\ \A chain : Names(chain, e, 1) /\ ~IsEnd(e[1]) => Names(chain, Tail(e), 1)
           /\ IsEnd(e[1]) => Names(e[1].finishes.outer, Tail(e), 1)
           /\ \A d : IsDepth(d, e) =>
                 IsDepth([k \in DOMAIN Tail(e) |-> d[k + 1]], Tail(e))
  <1> DEFINE t == Tail(e)
  <1>1. /\ t \in Seq(Lines(p)) /\ Len(t) = Len(e) - 1
        /\ Len(e) \in Nat /\ 1 \in DOMAIN e
        /\ \A k \in DOMAIN t : k + 1 \in DOMAIN e /\ t[k] = e[k + 1]
        /\ DOMAIN t = 1 .. Len(t) /\ DOMAIN e = 1 .. Len(e)
    BY HeadTailProperties, LenProperties, EmptySeq
  <1>2. \A j \in DOMAIN e : j >= 2 => Alike(e[j], t[j + -1])
    <2> SUFFICES ASSUME NEW j \in DOMAIN e, j >= 2
                 PROVE  e[j] = t[j + -1]
      BY DEF Alike
    <2>1. j + -1 \in DOMAIN t /\ (j + -1) + 1 = j
      BY <1>1
    <2> QED
      BY <1>1, <2>1
  <1> HIDE DEF t
  <1>3. ASSUME NEW i \in Nat, i >= 1, NEW chain, Names(chain, e, i + 1)
        PROVE  Names(chain, t, i)
    <2> DEFINE n == -1
               m == i + 1
    <2>1. /\ m \in Nat /\ m >= 1 /\ m + n >= 1 /\ m + n = i /\ n \in Int
          /\ \A j \in DOMAIN e : j >= m => Alike(e[j], t[j + n])
          /\ Len(t) = Len(e) + n
      BY <1>1, <1>2, <1>3
    <2>2. Names(chain, e, m)
      BY <1>3
    <2>3. e \in Seq(Lines(p)) /\ t \in Seq(Lines(p))
      BY <1>1
    <2> HIDE DEF n, m
    <2>4. Names(chain, t, m + n)
      BY <2>1, <2>2, <2>3, NamesMove
    <2> QED
      BY <2>1, <2>4
  <1>4. \A chain : Names(chain, e, 1) /\ ~IsEnd(e[1]) => Names(chain, e, 2)
    <2> SUFFICES ASSUME NEW chain, Names(chain, e, 1), ~IsEnd(e[1])
                 PROVE  Names(chain, e, 2)
      OBVIOUS
    <2>1. ASSUME NEW j \in DOMAIN e, FirstEnd(e, 1, j)
          PROVE  FirstEnd(e, 2, j)
      <3>1. j # 1 /\ j >= 2
        BY <1>1, <2>1 DEF FirstEnd
      <3> QED
        BY <1>1, <2>1, <3>1 DEF FirstEnd
    <2>2. \A j \in DOMAIN e : j >= 2 => j >= 1
      BY <1>1
    <2> QED
      BY <2>1, <2>2 DEF Names
  <1>5. ChainsNest(t)
    <2> SUFFICES ASSUME NEW i \in DOMAIN t, IsEnd(t[i])
                 PROVE  Names(t[i].finishes.outer, t, i + 1)
      BY DEF ChainsNest
    <2>1. i + 1 \in DOMAIN e /\ t[i] = e[i + 1] /\ i + 1 \in Nat /\ i + 1 >= 1
      BY <1>1
    <2>2. Names(t[i].finishes.outer, e, (i + 1) + 1)
      BY <2>1 DEF BufferInv, ChainsNest
    <2> QED
      BY <1>3, <2>1, <2>2
  <1>6. SuppressedFirst(t)
    <2> SUFFICES ASSUME NEW j \in DOMAIN t, NEW k \in DOMAIN t, j < k, t[k].suppressed
                 PROVE  t[j].suppressed
      BY DEF SuppressedFirst
    <2>1. j + 1 < k + 1 /\ j + 1 \in DOMAIN e /\ k + 1 \in DOMAIN e
      BY <1>1
    <2> QED
      BY <1>1, <2>1 DEF BufferInv, SuppressedFirst
  <1>7. ASSUME NEW d, IsDepth(d, e)
        PROVE  IsDepth([k \in DOMAIN t |-> d[k + 1]], t)
    <2> DEFINE c == [k \in DOMAIN t |-> d[k + 1]]
    <2>1. c \in [DOMAIN t -> Nat \cup {Outside}]
      BY <1>1, <1>7 DEF IsDepth
    <2>2. \A k \in DOMAIN t : c[k] = d[k + 1]
      OBVIOUS
    <2> HIDE DEF c
    <2>3. ASSUME NEW k \in DOMAIN t
          PROVE  /\ IsEnd(t[k]) =>
                       c[k] = IF t[k].finishes.name = Loop THEN 0 ELSE Outside
                 /\ ~IsEnd(t[k]) =>
                       IF k + 1 \in DOMAIN t /\ c[k + 1] # Outside
                       THEN c[k] \in Nat /\ c[k + 1] = c[k] + Step(t[k])
                       ELSE c[k] = Outside
      <3>1. /\ k + 1 \in DOMAIN e /\ t[k] = e[k + 1] /\ c[k] = d[k + 1]
            /\ k + 1 \in DOMAIN t <=> (k + 1) + 1 \in DOMAIN e
            /\ k + 1 \in DOMAIN t => c[k + 1] = d[(k + 1) + 1]
        BY <1>1, <2>2
      <3> QED
        BY <1>7, <3>1 DEF IsDepth
    <2>4. IsDepth(c, t)
      BY <2>1, <2>3, Zenon DEF IsDepth
    <2> QED
      BY <2>4 DEF c
  <1>8. LoopsBalance(t)
    <2>1. \A k \in DOMAIN t :
             t[k].finishes.name = Loop => EndsAt(t[k].finishes.body, 0)
      BY <1>1 DEF BufferInv, LoopsBalance
    <2>2. \E d : IsDepth(d, t)
      BY <1>7 DEF BufferInv, LoopsBalance
    <2> QED
      BY <2>1, <2>2 DEF LoopsBalance
  <1>9. IsEnd(e[1]) => Names(e[1].finishes.outer, t, 1)
    <2> SUFFICES ASSUME IsEnd(e[1]) PROVE Names(e[1].finishes.outer, t, 1)
      OBVIOUS
    <2>1. Names(e[1].finishes.outer, e, 1 + 1)
      BY <1>1 DEF BufferInv, ChainsNest
    <2> QED
      BY <1>3, <2>1
  <1>10. \A chain : Names(chain, e, 1) /\ ~IsEnd(e[1]) => Names(chain, t, 1)
    BY <1>3, <1>4
  <1> QED
    BY <1>1, <1>5, <1>6, <1>7, <1>8, <1>9, <1>10 DEF BufferInv, t

(* A buffer in which lines were suppressed and loops counted.              *)
LEMMA AlikeKept ==
    ASSUME NEW p, NEW e \in Seq(Lines(p)), NEW f \in Seq(Lines(p)),
           Len(f) = Len(e), \A j \in DOMAIN e : Alike(e[j], f[j]),
           BufferInv(e), SuppressedFirst(f)
    PROVE  /\ BufferInv(f)
           /\ \A chain : Names(chain, e, 1) => Names(chain, f, 1)
           /\ \A d : IsDepth(d, e) => IsDepth(d, f)
  <1>1. /\ DOMAIN e = 1 .. Len(e) /\ DOMAIN f = DOMAIN e /\ Len(e) \in Nat
    BY LenProperties
  <1>2. \A i \in Nat : \A chain : i >= 1 /\ Names(chain, e, i) => Names(chain, f, i)
    <2> SUFFICES ASSUME NEW i \in Nat, NEW chain, i >= 1, Names(chain, e, i)
                 PROVE  Names(chain, f, i)
      OBVIOUS
    <2> DEFINE n == 0
    <2>1. /\ i + n = i /\ i + n >= 1 /\ n \in Int /\ Len(f) = Len(e) + n
          /\ \A j \in DOMAIN e : j >= i => Alike(e[j], f[j + n])
      BY <1>1
    <2> HIDE DEF n
    <2>2. Names(chain, f, i + n)
      BY <2>1, NamesMove
    <2> QED
      BY <2>1, <2>2
  <1>3. ChainsNest(f)
    <2> SUFFICES ASSUME NEW i \in DOMAIN f, IsEnd(f[i])
                 PROVE  Names(f[i].finishes.outer, f, i + 1)
      BY DEF ChainsNest
    <2>1. /\ i \in DOMAIN e /\ IsEnd(e[i]) /\ i + 1 \in Nat /\ i + 1 >= 1
          /\ e[i].finishes.outer = f[i].finishes.outer
      BY <1>1 DEF Alike
    <2> QED
      BY <1>2, <2>1 DEF BufferInv, ChainsNest
  <1>4. ASSUME NEW d, IsDepth(d, e) PROVE IsDepth(d, f)
    <2>1. \A k \in DOMAIN e : Step(f[k]) = Step(e[k])
      BY DEF Alike, Step
    <2>2. d \in [DOMAIN f -> Nat \cup {Outside}]
      BY <1>1, <1>4 DEF IsDepth
    <2>3. ASSUME NEW k \in DOMAIN f
          PROVE  /\ IsEnd(f[k]) =>
                       d[k] = IF f[k].finishes.name = Loop THEN 0 ELSE Outside
                 /\ ~IsEnd(f[k]) =>
                       IF k + 1 \in DOMAIN f /\ d[k + 1] # Outside
                       THEN d[k] \in Nat /\ d[k + 1] = d[k] + Step(f[k])
                       ELSE d[k] = Outside
      BY <1>1, <1>4, <2>1 DEF IsDepth, Alike
    <2> QED
      BY <2>2, <2>3, Zenon DEF IsDepth
  <1>5. LoopsBalance(f)
    <2>1. \A k \in DOMAIN f :
             f[k].finishes.name = Loop => EndsAt(f[k].finishes.body, 0)
      BY <1>1, Zenon DEF BufferInv, LoopsBalance, Alike
    <2>2. \E d : IsDepth(d, f)
      BY <1>4 DEF BufferInv, LoopsBalance
    <2> QED
      BY <2>1, <2>2 DEF LoopsBalance
  <1> QED
    BY <1>2, <1>3, <1>4, <1>5 DEF BufferInv

(* The lines of an expansion and its end in front of a buffer.             *)
LEMMA Pushed ==
    ASSUME NEW p, NEW e \in Seq(Lines(p)), NEW b \in Seq(BodyLines(p)),
           NEW m \in EndLines(p),
           BufferInv(e), ~m.suppressed, \A j \in DOMAIN e : ~e[j].suppressed,
           m.finishes.name = Loop =>
               EndsAt(b, 0) /\ EndsAt(m.finishes.body, 0),
           Names(m.finishes.outer, e, 1)
    PROVE  LET f == b \o <<m>> \o e
           IN /\ f \in Seq(Lines(p))
              /\ BufferInv(f)
              /\ Names(<<m.finishes.id>> \o m.finishes.outer, f, 1)
  <1> DEFINE f == b \o <<m>> \o e
             n == Len(b) + 1
  <1>1. b \in Seq(Lines(p)) /\ m \in Lines(p) /\ IsEnd(m)
    <2>1. BodyLines(p) \subseteq Lines(p) /\ m \in Lines(p)
      BY DEF BodyLines, TextLines, Lines
    <2>2. m.finishes.id # NoBlock.id
      BY DEF EndLines, Blocks, NoBlock
    <2> QED
      BY <2>1, <2>2, SeqMonotonic DEF IsEnd
  <1>2. /\ f \in Seq(Lines(p)) /\ Len(f) = Len(e) + n
        /\ DOMAIN f = 1 .. Len(f) /\ DOMAIN e = 1 .. Len(e) /\ DOMAIN b = 1 .. Len(b)
        /\ Len(b) \in Nat /\ Len(e) \in Nat /\ n \in Nat
        /\ f[n] = m
        /\ \A k \in DOMAIN b : f[k] = b[k]
        /\ \A k \in DOMAIN e : f[k + n] = e[k]
    <2> DEFINE g == b \o <<m>>
    <2>1. <<m>> \in Seq(Lines(p)) /\ Len(<<m>>) = 1 /\ <<m>>[1] = m
      BY <1>1
    <2>2. /\ g \in Seq(Lines(p)) /\ Len(g) = Len(b) + 1
          /\ \A i \in 1 .. Len(b) + 1 : g[i] = IF i <= Len(b) THEN b[i]
                                               ELSE <<m>>[i - Len(b)]
      BY <1>1, <2>1, ConcatProperties
    <2> HIDE DEF g
    <2>3. /\ g \o e \in Seq(Lines(p)) /\ Len(g \o e) = Len(g) + Len(e)
          /\ \A i \in 1 .. Len(g) + Len(e) : (g \o e)[i] = IF i <= Len(g) THEN g[i]
                                                           ELSE e[i - Len(g)]
      BY <2>2, ConcatProperties
    <2>4. f = g \o e
      BY DEF g
    <2>5. Len(b) \in Nat /\ Len(e) \in Nat /\ DOMAIN e = 1 .. Len(e)
          /\ DOMAIN b = 1 .. Len(b)
      BY LenProperties
    <2> HIDE DEF f
    <2>6. DOMAIN f = 1 .. Len(f)
      BY <2>3, <2>4, LenProperties
    <2>7. f[n] = m
      BY <2>1, <2>2, <2>3, <2>4, <2>5
    <2>8. \A k \in DOMAIN b : f[k] = b[k]
      BY <2>2, <2>3, <2>4, <2>5
    <2>9. \A k \in DOMAIN e : f[k + n] = e[k]
      BY <2>2, <2>3, <2>4, <2>5
    <2> QED
      BY <2>2, <2>3, <2>4, <2>5, <2>6, <2>7, <2>8, <2>9
  <1> HIDE DEF f
  <1>3. \A k \in DOMAIN f : \/ k \in DOMAIN b /\ f[k] = b[k] /\ ~IsEnd(f[k])
                                 /\ ~f[k].suppressed
                            \/ k = n /\ f[k] = m
                            \/ k - n \in DOMAIN e /\ f[k] = e[k - n] /\ k > n
    <2>1. \A k \in DOMAIN b : ~IsEnd(b[k]) /\ ~b[k].suppressed
      <3>1. \A k \in DOMAIN b : b[k] \in BodyLines(p)
        BY <1>2, ElementOfSeq
      <3> QED
        BY <3>1 DEF BodyLines, IsEnd
    <2> SUFFICES ASSUME NEW k \in DOMAIN f
                 PROVE  \/ k \in DOMAIN b /\ f[k] = b[k] /\ ~IsEnd(f[k])
                              /\ ~f[k].suppressed
                        \/ k = n /\ f[k] = m
                        \/ k - n \in DOMAIN e /\ f[k] = e[k - n] /\ k > n
      OBVIOUS
    <2>2. k \in DOMAIN b \/ k = n \/ (k > n /\ k - n \in DOMAIN e)
      BY <1>2
    <2>3. ASSUME k > n, k - n \in DOMAIN e PROVE f[k] = e[k - n]
      <3>1. (k - n) + n = k
        BY <1>2
      <3> QED
        BY <1>2, <2>3, <3>1
    <2> QED
      BY <1>2, <2>1, <2>2, <2>3
  <1>4. ASSUME NEW i \in Nat, i >= 1, NEW chain, Names(chain, e, i)
        PROVE  Names(chain, f, i + n)
    <2>1. \A j \in DOMAIN e : j >= i => Alike(e[j], f[j + n])
      BY <1>2 DEF Alike
    <2>2. n \in Int /\ i + n >= 1
      BY <1>2
    <2> HIDE DEF n
    <2> QED
      BY <1>2, <1>4, <2>1, <2>2, NamesMove
  <1>5. Names(<<m.finishes.id>> \o m.finishes.outer, f, 1)
    <2>1. FirstEnd(f, 1, n)
      <3>1. \A k \in 1 .. n - 1 : k \in DOMAIN f /\ k # n /\ ~(k > n)
        BY <1>2
      <3>2. \A k \in 1 .. n - 1 : ~IsEnd(f[k])
        BY <1>3, <3>1
      <3> QED
        BY <1>1, <1>2, <3>2 DEF FirstEnd
    <2>2. n \in DOMAIN f /\ f[n] = m
      BY <1>2
    <2> HIDE DEF n
    <2> QED
      BY <2>1, <2>2 DEF Names
  <1>6. ChainsNest(f)
    <2> SUFFICES ASSUME NEW i \in DOMAIN f, IsEnd(f[i])
                 PROVE  Names(f[i].finishes.outer, f, i + 1)
      BY DEF ChainsNest
    <2>1. CASE i = n /\ f[i] = m
      <3>1. Names(m.finishes.outer, f, 1 + n)
        BY <1>4
      <3>2. i + 1 = 1 + n
        BY <1>2, <2>1
      <3> QED
        BY <2>1, <3>1, <3>2
    <2>2. CASE i - n \in DOMAIN e /\ f[i] = e[i - n]
      <3> DEFINE j == i - n
      <3>1. j \in DOMAIN e /\ j + 1 \in Nat /\ j + 1 >= 1 /\ (j + 1) + n = i + 1
        <4>1. i \in Int /\ n \in Int /\ DOMAIN e = 1 .. Len(e) /\ Len(e) \in Nat
          BY <1>2
        <4> HIDE DEF n
        <4>2. j \in 1 .. Len(e)
          BY <2>2, <4>1
        <4>3. j \in Int /\ j + n = i
          BY <4>1
        <4> HIDE DEF j
        <4>4. j \in DOMAIN e /\ j + 1 \in Nat /\ j + 1 >= 1
          BY <4>1, <4>2
        <4>5. (j + 1) + n = i + 1
          BY <4>1, <4>3
        <4> QED
          BY <4>4, <4>5
      <3>2. Names(e[j].finishes.outer, e, j + 1)
        BY <2>2 DEF BufferInv, ChainsNest
      <3> HIDE DEF j, n
      <3>3. Names(e[j].finishes.outer, f, (j + 1) + n)
        BY <1>4, <3>1, <3>2
      <3> QED
        BY <2>2, <3>1, <3>3 DEF j
    <2> QED
      BY <1>3, <2>1, <2>2
  <1>7. SuppressedFirst(f)
    <2>1. \A k \in DOMAIN f : ~f[k].suppressed
      BY <1>3
    <2> QED
      BY <2>1 DEF SuppressedFirst
  <1>8. \A k \in DOMAIN f :
           f[k].finishes.name = Loop => EndsAt(f[k].finishes.body, 0)
    <2>1. \A k \in DOMAIN b : b[k].finishes.name # Loop
      <3>1. \A k \in DOMAIN b : b[k] \in BodyLines(p)
        BY <1>2, ElementOfSeq
      <3>2. NoBlock.name # Loop
        BY DEF NoBlock, Loop
      <3> QED
        BY <3>1, <3>2 DEF BodyLines
    <2>2. \A k \in DOMAIN e :
             e[k].finishes.name = Loop => EndsAt(e[k].finishes.body, 0)
      BY DEF BufferInv, LoopsBalance
    <2> QED
      BY <1>3, <2>1, <2>2
  <1>9. \E d : IsDepth(d, f)
    <2>1. PICK c : IsDepth(c, e)
      BY DEF BufferInv, LoopsBalance
    <2>2. ASSUME NEW a, a \in [1 .. n -> Nat \cup {Outside}],
                 a[n] = IF m.finishes.name = Loop THEN 0 ELSE Outside,
                 \A k \in DOMAIN b : IF a[k + 1] # Outside
                                     THEN a[k] \in Nat /\ a[k + 1] = a[k] + Step(b[k])
                                     ELSE a[k] = Outside
          PROVE  \E d : IsDepth(d, f)
      <3> DEFINE d == [k \in DOMAIN f |-> IF k <= n THEN a[k] ELSE c[k - n]]
      <3>1. c \in [DOMAIN e -> Nat \cup {Outside}]
        BY <2>1 DEF IsDepth
      <3>2. d \in [DOMAIN f -> Nat \cup {Outside}]
        <4> SUFFICES ASSUME NEW k \in DOMAIN f
                     PROVE  (IF k <= n THEN a[k] ELSE c[k - n]) \in Nat \cup {Outside}
          OBVIOUS
        <4>1. k <= n => k \in 1 .. n
          BY <1>2
        <4>2. ~(k <= n) => k - n \in DOMAIN e
          BY <1>2
        <4> HIDE DEF n
        <4> QED
          BY <2>2, <3>1, <4>1, <4>2
      <3>3. \A k \in DOMAIN f : d[k] = IF k <= n THEN a[k] ELSE c[k - n]
        OBVIOUS
      <3> HIDE DEF d
      <3>4. ASSUME NEW k \in DOMAIN f
            PROVE  /\ IsEnd(f[k]) =>
                         d[k] = IF f[k].finishes.name = Loop THEN 0 ELSE Outside
                   /\ ~IsEnd(f[k]) =>
                         IF k + 1 \in DOMAIN f /\ d[k + 1] # Outside
                         THEN d[k] \in Nat /\ d[k + 1] = d[k] + Step(f[k])
                         ELSE d[k] = Outside
        <4>1. CASE k \in DOMAIN b /\ f[k] = b[k] /\ ~IsEnd(f[k])
          <5>1. k <= n /\ k + 1 <= n /\ k + 1 \in DOMAIN f
            BY <1>2, <4>1
          <5>2. d[k] = a[k] /\ d[k + 1] = a[k + 1]
            BY <3>3, <5>1
          <5> QED
            BY <2>2, <4>1, <5>1, <5>2
        <4>2. CASE k = n /\ f[k] = m
          <5>1. d[k] = a[n]
            BY <1>2, <3>3, <4>2
          <5> QED
            BY <1>1, <2>2, <4>2, <5>1
        <4>3. CASE k - n \in DOMAIN e /\ f[k] = e[k - n] /\ k > n
          <5> DEFINE j == k - n
          <5>1. /\ j \in DOMAIN e /\ f[k] = e[j] /\ d[k] = c[j]
                /\ k + 1 \in DOMAIN f <=> j + 1 \in DOMAIN e
                /\ k + 1 \in DOMAIN f => d[k + 1] = c[j + 1]
            <6>1. ~(k <= n) /\ ~(k + 1 <= n) /\ (k + 1) - n = (k - n) + 1
              BY <1>2, <4>3
            <6>2. k + 1 \in DOMAIN f <=> (k - n) + 1 \in DOMAIN e
              BY <1>2, <4>3
            <6> QED
              BY <3>3, <4>3, <6>1, <6>2
          <5> HIDE DEF j
          <5> QED
            BY <2>1, <5>1 DEF IsDepth
        <4> QED
          BY <1>3, <4>1, <4>2, <4>3
      <3>5. IsDepth(d, f)
        BY <3>2, <3>4, Zenon DEF IsDepth
      <3> QED
        BY <3>5
    <2>3. CASE m.finishes.name = Loop
      <3>1. PICK a : IsBodyDepth(a, b) /\ a[Len(b) + 1] = 0
        BY <2>3 DEF EndsAt
      <3>2. a \in [1 .. n -> Nat] /\ a[n] = 0
        BY <3>1 DEF IsBodyDepth
      <3>3. \A k \in DOMAIN b : k + 1 \in 1 .. n /\ k \in 1 .. n
        BY <1>2
      <3>4. \A k \in DOMAIN b : a[k] \in Nat /\ a[k + 1] \in Nat /\ a[k + 1] # Outside
        BY <3>2, <3>3 DEF Outside
      <3>5. a \in [1 .. n -> Nat \cup {Outside}]
        BY <3>2
      <3> HIDE DEF n
      <3> QED
        BY <2>2, <2>3, <3>1, <3>2, <3>4, <3>5 DEF IsBodyDepth
    <2>4. CASE m.finishes.name # Loop
      <3> DEFINE a == [k \in 1 .. n |-> Outside]
      <3>1. /\ a \in [1 .. n -> Nat \cup {Outside}] /\ a[n] = Outside
            /\ \A k \in DOMAIN b : a[k] = Outside /\ a[k + 1] = Outside
        BY <1>2
      <3> HIDE DEF a, n
      <3> QED
        BY <2>2, <2>4, <3>1
    <2> QED
      BY <2>3, <2>4
  <1> QED
    BY <1>2, <1>5, <1>6, <1>7, <1>8, <1>9 DEF BufferInv, LoopsBalance, f

-----------------------------------------------------------------------------
(* Taking a line.                                                          *)
LEMMA TopIsTyped ==
    ASSUME PreprocessorTypeOK, istk # <<>>
    PROVE  /\ Top \in Sources(program)
           /\ Tail(istk) \in Seq(Sources(program))
           /\ Len(Tail(istk)) = Len(istk) - 1 /\ Len(istk) \in Nat
           /\ DOMAIN istk = 1 .. Len(istk)
           /\ \A i \in 1 .. Len(istk) - 1 : Tail(istk)[i] = istk[i + 1]
           /\ 1 \in DOMAIN istk /\ Top = istk[1]
           /\ \A f \in DOMAIN program : program[f] \in Seq(TextsOf(program))
  <1>1. istk \in Seq(Sources(program)) /\ program \in Programs
    BY DEF PreprocessorTypeOK
  <1>2. \A f \in DOMAIN program : program[f] \in Seq(TextsOf(program))
    BY <1>1, PreprocessorAssumption
  <1>3. Len(istk) \in Nat \ {0} /\ DOMAIN istk = 1 .. Len(istk)
    BY <1>1, EmptySeq, LenProperties
  <1>4. /\ Tail(istk) \in Seq(Sources(program))
        /\ Len(Tail(istk)) = Len(istk) - 1
        /\ \A i \in 1 .. Len(Tail(istk)) : Tail(istk)[i] = istk[i + 1]
    BY <1>1, HeadTailProperties
  <1>5. Top = istk[1] /\ Top \in Sources(program)
    BY <1>1, <1>3, HeadTailProperties DEF Top
  <1> QED
    BY <1>2, <1>3, <1>4, <1>5

LEMMA TakenIsTyped ==
    ASSUME PreprocessorTypeOK, istk # <<>>, AtLine
    PROVE  /\ Taken \in Sources(program)
           /\ Line.text \in TextsOf(program)
           /\ Taken.mstk = Top.mstk /\ Taken.conds = Top.conds
           /\ Line.suppressed \in BOOLEAN
           /\ Top.expansion = <<>> => Taken.expansion = <<>> /\ ~Line.suppressed
           /\ Top.expansion # <<>> => /\ ~IsEnd(Top.expansion[1])
                                      /\ Line = Top.expansion[1]
                                      /\ Taken.expansion = Tail(Top.expansion)
  <1>0. /\ Top \in Sources(program)
        /\ \A f \in DOMAIN program : program[f] \in Seq(TextsOf(program))
    BY TopIsTyped
  <1>1. CASE Top.expansion # <<>>
    <2>1. /\ Top.expansion \in Seq(Lines(program))
          /\ Top.where \in Wheres(program)
      BY <1>0 DEF Sources
    <2>2. /\ Head(Top.expansion) = Top.expansion[1]
          /\ Head(Top.expansion) \in Lines(program)
          /\ Tail(Top.expansion) \in Seq(Lines(program))
      BY <1>1, <2>1, HeadTailProperties
    <2>3. Line = Top.expansion[1] /\ ~IsEnd(Line) /\ Line \in Lines(program)
      BY <1>1, <2>2 DEF Line, AtLine, AtMacroEnd, IsEnd
    <2>4. Line.text \in TextsOf(program) /\ Line.where \in Wheres(program)
          /\ Line.suppressed \in BOOLEAN
      BY <2>3, LineFacts
    <2>5. Taken = [Top EXCEPT !.expansion = Tail(@), !.where = Line.where]
      BY <1>1 DEF Taken
    <2> QED
      BY <1>0, <1>1, <2>2, <2>3, <2>4, <2>5 DEF Sources
  <1>2. CASE Top.expansion = <<>>
    <2>1. /\ Top.file \in DOMAIN program /\ Top.read \in Nat
          /\ Top.where \in (DOMAIN program) \X Nat
      BY <1>0 DEF Sources, Wheres
    <2>2. Top.read < Len(program[Top.file])
      BY <1>2 DEF AtLine
    <2>3. program[Top.file][Top.read + 1] \in TextsOf(program)
      <3>1. Top.read + 1 \in 1 .. Len(program[Top.file])
        BY <1>0, <2>1, <2>2, LenProperties
      <3> QED
        BY <1>0, <2>1, <3>1, ElementOfSeq
    <2>4. Line = Text(program[Top.file][Top.read + 1], <<Top.where[1], Top.where[2] + 1>>)
      BY <1>2 DEF Line
    <2>5. /\ Line.text = program[Top.file][Top.read + 1]
          /\ Line.where \in Wheres(program) /\ Line.suppressed = FALSE
      BY <2>1, <2>4 DEF Text, Wheres
    <2>6. Taken = [Top EXCEPT !.read = @ + 1, !.where = Line.where]
      BY <1>2 DEF Taken
    <2>7. Taken \in Sources(program) /\ Taken.mstk = Top.mstk
          /\ Taken.conds = Top.conds /\ Taken.expansion = Top.expansion
      <3>1. Top.read + 1 \in Nat
        BY <2>1
      <3> QED
        BY <1>0, <2>5, <2>6, <3>1 DEF Sources
    <2> QED
      BY <1>2, <2>3, <2>5, <2>7
  <1> QED
    BY <1>1, <1>2

LEMMA TakenKept ==
    ASSUME PreprocessorTypeOK, istk # <<>>, AtLine, SourceInv(Top)
    PROVE  /\ SourceInv(Taken)
           /\ ~Suppressed => Awake(Taken)
           /\ \A d : IsDepth(d, Top.expansion) =>
                 \E c : /\ IsDepth(c, Taken.expansion)
                        /\ Taken.expansion # <<>> =>
                              /\ c[1] = d[2] /\ 2 \in DOMAIN Top.expansion
                              /\ 1 \in DOMAIN Top.expansion
  <1> DEFINE e == Top.expansion
             t == Taken.expansion
  <1>1. e \in Seq(Lines(program)) /\ t \in Seq(Lines(program))
    BY TopIsTyped, TakenIsTyped DEF Sources
  <1>2. CASE e = <<>>
    <2>1. t = e /\ DOMAIN e = {}
      BY <1>1, <1>2, TakenIsTyped
    <2>2. SourceInv(Taken)
      BY <2>1, TakenIsTyped DEF SourceInv
    <2>3. ~Suppressed => Awake(Taken)
      BY <2>1, TakenIsTyped DEF Awake, Suppressed
    <2> QED
      BY <1>2, <2>1, <2>2, <2>3
  <1>3. CASE e # <<>>
    <2>1. t = Tail(e) /\ ~IsEnd(e[1]) /\ Line = e[1]
      BY <1>3, TakenIsTyped
    <2>2. /\ BufferInv(t)
          /\ \A chain : Names(chain, e, 1) => Names(chain, t, 1)
          /\ \A d : IsDepth(d, e) => IsDepth([k \in DOMAIN t |-> d[k + 1]], t)
      BY <1>1, <1>3, <2>1, TailKept DEF SourceInv
    <2>3. SourceInv(Taken)
      BY <2>2, TakenIsTyped DEF SourceInv
    <2>4. /\ Len(t) = Len(e) - 1 /\ Len(e) \in Nat \ {0} /\ Len(t) \in Nat
          /\ DOMAIN e = 1 .. Len(e) /\ DOMAIN t = 1 .. Len(t)
          /\ \A k \in 1 .. Len(t) : t[k] = e[k + 1]
          /\ t # <<>> => Len(t) # 0
      BY <1>1, <1>3, <2>1, HeadTailProperties, EmptySeq, LenProperties
    <2>5. ASSUME ~Suppressed PROVE Awake(Taken)
      <3>1. ~e[1].suppressed /\ (Top.conds = <<>> \/ Emitting(Head(Top.conds)))
        BY <2>1, <2>5 DEF Suppressed
      <3>2. \A k \in DOMAIN t : 1 < k + 1 /\ 1 \in DOMAIN e /\ k + 1 \in DOMAIN e
        BY <2>4
      <3>3. \A k \in DOMAIN t : ~e[k + 1].suppressed
        BY <3>1, <3>2 DEF SourceInv, BufferInv, SuppressedFirst
      <3>4. \A k \in DOMAIN t : ~t[k].suppressed
        BY <2>4, <3>3
      <3> QED
        BY <3>1, <3>4, TakenIsTyped DEF Awake
    <2>6. ASSUME NEW d, IsDepth(d, e)
          PROVE  \E c : /\ IsDepth(c, t)
                        /\ t # <<>> =>
                              c[1] = d[2] /\ 2 \in DOMAIN e /\ 1 \in DOMAIN e
      <3> DEFINE c == [k \in DOMAIN t |-> d[k + 1]]
      <3>1. IsDepth(c, t)
        BY <2>2, <2>6
      <3>2. t # <<>> => c[1] = d[2] /\ 2 \in DOMAIN e /\ 1 \in DOMAIN e
        BY <2>4
      <3> HIDE DEF c
      <3> QED
        BY <3>1, <3>2
    <2> QED
      BY <2>3, <2>5, <2>6
  <1> QED
    BY <1>2, <1>3

(* Another file on top of the include stack.                               *)
LEMMA TopChanges ==
    ASSUME PreprocessorTypeOK, istk # <<>>, program' = program,
           NEW top \in Sources(program), SetTop(top)
    PROVE  /\ istk' \in Seq(Sources(program'))
           /\ istk' # <<>> /\ Top' = top
           /\ FilesInv /\ SourceInv(top) => FilesInv'
  <1> DEFINE rest == Tail(istk)
             new == <<top>> \o rest
  <1>1. /\ rest \in Seq(Sources(program)) /\ Len(rest) = Len(istk) - 1
        /\ Len(istk) \in Nat /\ DOMAIN istk = 1 .. Len(istk)
        /\ \A i \in 1 .. Len(rest) : rest[i] = istk[i + 1]
    BY TopIsTyped
  <1>2. istk' = new
    BY DEF SetTop
  <1>3. <<top>> \in Seq(Sources(program)) /\ Len(<<top>>) = 1 /\ <<top>>[1] = top
    OBVIOUS
  <1> HIDE DEF rest
  <1>4. /\ new \in Seq(Sources(program))
        /\ Len(new) = 1 + Len(rest)
        /\ \A i \in 1 .. 1 + Len(rest) : new[i] = IF i <= 1 THEN <<top>>[i]
                                                  ELSE rest[i - 1]
    BY <1>1, <1>3, ConcatProperties
  <1> HIDE DEF new
  <1>5. /\ DOMAIN new = 1 .. Len(new) /\ Len(new) = 1 + Len(rest) /\ Len(rest) \in Nat
        /\ new # <<>> /\ new[1] = top
        /\ \A i \in DOMAIN new : i # 1 => i - 1 \in 1 .. Len(rest) /\ new[i] = rest[i - 1]
    BY <1>1, <1>3, <1>4, LenProperties, EmptySeq
  <1>6. istk' # <<>> /\ Top' = top
    <2>1. Head(new) = new[1]
      BY <1>4, <1>5, HeadTailProperties
    <2> QED
      BY <1>2, <1>5, <2>1 DEF Top
  <1>7. ASSUME FilesInv, SourceInv(top) PROVE FilesInv'
    <2>1. \A i \in 1 .. Len(rest) : SourceInv(rest[i])
      <3>1. \A i \in 1 .. Len(rest) : i + 1 \in DOMAIN istk /\ rest[i] = istk[i + 1]
        BY <1>1
      <3> QED
        BY <1>7, <3>1 DEF FilesInv
    <2>2. \A i \in DOMAIN new : SourceInv(new[i])
      BY <1>5, <1>7, <2>1
    <2> QED
      BY <1>2, <2>2 DEF FilesInv
  <1> QED
    BY <1>2, <1>4, <1>6, <1>7

LEMMA TopIsKept ==
    ASSUME PreprocessorTypeOK, istk # <<>>, FilesInv
    PROVE  SourceInv(Top)
  BY TopIsTyped DEF FilesInv

-----------------------------------------------------------------------------
(* Types.                                                                  *)
LEMMA EndIsTyped ==
    ASSUME NEW p, NEW block \in Blocks(p), NEW where \in Wheres(p)
    PROVE  /\ MacroEnd(block, where) \in EndLines(p)
           /\ MacroEnd(block, where).finishes = block
           /\ ~MacroEnd(block, where).suppressed
  <1> DEFINE line == Text(EndText, where)
  <1>1. line \in [text : {EndText}, where : Wheres(p), suppressed : {FALSE},
                  finishes : {NoBlock}]
    BY DEF Text
  <1>2. MacroEnd(block, where) = [line EXCEPT !.finishes = block]
    BY DEF MacroEnd, EndText
  <1> HIDE DEF line
  <1> QED
    BY <1>1, <1>2 DEF EndLines

LEMMA BodyIsTyped ==
    ASSUME NEW p, NEW b \in Seq(BodyLines(p))
    PROVE  b \in Seq(Lines(p))
  <1>1. BodyLines(p) \subseteq Lines(p)
    BY DEF BodyLines, TextLines, Lines
  <1> QED
    BY <1>1, SeqMonotonic

LEMMA CountedIsTyped ==
    ASSUME NEW p, NEW block \in Blocks(p), NEW n \in Int
    PROVE  LET c == [block EXCEPT !.left = n]
           IN /\ c \in Blocks(p)
              /\ c.id = block.id /\ c.name = block.name
              /\ c.body = block.body /\ c.outer = block.outer
  BY DEF Blocks

(* The lines that %exitrep or %exitmacro marks.                            *)
LEMMA ExitedIsTyped ==
    ASSUME NEW p, NEW e \in Seq(Lines(p)), NEW last
    PROVE  /\ Exited(e, last) \in Seq(Lines(p))
           /\ Len(Exited(e, last)) = Len(e)
           /\ \A i \in DOMAIN e :
                 /\ Alike(e[i], Exited(e, last)[i])
                 /\ Exited(e, last)[i].suppressed <=> i < last \/ e[i].suppressed
  <1> DEFINE x(i) == IF i < last THEN [e[i] EXCEPT !.suppressed = TRUE]
                     ELSE IF i = last /\ e[i].finishes.name = Loop
                     THEN [e[i] EXCEPT !.finishes.left = 1] ELSE e[i]
  <1>1. Exited(e, last) = [i \in DOMAIN e |-> x(i)]
    BY DEF Exited
  <1>2. DOMAIN e = 1 .. Len(e) /\ Len(e) \in Nat
    BY LenProperties
  <1>3. ASSUME NEW i \in DOMAIN e
        PROVE  /\ x(i) \in Lines(p) /\ Alike(e[i], x(i))
               /\ x(i).suppressed <=> i < last \/ e[i].suppressed
    <2>1. e[i] \in Lines(p)
      BY <1>2, ElementOfSeq
    <2>0. e[i].suppressed \in BOOLEAN
      BY <2>1, LineFacts
    <2>2. CASE i < last
      <3>1. x(i) = [e[i] EXCEPT !.suppressed = TRUE]
        BY <2>2
      <3> HIDE DEF x
      <3>2. CASE e[i] \in TextLines(p)
        BY <2>2, <3>1, <3>2 DEF Lines, TextLines, Alike, IsEnd
      <3>3. CASE e[i] \in EndLines(p)
        BY <2>2, <3>1, <3>3 DEF Lines, EndLines, Alike, IsEnd
      <3> QED
        BY <2>1, <3>2, <3>3 DEF Lines
    <2>3. CASE ~(i < last) /\ i = last /\ e[i].finishes.name = Loop
      <3>1. x(i) = [e[i] EXCEPT !.finishes.left = 1]
        BY <2>3
      <3>2. e[i] \in EndLines(p) /\ IsEnd(e[i]) /\ e[i].finishes \in Blocks(p)
        BY <2>1, <2>3, LineFacts
      <3> HIDE DEF x
      <3>3. /\ x(i) \in EndLines(p) /\ x(i).suppressed = e[i].suppressed
            /\ x(i).finishes = [e[i].finishes EXCEPT !.left = 1]
            /\ x(i).text = e[i].text
        <4> DEFINE block == [e[i].finishes EXCEPT !.left = 1]
        <4>1. block \in Blocks(p)
          <5>1. 1 \in Int
            OBVIOUS
          <5> QED
            BY <3>2, <5>1, CountedIsTyped
        <4>2. x(i) = [e[i] EXCEPT !.finishes = block]
          BY <3>1
        <4> HIDE DEF block
        <4>3. /\ x(i) \in EndLines(p) /\ x(i).suppressed = e[i].suppressed
              /\ x(i).finishes = block /\ x(i).text = e[i].text
          BY <3>2, <4>1, <4>2 DEF EndLines
        <4> QED
          BY <4>3 DEF block
      <3>4. /\ x(i).finishes.id = e[i].finishes.id
            /\ x(i).finishes.name = e[i].finishes.name
            /\ x(i).finishes.body = e[i].finishes.body
            /\ x(i).finishes.outer = e[i].finishes.outer
        BY <3>2, <3>3 DEF Blocks
      <3>5. x(i) \in Lines(p) /\ IsEnd(x(i))
        <4>1. x(i).finishes.id # NoBlock.id
          BY <3>2, <3>4 DEF Blocks, NoBlock
        <4> QED
          BY <3>3, <4>1 DEF Lines, IsEnd
      <3> QED
        BY <2>0, <2>3, <3>2, <3>3, <3>4, <3>5 DEF Alike
    <2>4. CASE ~(i < last) /\ ~(i = last /\ e[i].finishes.name = Loop)
      BY <2>0, <2>1, <2>4 DEF Alike
    <2> QED
      BY <2>2, <2>3, <2>4
  <1> HIDE DEF x
  <1>4. /\ Exited(e, last) \in Seq(Lines(p)) /\ Len(Exited(e, last)) = Len(e)
        /\ \A i \in DOMAIN e : Exited(e, last)[i] = x(i)
    BY <1>1, <1>2, <1>3
  <1> QED
    BY <1>3, <1>4

(* Files with other conditions, or another buffer and chain.               *)
LEMMA SourceChanges ==
    ASSUME NEW p, NEW s \in Sources(p)
    PROVE  /\ \A c \in Seq(CondStates) : [s EXCEPT !.conds = c] \in Sources(p)
           /\ \A e \in Seq(Lines(p)) : [s EXCEPT !.expansion = e] \in Sources(p)
           /\ \A e \in Seq(Lines(p)), c \in Seq(Nat) :
                 [s EXCEPT !.expansion = e, !.mstk = c] \in Sources(p)
           /\ \A e \in Seq(Lines(p)), c \in Seq(Nat), w \in Wheres(p) :
                 [s EXCEPT !.expansion = e, !.where = w, !.mstk = c] \in Sources(p)
  BY DEF Sources

LEMMA Pushes ==
    ASSUME NEW S, NEW x \in S, NEW c \in Seq(S)
    PROVE  <<x>> \o c \in Seq(S)
  <1>1. <<x>> \in Seq(S)
    OBVIOUS
  <1> QED
    BY <1>1, ConcatProperties

(* Inside a definition, only its end is obeyed.                            *)
LEMMA DefinitionsObeyEnds ==
    ASSUME Defining, Directive, PreprocessorTypeOK
    PROVE  op \in {"endmacro", "endm", "endrep"} /\ ~Suppressed
  <1>1. ~OfTheText
    BY DEF Directive
  <1>2. Nests /\ (Suppressed => IsCondition)
    BY <1>1 DEF OfTheText
  <1>3. op # "macro"
    <2> SUFFICES ASSUME op = "macro" PROVE FALSE
      OBVIOUS
    <2>1. NestedMacCount = nested_mac_count + 1 /\ nested_mac_count \in Nat
      BY DEF NestedMacCount, PreprocessorTypeOK
    <2> QED
      BY <1>1, <2>1 DEF OfTheText
  <1>4. op # "rep"
    <2> SUFFICES ASSUME op = "rep" PROVE FALSE
      OBVIOUS
    <2>1. defining.name = Loop
      BY <1>2 DEF Nests
    <2>2. NestedRepCount = nested_rep_count + 1 /\ nested_rep_count \in Nat
      BY <2>1 DEF NestedRepCount, PreprocessorTypeOK
    <2> QED
      BY <1>1, <2>2 DEF OfTheText
  <1> QED
    BY <1>2, <1>3, <1>4 DEF Nests, IsCondition

LEMMA NestingIsTyped ==
    ASSUME PreprocessorTypeOK
    PROVE  NestedMacCount \in Nat /\ NestedRepCount \in Nat
  BY DEF PreprocessorTypeOK, NestedMacCount, NestedRepCount

LEMMA StatesAreTyped ==
    ASSUME NEW c \in Seq(CondStates)
    PROVE  /\ \A s \in CondStates : <<s>> \o c \in Seq(CondStates)
           /\ c # <<>> => Tail(c) \in Seq(CondStates) /\ c[1] \in CondStates
           /\ c # <<>> => \A s \in CondStates : [c EXCEPT ![1] = s] \in Seq(CondStates)
  <1>1. \A s \in CondStates : <<s>> \o c \in Seq(CondStates)
    BY Pushes
  <1>2. ASSUME c # <<>> PROVE 1 \in 1 .. Len(c)
    BY <1>2, EmptySeq
  <1>3. c # <<>> => Tail(c) \in Seq(CondStates) /\ c[1] \in CondStates
    BY <1>2, HeadTailProperties, ElementOfSeq
  <1>4. c # <<>> => \A s \in CondStates : [c EXCEPT ![1] = s] \in Seq(CondStates)
    BY <1>2, ExceptSeq
  <1> QED
    BY <1>1, <1>3, <1>4

(* The types are kept by every step.                                       *)
LEMMA InitIsTyped ==
    Init => PreprocessorTypeOK
  <1> SUFFICES ASSUME Init PROVE PreprocessorTypeOK
    OBVIOUS
  <1>1. program \in Programs /\ Main \in DOMAIN program
    BY PreprocessorAssumption DEF Init
  <1>2. Source(Main) \in Sources(program)
    BY <1>1 DEF Source, Sources, Wheres
  <1>3. istk \in Seq(Sources(program))
    BY <1>2 DEF Init
  <1>4. \A i \in DOMAIN mmacros : FALSE
    BY DEF Init
  <1> QED
    BY <1>1, <1>3, <1>4 DEF Init, PreprocessorTypeOK

LEMMA MovesAreTyped ==
    ASSUME PreprocessorTypeOK, istk # <<>>, NEW top \in Sources(program),
           SetTop(top), program' = program
    PROVE  program' \in Programs /\ istk' \in Seq(Sources(program'))
  BY TopChanges DEF PreprocessorTypeOK

LEMMA TakingIsTyped ==
    ASSUME PreprocessorTypeOK, TakeLine, program' = program
    PROVE  program' \in Programs /\ istk' \in Seq(Sources(program'))
  BY MovesAreTyped, TakenIsTyped DEF TakeLine

LEMMA ConditionsAreTyped ==
    ASSUME PreprocessorTypeOK, If \/ Elif \/ Else \/ Endif
    PROVE  PreprocessorTypeOK' /\ istk # <<>> /\ AtLine /\ Goes /\ result = "running"
           /\ \E c \in Seq(CondStates) : SetTop([Taken EXCEPT !.conds = c])
  <1>1. istk # <<>> /\ AtLine /\ Goes /\ result = "running"
    BY DEF If, Elif, Else, Endif, Obey
  <1>2. Taken \in Sources(program) /\ Taken.conds = Top.conds
        /\ Taken.conds \in Seq(CondStates)
    BY <1>1, TakenIsTyped DEF Sources
  <1> DEFINE old == Taken.conds
  <1>3. /\ \A s \in CondStates : <<s>> \o old \in Seq(CondStates)
        /\ old # <<>> => Tail(old) \in Seq(CondStates) /\ old[1] \in CondStates
        /\ old # <<>> => \A s \in CondStates : [old EXCEPT ![1] = s] \in Seq(CondStates)
    BY <1>2, StatesAreTyped
  <1>4. \E c \in Seq(CondStates) : SetTop([Taken EXCEPT !.conds = c])
    <2>1. CASE If
      <3> DEFINE s == IF Suppressed THEN "NEVER" ELSE Holds(arg)
      <3>1. s \in CondStates
        BY DEF Holds, CondStates
      <3>2. SetTop([Taken EXCEPT !.conds = <<s>> \o old])
        BY <2>1 DEF If
      <3> HIDE DEF s, old
      <3> QED
        BY <1>3, <3>1, <3>2
    <2>2. CASE Elif
      <3>1. old # <<>> /\ SetTop([Taken EXCEPT !.conds[1] = AfterElif(old[1])])
        BY <1>2, <2>2 DEF Elif
      <3>2. AfterElif(old[1]) \in CondStates
        BY <1>3, <3>1 DEF AfterElif, Holds, CondStates
      <3>3. [Taken EXCEPT !.conds[1] = AfterElif(old[1])]
               = [Taken EXCEPT !.conds = [old EXCEPT ![1] = AfterElif(old[1])]]
        OBVIOUS
      <3> QED
        BY <1>3, <3>1, <3>2, <3>3
    <2>3. CASE Else
      <3>1. old # <<>> /\ SetTop([Taken EXCEPT !.conds[1] = AfterElse(old[1])])
        BY <1>2, <2>3 DEF Else
      <3>2. AfterElse(old[1]) \in CondStates
        BY <1>3, <3>1 DEF AfterElse, CondStates
      <3>3. [Taken EXCEPT !.conds[1] = AfterElse(old[1])]
               = [Taken EXCEPT !.conds = [old EXCEPT ![1] = AfterElse(old[1])]]
        OBVIOUS
      <3> QED
        BY <1>3, <3>1, <3>2, <3>3
    <2>4. CASE Endif
      <3>1. old # <<>> /\ SetTop([Taken EXCEPT !.conds = Tail(old)])
        BY <1>2, <2>4 DEF Endif
      <3> QED
        BY <1>3, <3>1
    <2> QED
      BY <2>1, <2>2, <2>3, <2>4
  <1>5. PICK c \in Seq(CondStates) : SetTop([Taken EXCEPT !.conds = c])
    BY <1>4
  <1>6. [Taken EXCEPT !.conds = c] \in Sources(program)
    BY <1>2, SourceChanges
  <1>7. program' \in Programs /\ istk' \in Seq(Sources(program'))
    BY <1>1, <1>5, <1>6, MovesAreTyped DEF Goes
  <1> QED
    BY <1>1, <1>4, <1>7 DEF Goes, PreprocessorTypeOK, nestVars

LEMMA NewBlockIsTyped ==
    ASSUME PreprocessorTypeOK, istk # <<>>, NEW name \in NamesOf(program),
           NEW left \in Int
    PROVE  /\ NewBlock(name, left) \in Blocks(program)
           /\ NewBlock(name, left).name = name /\ NewBlock(name, left).body = <<>>
           /\ NewBlock(name, left).outer = Top.mstk
  <1>1. Top.mstk \in Seq(Nat) /\ blocks + 1 \in Nat \ {0}
    BY TopIsTyped DEF Sources, PreprocessorTypeOK
  <1> QED
    BY <1>1 DEF NewBlock, Blocks

LEMMA BlocksAreReal ==
    ASSUME PreprocessorTypeOK, Defining
    PROVE  defining \in Blocks(program)
  BY DEF PreprocessorTypeOK, Defining

LEMMA StoreIsTyped ==
    ASSUME PreprocessorTypeOK, Store
    PROVE  /\ PreprocessorTypeOK'
           /\ defining \in Blocks(program)
           /\ \E l \in BodyLines(program) : /\ l.text = Line.text
                 /\ defining' = [defining EXCEPT !.body = Append(defining.body, l)]
  <1> DEFINE l == Text(Line.text, Taken.where)
  <1>1. TakeLine /\ istk # <<>> /\ AtLine /\ Defining /\ program' = program
    BY DEF Store, TakeLine
  <1>2. /\ program' \in Programs /\ istk' \in Seq(Sources(program'))
        /\ Line.text \in TextsOf(program) /\ Taken \in Sources(program)
    BY <1>1, TakingIsTyped, TakenIsTyped
  <1>3. l \in BodyLines(program) /\ l.text = Line.text
    BY <1>2 DEF Text, BodyLines, Sources
  <1>4. defining \in Blocks(program)
    BY <1>1, BlocksAreReal
  <1>5. defining' = [defining EXCEPT !.body = Append(defining.body, l)]
    BY DEF Store
  <1> HIDE DEF l
  <1>6. defining' \in Blocks(program)
    <2>1. Append(defining.body, l) \in Seq(BodyLines(program))
      BY <1>3, <1>4, AppendProperties DEF Blocks
    <2> QED
      BY <1>4, <1>5, <2>1 DEF Blocks
  <1>7. nested_mac_count' \in Nat /\ nested_rep_count' \in Nat
    BY NestingIsTyped DEF Store, PreprocessorTypeOK
  <1>8. PreprocessorTypeOK'
    BY <1>1, <1>2, <1>6, <1>7 DEF PreprocessorTypeOK, Store
  <1> QED
    BY <1>3, <1>4, <1>5, <1>8

(* Lines that are taken without another effect on the files.               *)
LEMMA TakersAreTyped ==
    ASSUME PreprocessorTypeOK,
           \/ Drop \/ NoIf \/ Macro \/ Rep \/ Endmacro \/ Unmacro \/ Emit \/ Assign
           \/ Endrep /\ ~Defining
    PROVE  PreprocessorTypeOK' /\ TakeLine
  <1>1. TakeLine /\ program' = program
    BY DEF Drop, NoIf, Macro, Rep, Endmacro, Unmacro, Emit, Assign, Endrep, Complain
  <1>2. /\ program' \in Programs /\ istk' \in Seq(Sources(program'))
        /\ istk # <<>> /\ AtLine
    BY <1>1, TakingIsTyped DEF TakeLine
  <1>3. Line.text \in TextsOf(program) /\ program \in Programs
    BY <1>2, TakenIsTyped DEF PreprocessorTypeOK
  <1>4. CASE Drop \/ NoIf \/ Emit \/ Assign \/ (Endrep /\ ~Defining)
    BY <1>2, <1>4 DEF PreprocessorTypeOK, Drop, NoIf, Emit, Assign, Endrep, Complain,
                      nestVars
  <1>5. CASE Macro
    <2>1. arg \in NamesOf(program)
      BY <1>3 DEF NamesOf, arg
    <2>2. defining' \in Blocks(program) /\ blocks' \in Nat
      BY <1>2, <1>5, <2>1, NewBlockIsTyped DEF Macro, PreprocessorTypeOK
    <2> QED
      BY <1>1, <1>2, <1>5, <2>2 DEF PreprocessorTypeOK, Macro, nestVars
  <1>6. CASE Rep
    <2>1. op = "rep"
      BY <1>6 DEF Rep, Obey
    <2>2. arg \in Int
      BY <1>3, <2>1, PreprocessorAssumption DEF op, arg
    <2>3. (IF arg < 0 THEN 0 ELSE arg + 1) \in Int /\ Loop \in NamesOf(program)
      BY <2>2 DEF NamesOf
    <2>4. defining' \in Blocks(program) /\ blocks' \in Nat
      BY <1>2, <1>6, <2>3, NewBlockIsTyped DEF Rep, PreprocessorTypeOK
    <2> QED
      BY <1>1, <1>2, <1>6, <2>4 DEF PreprocessorTypeOK, Rep, nestVars
  <1>7. CASE Endmacro
    <2>1. CASE Defining /\ defining.name # Loop
      <3>1. defining \in Blocks(program)
        BY <2>1, BlocksAreReal
      <3>2. /\ mmacros' = [i \in DOMAIN mmacros \cup {defining.id} |->
                              IF i = defining.id THEN defining ELSE mmacros[i]]
            /\ defining' = NoBlock
            /\ UNCHANGED <<program, nestVars, blocks>>
        BY <1>7, <2>1 DEF Endmacro
      <3>3. \A i \in DOMAIN mmacros' :
               mmacros'[i] \in Blocks(program) /\ mmacros'[i].name # Loop
        BY <2>1, <3>1, <3>2 DEF PreprocessorTypeOK
      <3> QED
        BY <1>1, <1>2, <3>2, <3>3 DEF PreprocessorTypeOK, nestVars
    <2>2. CASE ~(Defining /\ defining.name # Loop)
      BY <1>2, <1>7, <2>2 DEF PreprocessorTypeOK, Endmacro, Complain, nestVars
    <2> QED
      BY <2>1, <2>2
  <1>8. CASE Unmacro
    <2>1. \A i \in DOMAIN mmacros' :
             mmacros'[i] \in Blocks(program) /\ mmacros'[i].name # Loop
      BY <1>8 DEF Unmacro, PreprocessorTypeOK
    <2> QED
      BY <1>1, <1>2, <1>8, <2>1 DEF PreprocessorTypeOK, Unmacro, nestVars
  <1> QED
    BY <1>1, <1>4, <1>5, <1>6, <1>7, <1>8

LEMMA PushedIsTyped ==
    ASSUME NEW p, NEW e \in Seq(Lines(p)), NEW b \in Seq(BodyLines(p)),
           NEW m \in EndLines(p)
    PROVE  /\ b \o <<m>> \o e \in Seq(Lines(p))
           /\ <<m>> \o e \in Seq(Lines(p))
           /\ <<>> \o <<m>> \o e = <<m>> \o e
  <1>1. m \in Lines(p) /\ b \in Seq(Lines(p))
    BY BodyIsTyped DEF Lines
  <1>2. <<m>> \in Seq(Lines(p))
    BY <1>1
  <1>3. b \o <<m>> \in Seq(Lines(p))
    BY <1>1, <1>2, ConcatProperties
  <1>4. <<>> \o <<m>> = <<m>>
    BY <1>2, ConcatEmptySeq
  <1> QED
    BY <1>2, <1>3, <1>4, ConcatProperties

-----------------------------------------------------------------------------
(* The steps.                                                              *)

(* What a step has to keep of the rest of the state.                       *)
Sound == FilesInv /\ DefinitionInv /\ result # "assertion"

LEMMA EmptyBodyBalances == EndsAt(<<>>, 0)
  <1> DEFINE d == [k \in 1..1 |-> 0]
  <1>1. IsBodyDepth(d, <<>>) /\ d[Len(<<>>) + 1] = 0
    BY DEF IsBodyDepth
  <1> QED
    BY <1>1 DEF EndsAt

(* %endrep ends the definition of a loop and pushes its end.               *)
LEMMA EndrepKeeps ==
    ASSUME PreprocessorTypeOK, Endrep, Defining
    PROVE  /\ PreprocessorTypeOK'
           /\ strayed' = strayed
           /\ Sound => Sound'
  <1> DEFINE m == MacroEnd(defining, Taken.where)
             new == [Taken EXCEPT !.expansion = <<m>> \o @,
                                  !.mstk = <<defining.id>> \o defining.outer]
  <1>1. /\ istk # <<>> /\ AtLine /\ Directive /\ op = "endrep" /\ result = "running"
        /\ SetTop(new) /\ defining' = NoBlock
        /\ UNCHANGED <<program, nestVars, mmacros, deadman, blocks, value,
                       out, errors, result>>
    BY DEF Endrep, Obey
  <1>2. defining \in Blocks(program) /\ Taken \in Sources(program)
        /\ Taken.where \in Wheres(program)
        /\ Taken.expansion \in Seq(Lines(program)) /\ Taken.mstk \in Seq(Nat)
    BY <1>1, BlocksAreReal, TakenIsTyped DEF Sources
  <1>3. m \in EndLines(program) /\ m.finishes = defining /\ ~m.suppressed
    BY <1>2, EndIsTyped
  <1> HIDE DEF m
  <1>4. /\ <<m>> \o Taken.expansion \in Seq(Lines(program))
        /\ <<>> \o <<m>> \o Taken.expansion = <<m>> \o Taken.expansion
    BY <1>2, <1>3, PushedIsTyped, EmptySeq
  <1>5. <<defining.id>> \o defining.outer \in Seq(Nat)
    BY <1>2, Pushes DEF Blocks
  <1>6. new \in Sources(program)
    BY <1>2, <1>4, <1>5, SourceChanges
  <1>7. /\ new.expansion = <<m>> \o Taken.expansion
        /\ new.mstk = <<m.finishes.id>> \o m.finishes.outer
    BY <1>2, <1>3 DEF Sources
  <1> HIDE DEF new
  <1>8. program' \in Programs /\ istk' \in Seq(Sources(program'))
    BY <1>1, <1>6, MovesAreTyped
  <1>9. PreprocessorTypeOK'
    BY <1>1, <1>8 DEF PreprocessorTypeOK, nestVars
  <1>10. ASSUME Sound PROVE Sound'
    <2>1. Nests /\ ~(NestedRepCount # nested_rep_count)
      BY <1>1 DEF Directive, OfTheText
    <2>2. defining.name = Loop /\ nested_rep_count = 0
      <3>1. defining.name = Loop
        BY <1>1, <2>1 DEF Nests
      <3>2. ~(nested_rep_count > 0) /\ nested_rep_count \in Nat
        BY <1>1, <2>1, <3>1 DEF NestedRepCount, PreprocessorTypeOK
      <3> QED
        BY <3>1, <3>2
    <2>3. LoopIsBegun
      BY <1>1, <1>10, <2>2 DEF Sound, DefinitionInv
    <2>4. SourceInv(Taken) /\ Awake(Taken) /\ Taken.mstk = Top.mstk
      BY <1>1, <1>10, TopIsKept, TakenKept, TakenIsTyped, DefinitionsObeyEnds DEF Sound
    <2>5. EndsAt(defining.body, 0) /\ EndsAt(<<>>, 0)
      BY <2>2, <2>3, EmptyBodyBalances DEF LoopIsBegun
    <2>6. Names(m.finishes.outer, Taken.expansion, 1)
      BY <1>3, <2>3, <2>4 DEF LoopIsBegun, SourceInv
    <2>7. /\ BufferInv(<<m>> \o Taken.expansion)
          /\ Names(<<m.finishes.id>> \o m.finishes.outer, <<m>> \o Taken.expansion, 1)
      <3>1. /\ BufferInv(Taken.expansion)
            /\ \A j \in DOMAIN Taken.expansion : ~Taken.expansion[j].suppressed
        BY <2>4 DEF SourceInv, Awake
      <3>2. EndsAt(m.finishes.body, 0)
        BY <1>3, <2>5
      <3> DEFINE b == <<>>
      <3>3. b \in Seq(BodyLines(program)) /\ EndsAt(b, 0)
        BY <2>5
      <3> HIDE DEF b
      <3>4. /\ BufferInv(b \o <<m>> \o Taken.expansion)
            /\ Names(<<m.finishes.id>> \o m.finishes.outer,
                     b \o <<m>> \o Taken.expansion, 1)
        BY <1>2, <1>3, <2>6, <3>1, <3>2, <3>3, Pushed
      <3> QED
        BY <1>4, <3>4 DEF b
    <2>8. SourceInv(new)
      BY <1>7, <2>7 DEF SourceInv
    <2>9. FilesInv'
      BY <1>1, <1>6, <1>10, <2>8, TopChanges DEF Sound
    <2>10. DefinitionInv'
      <3>1. NoBlock.name # Loop
        BY DEF NoBlock, Loop
      <3> QED
        BY <1>1, <2>2, <3>1 DEF DefinitionInv, nestVars
    <2> QED
      BY <1>1, <1>10, <2>9, <2>10 DEF Sound
  <1> QED
    BY <1>1, <1>9, <1>10 DEF nestVars

LEMMA BodyGrows ==
    ASSUME NEW p, NEW b \in Seq(BodyLines(p)), NEW l \in BodyLines(p),
           NEW n \in Nat, EndsAt(b, n), n + Step(l) \in Nat
    PROVE  EndsAt(Append(b, l), n + Step(l))
  <1>1. PICK d : IsBodyDepth(d, b) /\ d[Len(b) + 1] = n
    BY DEF EndsAt
  <1> DEFINE g == Append(b, l)
             s == n + Step(l)
             c == [k \in 1 .. Len(g) + 1 |-> IF k <= Len(b) + 1 THEN d[k] ELSE s]
  <1>2. /\ g \in Seq(BodyLines(p)) /\ Len(g) = Len(b) + 1 /\ g[Len(b) + 1] = l
        /\ \A k \in 1 .. Len(b) : g[k] = b[k]
        /\ Len(b) \in Nat /\ DOMAIN b = 1 .. Len(b) /\ DOMAIN g = 1 .. Len(g)
    BY AppendProperties, LenProperties
  <1> HIDE DEF g
  <1>3. d \in [1 .. Len(b) + 1 -> Nat] /\ s \in Nat
    BY <1>1 DEF IsBodyDepth
  <1>4. /\ c \in [1 .. Len(g) + 1 -> Nat]
        /\ \A k \in 1 .. Len(b) + 1 : c[k] = d[k]
        /\ c[Len(g) + 1] = s
    <2> HIDE DEF s
    <2> QED
      BY <1>2, <1>3
  <1> HIDE DEF c
  <1>5. \A k \in DOMAIN g : c[k + 1] = c[k] + Step(g[k])
    <2> SUFFICES ASSUME NEW k \in DOMAIN g
                 PROVE  c[k + 1] = c[k] + Step(g[k])
      OBVIOUS
    <2>1. CASE k \in DOMAIN b
      <3>1. k \in 1 .. Len(b) + 1 /\ k + 1 \in 1 .. Len(b) + 1 /\ g[k] = b[k]
        BY <1>2, <2>1
      <3> QED
        BY <1>1, <1>4, <2>1, <3>1 DEF IsBodyDepth
    <2>2. CASE k = Len(b) + 1
      <3>1. k \in 1 .. Len(b) + 1 /\ k + 1 = Len(g) + 1 /\ g[k] = l
        BY <1>2, <2>2
      <3> QED
        BY <1>1, <1>4, <2>2, <3>1
    <2> QED
      BY <1>2, <2>1, <2>2
  <1> QED
    BY <1>4, <1>5 DEF EndsAt, IsBodyDepth, g

(* The files of a program whose top one had a line taken.                  *)
LEMMA TakingKeepsFiles ==
    ASSUME PreprocessorTypeOK, TakeLine, program' = program, FilesInv
    PROVE  FilesInv' /\ Top' = Taken /\ istk' # <<>>
  <1>1. istk # <<>> /\ AtLine /\ SetTop(Taken)
    BY DEF TakeLine
  <1>2. Taken \in Sources(program) /\ SourceInv(Taken)
    BY <1>1, TakenIsTyped, TopIsKept, TakenKept
  <1> QED
    BY <1>1, <1>2, TopChanges

(* No line of a loop is suppressed while it is defined.                    *)
LEMMA LoopsAreHeard ==
    ASSUME PreprocessorTypeOK, LoopIsBegun, AtLine
    PROVE  ~Suppressed
  <1>1. istk # <<>> /\ Awake(Top)
    BY DEF LoopIsBegun
  <1>2. ~Line.suppressed
    <2>1. CASE Top.expansion = <<>>
      BY <1>1, <2>1, TakenIsTyped
    <2>2. CASE Top.expansion # <<>>
      <3>1. Top.expansion \in Seq(Lines(program))
        BY <1>1, TopIsTyped DEF Sources
      <3>2. 1 \in DOMAIN Top.expansion
        BY <2>2, <3>1, EmptySeq, LenProperties
      <3> QED
        BY <1>1, <2>2, <3>2, TakenIsTyped DEF Awake
    <2> QED
      BY <2>1, <2>2
  <1> QED
    BY <1>1, <1>2 DEF Awake, Suppressed

LEMMA TakingKeepsLoop ==
    ASSUME PreprocessorTypeOK, TakeLine, program' = program, FilesInv, LoopIsBegun,
           nested_rep_count' = nested_rep_count + Step(Line),
           defining'.outer = defining.outer,
           EndsAt(defining'.body, nested_rep_count')
    PROVE  LoopIsBegun'
  <1>1. istk # <<>> /\ AtLine /\ Top' = Taken /\ istk' # <<>> /\ SourceInv(Top)
    BY TakingKeepsFiles, TopIsKept DEF TakeLine
  <1>2. Awake(Taken) /\ Taken.mstk = Top.mstk
    BY <1>1, LoopsAreHeard, TakenKept, TakenIsTyped
  <1> DEFINE e == Top.expansion
             t == Taken.expansion
  <1>3. PICK d : IsDepth(d, e) /\ (e # <<>> /\ d[1] # Outside => d[1] > nested_rep_count)
    BY DEF LoopIsBegun, EndIsAhead
  <1>4. PICK c : /\ IsDepth(c, t)
                 /\ t # <<>> => c[1] = d[2] /\ 2 \in DOMAIN e /\ 1 \in DOMAIN e
    BY <1>1, <1>3, TakenKept
  <1>5. ASSUME t # <<>>, c[1] # Outside
        PROVE  c[1] > nested_rep_count'
    <2>1. e # <<>> /\ ~IsEnd(e[1]) /\ Line = e[1]
      BY <1>1, <1>5, TakenIsTyped
    <2>2. 1 \in DOMAIN e /\ 1 + 1 \in DOMAIN e /\ d[1 + 1] # Outside /\ c[1] = d[1 + 1]
      BY <1>4, <1>5
    <2>3. d[1] \in Nat /\ d[1 + 1] = d[1] + Step(Line)
      BY <1>3, <2>1, <2>2 DEF IsDepth
    <2>4. d[1] > nested_rep_count
      BY <1>3, <2>1, <2>3 DEF Outside
    <2>5. Step(Line) \in Int /\ nested_rep_count \in Nat
      BY DEF Step, PreprocessorTypeOK
    <2> QED
      BY <2>2, <2>3, <2>4, <2>5
  <1>6. EndIsAhead(t, nested_rep_count')
    BY <1>4, <1>5 DEF EndIsAhead
  <1> QED
    BY <1>1, <1>2, <1>6 DEF LoopIsBegun

(* No loop is being defined after the step.                                *)
LEMMA NoLoopIsBegun ==
    ASSUME defining.name # Loop, DefinitionInv, nested_rep_count' = nested_rep_count,
           defining'.name # Loop
    PROVE  DefinitionInv'
  BY DEF DefinitionInv

LEMMA NoBlockIsNoLoop == NoBlock.name # Loop
  BY DEF NoBlock, Loop

(* Lines that are taken, %rep and the lines of definitions apart.          *)
LEMMA TakersKeep ==
    ASSUME PreprocessorTypeOK,
           \/ Drop \/ NoIf \/ Macro \/ Endmacro \/ Unmacro \/ Emit \/ Assign
           \/ Endrep /\ ~Defining
    PROVE  strayed' = strayed /\ (Sound => Sound')
  <1>1. TakeLine /\ program' = program
    BY TakersAreTyped DEF Drop, NoIf, Macro, Endmacro, Unmacro, Emit, Assign, Endrep,
                          Complain
  <1>2. /\ strayed' = strayed /\ nested_rep_count' = nested_rep_count
        /\ result' = result
    BY DEF Drop, NoIf, Macro, Endmacro, Unmacro, Emit, Assign, Endrep, Complain, nestVars
  <1>3. ASSUME Sound PROVE FilesInv' /\ result' # "assertion" /\ DefinitionInv
    BY <1>1, <1>2, <1>3, TakingKeepsFiles DEF Sound
  <1>4. istk # <<>> /\ AtLine
    BY <1>1 DEF TakeLine
  <1>5. Sound => DefinitionInv'
    <2> SUFFICES ASSUME Sound PROVE DefinitionInv'
      OBVIOUS
    <2>1. CASE Macro
      <3>1. Directive /\ op = "macro" /\ defining' = NewBlock(arg, 0)
        BY <2>1 DEF Macro, Obey
      <3>2. ~Defining
        BY <3>1, DefinitionsObeyEnds
      <3>3. arg # Loop
        <4>1. Line.text \in TextsOf(program) /\ program \in Programs
          BY <1>4, TakenIsTyped DEF PreprocessorTypeOK
        <4> QED
          BY <3>1, <4>1, PreprocessorAssumption DEF op, arg
      <3>4. defining'.name # Loop
        BY <3>1, <3>3 DEF NewBlock
      <3> QED
        BY <1>2, <1>3, <3>2, <3>4, NoLoopIsBegun, NoBlockIsNoLoop DEF Defining
    <2>2. CASE Endmacro /\ Defining /\ defining.name = Loop
      <3>1. op \in {"endmacro", "endm"} /\ defining' = defining /\ result = "running"
        BY <2>2 DEF Endmacro, Obey, Complain
      <3>2. LoopIsBegun /\ FilesInv
        BY <2>2, <3>1 DEF Sound, DefinitionInv
      <3>3. Step(Line) = 0 /\ nested_rep_count \in Nat
        BY <3>1 DEF Step, op, PreprocessorTypeOK
      <3>4. nested_rep_count' = nested_rep_count + Step(Line)
        BY <1>2, <3>3
      <3>5. EndsAt(defining'.body, nested_rep_count')
        BY <1>2, <3>1, <3>2 DEF LoopIsBegun
      <3>6. LoopIsBegun'
        BY <1>1, <3>1, <3>2, <3>4, <3>5, TakingKeepsLoop
      <3> QED
        BY <2>2, <3>1, <3>6 DEF DefinitionInv
    <2>3. CASE Endmacro /\ ~(Defining /\ defining.name = Loop)
      <3>1. defining.name # Loop /\ defining'.name # Loop
        BY <2>3, NoBlockIsNoLoop DEF Endmacro, Defining, Complain
      <3> QED
        BY <1>2, <1>3, <3>1, NoLoopIsBegun
    <2>4. CASE Unmacro \/ NoIf \/ Assign \/ Drop \/ Emit \/ (Endrep /\ ~Defining)
      <3>1. ~Defining
        BY <2>4, DefinitionsObeyEnds DEF Unmacro, NoIf, Assign, Drop, Emit, Obey
      <3>2. defining' = defining
        BY <2>4 DEF Unmacro, NoIf, Assign, Drop, Emit, Endrep, Complain
      <3> QED
        BY <1>2, <1>3, <3>1, <3>2, NoLoopIsBegun, NoBlockIsNoLoop DEF Defining
    <2> QED
      BY <2>1, <2>2, <2>3, <2>4
  <1> QED
    BY <1>2, <1>3, <1>5 DEF Sound

(* %rep begins a definition that has its end before that of a loop around. *)
LEMMA RepKeeps ==
    ASSUME PreprocessorTypeOK, Rep
    PROVE  strayed' = strayed /\ (Sound => Sound')
  <1>1. /\ TakeLine /\ program' = program /\ Directive /\ op = "rep"
        /\ strayed' = strayed /\ nested_rep_count' = nested_rep_count
        /\ result' = result /\ istk # <<>> /\ AtLine
        /\ defining' = NewBlock(Loop, IF arg < 0 THEN 0 ELSE arg + 1)
    BY DEF Rep, Obey, nestVars
  <1>2. /\ defining'.name = Loop /\ defining'.body = <<>>
        /\ defining'.outer = Top.mstk
    BY <1>1 DEF NewBlock
  <1>3. ~Defining
    BY <1>1, DefinitionsObeyEnds
  <1>4. ~Suppressed
    BY <1>1, <1>3 DEF Directive, IsCondition
  <1>5. ASSUME Sound PROVE Sound'
    <2>1. nested_rep_count = 0
      BY <1>3, <1>5, NoBlockIsNoLoop DEF Sound, DefinitionInv, Defining
    <2>2. FilesInv' /\ Top' = Taken /\ istk' # <<>> /\ SourceInv(Top)
      BY <1>1, <1>5, TakingKeepsFiles, TopIsKept DEF Sound
    <2>3. Awake(Taken) /\ Taken.mstk = Top.mstk
      BY <1>1, <1>4, <2>2, TakenKept, TakenIsTyped
    <2> DEFINE e == Top.expansion
               t == Taken.expansion
    <2>4. PICK d : IsDepth(d, e)
      BY <2>2 DEF SourceInv, BufferInv, LoopsBalance
    <2>5. PICK c : /\ IsDepth(c, t)
                   /\ t # <<>> => c[1] = d[2] /\ 2 \in DOMAIN e /\ 1 \in DOMAIN e
      BY <1>1, <2>2, <2>4, TakenKept
    <2>6. ASSUME t # <<>>, c[1] # Outside
          PROVE  c[1] > 0
      <3>1. ~IsEnd(e[1]) /\ Line = e[1]
        BY <1>1, <2>6, TakenIsTyped
      <3>2. 1 \in DOMAIN e /\ 1 + 1 \in DOMAIN e /\ d[1 + 1] # Outside /\ c[1] = d[1 + 1]
        BY <2>5, <2>6
      <3>3. d[1] \in Nat /\ d[1 + 1] = d[1] + Step(Line)
        BY <2>4, <3>1, <3>2 DEF IsDepth
      <3>4. Step(Line) = 1
        BY <1>1 DEF Step, op
      <3> QED
        BY <3>2, <3>3, <3>4
    <2>7. EndIsAhead(t, nested_rep_count')
      BY <1>1, <2>1, <2>5, <2>6 DEF EndIsAhead
    <2>8. EndsAt(defining'.body, nested_rep_count')
      BY <1>1, <1>2, <2>1, EmptyBodyBalances
    <2>9. LoopIsBegun'
      BY <1>2, <2>2, <2>3, <2>7, <2>8 DEF LoopIsBegun
    <2>10. DefinitionInv'
      BY <1>2, <2>9 DEF DefinitionInv
    <2> QED
      BY <1>1, <1>5, <2>2, <2>10 DEF Sound
  <1> QED
    BY <1>1, <1>5

(* Conditionals do not touch what they hide.                               *)
LEMMA ConditionsKeep ==
    ASSUME PreprocessorTypeOK, If \/ Elif \/ Else \/ Endif
    PROVE  strayed' = strayed /\ (Sound => Sound')
  <1>1. /\ istk # <<>> /\ AtLine /\ program' = program /\ strayed' = strayed
        /\ nested_rep_count' = nested_rep_count /\ result' = result
        /\ defining' = defining
    BY ConditionsAreTyped DEF Goes, nestVars
  <1>2. ~Defining
    BY DefinitionsObeyEnds DEF If, Elif, Else, Endif, Obey
  <1>3. PICK c \in Seq(CondStates) : SetTop([Taken EXCEPT !.conds = c])
    BY ConditionsAreTyped
  <1> DEFINE new == [Taken EXCEPT !.conds = c]
  <1>4. new \in Sources(program)
    BY <1>1, TakenIsTyped, SourceChanges
  <1>5. new.expansion = Taken.expansion /\ new.mstk = Taken.mstk
    BY <1>1, TakenIsTyped DEF Sources
  <1>6. SetTop(new)
    BY <1>3
  <1> HIDE DEF new
  <1>7. ASSUME Sound PROVE Sound'
    <2>1. SourceInv(new)
      BY <1>1, <1>5, <1>7, TopIsKept, TakenKept DEF Sound, SourceInv
    <2>2. FilesInv'
      BY <1>1, <1>4, <1>6, <1>7, <2>1, TopChanges DEF Sound
    <2>3. DefinitionInv'
      BY <1>1, <1>2, <1>7, NoLoopIsBegun, NoBlockIsNoLoop DEF Sound, Defining
    <2> QED
      BY <1>1, <1>7, <2>2, <2>3 DEF Sound
  <1> QED
    BY <1>1, <1>7

(* A line of a definition is stored, and the loops it opens are counted.   *)
LEMMA StoreKeeps ==
    ASSUME PreprocessorTypeOK, Store
    PROVE  strayed' = strayed /\ (Sound => Sound')
  <1>1. /\ TakeLine /\ program' = program /\ strayed' = strayed /\ result' = result
        /\ Defining /\ OfTheText /\ result = "running" /\ istk # <<>> /\ AtLine
    BY DEF Store, TakeLine
  <1>2. PICK l \in BodyLines(program) : /\ l.text = Line.text
              /\ defining' = [defining EXCEPT !.body = Append(defining.body, l)]
    BY StoreIsTyped
  <1>3. defining \in Blocks(program) /\ defining.body \in Seq(BodyLines(program))
    BY StoreIsTyped DEF Blocks
  <1>4. /\ defining'.name = defining.name /\ defining'.outer = defining.outer
        /\ defining'.body = Append(defining.body, l)
    BY <1>2, <1>3 DEF Blocks
  <1>5. ASSUME Sound PROVE Sound'
    <2>1. FilesInv' /\ FilesInv
      BY <1>1, <1>5, TakingKeepsFiles DEF Sound
    <2>2. CASE defining.name # Loop
      <3>1. nested_rep_count' = nested_rep_count
        BY <2>2 DEF Store, NestedRepCount
      <3> QED
        BY <1>1, <1>4, <1>5, <2>1, <2>2, <3>1, NoLoopIsBegun DEF Sound
    <2>3. CASE defining.name = Loop
      <3>1. LoopIsBegun
        BY <1>1, <1>5, <2>3 DEF Sound, DefinitionInv
      <3>2. ~Suppressed
        BY <1>1, <3>1, LoopsAreHeard
      <3>3. nested_rep_count \in Nat /\ nested_rep_count' \in Nat
        BY StoreIsTyped DEF PreprocessorTypeOK
      <3>4. nested_rep_count' = nested_rep_count + Step(Line)
        <4>1. CASE op = "rep"
          <5>1. Nests /\ nested_rep_count' = NestedRepCount
            BY <2>3, <3>2, <4>1 DEF Nests, Store
          <5> QED
            BY <2>3, <4>1, <5>1 DEF NestedRepCount, Step, op
        <4>2. CASE op = "endrep"
          <5>1. Nests /\ nested_rep_count' = NestedRepCount
            BY <2>3, <3>2, <4>2 DEF Nests, Store
          <5>2. NestedMacCount = nested_mac_count
            BY <4>2 DEF NestedMacCount
          <5>3. NestedRepCount # nested_rep_count
            BY <1>1, <3>2, <5>1, <5>2 DEF OfTheText
          <5>4. NestedRepCount = nested_rep_count - 1
            BY <2>3, <4>2, <5>3 DEF NestedRepCount
          <5>5. Step(Line) = -1
            BY <4>2 DEF Step, op
          <5> QED
            BY <3>3, <5>1, <5>4, <5>5
        <4>3. CASE op \notin {"rep", "endrep"}
          <5>1. nested_rep_count' = nested_rep_count
            BY <4>3 DEF Store, NestedRepCount
          <5>2. Step(Line) = 0
            BY <4>3 DEF Step, op
          <5> QED
            BY <3>3, <5>1, <5>2
        <4> QED
          BY <4>1, <4>2, <4>3
      <3>5. EndsAt(defining'.body, nested_rep_count')
        <4>1. Step(l) = Step(Line)
          BY <1>2 DEF Step
        <4>2. EndsAt(defining.body, nested_rep_count)
          BY <3>1 DEF LoopIsBegun
        <4> DEFINE n == nested_rep_count
                   b == defining.body
        <4>3. n \in Nat /\ n + Step(l) \in Nat /\ n + Step(l) = nested_rep_count'
          BY <3>3, <3>4, <4>1
        <4>4. b \in Seq(BodyLines(program)) /\ EndsAt(b, n)
          BY <1>3, <4>2
        <4> HIDE DEF n, b
        <4>5. EndsAt(Append(b, l), n + Step(l))
          BY <4>3, <4>4, BodyGrows
        <4> QED
          BY <1>4, <4>3, <4>5 DEF b
      <3>6. LoopIsBegun'
        BY <1>1, <1>4, <2>1, <3>1, <3>4, <3>5, TakingKeepsLoop
      <3> QED
        BY <1>1, <1>4, <1>5, <2>1, <2>3, <3>6 DEF Sound, DefinitionInv
    <2> QED
      BY <2>2, <2>3
  <1> QED
    BY <1>1, <1>5

(* A file that is left, and the end of the pass.                           *)
LEMMA EndOfFileKeeps ==
    ASSUME PreprocessorTypeOK, EndOfFile
    PROVE  /\ PreprocessorTypeOK'
           /\ strayed => strayed'
           /\ Sound => strayed' \/ Sound'
  <1>1. /\ istk # <<>> /\ istk' = Tail(istk) /\ program' = program
        /\ defining' = defining /\ nested_rep_count' = nested_rep_count
        /\ nested_mac_count' = nested_mac_count /\ mmacros' = mmacros
        /\ blocks' = blocks
        /\ result' \in {"fatal", result} /\ strayed' = (strayed \/ defining.name = Loop)
    BY DEF EndOfFile
  <1>2. /\ Tail(istk) \in Seq(Sources(program)) /\ Len(Tail(istk)) = Len(istk) - 1
        /\ Len(istk) \in Nat /\ DOMAIN istk = 1 .. Len(istk)
        /\ \A i \in 1 .. Len(istk) - 1 : Tail(istk)[i] = istk[i + 1]
    BY <1>1, TopIsTyped
  <1>3. DOMAIN Tail(istk) = 1 .. Len(istk) - 1
    BY <1>2, LenProperties
  <1>4. FilesInv => FilesInv'
    <2> SUFFICES ASSUME FilesInv, NEW i \in DOMAIN istk'
                 PROVE  SourceInv(istk'[i])
      BY DEF FilesInv
    <2>1. i + 1 \in DOMAIN istk /\ istk'[i] = istk[i + 1]
      BY <1>1, <1>2, <1>3
    <2> QED
      BY <2>1 DEF FilesInv
  <1>5. PreprocessorTypeOK'
    BY <1>1, <1>2 DEF PreprocessorTypeOK
  <1>6. strayed \in BOOLEAN
    BY DEF PreprocessorTypeOK
  <1>7. ASSUME Sound, ~strayed' PROVE Sound'
    <2>1. defining.name # Loop
      BY <1>1, <1>6, <1>7
    <2>2. DefinitionInv'
      BY <1>1, <1>7, <2>1, NoLoopIsBegun DEF Sound
    <2> QED
      BY <1>1, <1>4, <1>7, <2>2 DEF Sound
  <1> QED
    BY <1>1, <1>5, <1>6, <1>7

LEMMA CleanupKeeps ==
    ASSUME PreprocessorTypeOK, pp_cleanup_pass
    PROVE  /\ PreprocessorTypeOK'
           /\ strayed' = strayed
           /\ Sound /\ ~strayed => Sound'
  <1>1. /\ istk = <<>> /\ istk' = istk /\ program' = program /\ defining' = NoBlock
        /\ mmacros' = <<>> /\ result' = "done" /\ strayed' = strayed
        /\ nested_rep_count' = nested_rep_count /\ nested_mac_count' = nested_mac_count
        /\ blocks' = blocks /\ result = "running"
    BY DEF pp_cleanup_pass, nestVars
  <1>2. PreprocessorTypeOK'
    <2>1. \A i \in DOMAIN mmacros' : FALSE
      BY <1>1
    <2> QED
      BY <1>1, <2>1 DEF PreprocessorTypeOK
  <1>3. ASSUME Sound PROVE Sound'
    <2>1. FilesInv'
      BY <1>1, <1>3 DEF FilesInv, Sound
    <2>2. defining.name # Loop
      BY <1>1, <1>3 DEF Sound, DefinitionInv, LoopIsBegun
    <2>3. DefinitionInv'
      BY <1>1, <1>3, <2>2, NoLoopIsBegun, NoBlockIsNoLoop DEF Sound
    <2> QED
      BY <1>1, <2>1, <2>3 DEF Sound
  <1> QED
    BY <1>1, <1>2, <1>3

(* A file included: its buffer and its chain are empty.                    *)
LEMMA IncludeKeeps ==
    ASSUME PreprocessorTypeOK, Include
    PROVE  /\ PreprocessorTypeOK'
           /\ strayed' = strayed
           /\ Sound => Sound'
  <1> DEFINE two == <<Source(arg), Taken>>
             rest == Tail(istk)
  <1>1. /\ istk # <<>> /\ AtLine /\ Directive /\ op = "include"
        /\ istk' = two \o rest /\ program' = program
        /\ defining' = defining /\ nested_rep_count' = nested_rep_count
        /\ nested_mac_count' = nested_mac_count /\ mmacros' = mmacros
        /\ blocks' = blocks /\ strayed' = strayed /\ result' = result
    BY DEF Include, Obey, Goes, nestVars
  <1>2. ~Defining
    BY <1>1, DefinitionsObeyEnds
  <1>3. Taken \in Sources(program) /\ arg \in DOMAIN program
    <2>1. Line.text \in TextsOf(program) /\ program \in Programs
      BY <1>1, TakenIsTyped DEF PreprocessorTypeOK
    <2> QED
      BY <1>1, <2>1, TakenIsTyped, PreprocessorAssumption DEF op, arg
  <1>4. Source(arg) \in Sources(program)
    BY <1>3 DEF Source, Sources, Wheres
  <1>5. /\ rest \in Seq(Sources(program)) /\ Len(rest) = Len(istk) - 1
        /\ Len(istk) \in Nat /\ DOMAIN istk = 1 .. Len(istk)
        /\ \A i \in 1 .. Len(rest) : rest[i] = istk[i + 1]
    BY <1>1, TopIsTyped
  <1>6. /\ two \in Seq(Sources(program)) /\ Len(two) = 2
        /\ two[1] = Source(arg) /\ two[2] = Taken
    BY <1>3, <1>4
  <1> HIDE DEF two, rest
  <1>7. /\ istk' \in Seq(Sources(program)) /\ Len(istk') = 2 + Len(rest)
        /\ \A i \in 1 .. 2 + Len(rest) : istk'[i] = IF i <= 2 THEN two[i]
                                                    ELSE rest[i - 2]
    <2>1. /\ two \o rest \in Seq(Sources(program))
          /\ Len(two \o rest) = Len(two) + Len(rest)
          /\ \A i \in 1 .. Len(two) + Len(rest) :
                (two \o rest)[i] = IF i <= Len(two) THEN two[i] ELSE rest[i - Len(two)]
      BY <1>5, <1>6, ConcatProperties
    <2> QED
      BY <1>1, <1>6, <2>1
  <1>8. PreprocessorTypeOK'
    BY <1>1, <1>7 DEF PreprocessorTypeOK
  <1>9. ASSUME Sound PROVE Sound'
    <2>1. SourceInv(Taken)
      BY <1>1, <1>9, TopIsKept, TakenKept DEF Sound
    <2>2. SourceInv(Source(arg))
      <3> DEFINE s == Source(arg)
      <3>1. s.expansion = <<>> /\ s.mstk = <<>>
        BY DEF Source
      <3>2. IsDepth(<<>>, <<>>)
        BY DEF IsDepth
      <3>3. BufferInv(<<>>)
        BY <3>2 DEF BufferInv, LoopsBalance, SuppressedFirst, ChainsNest
      <3>4. Names(<<>>, <<>>, 1)
        BY DEF Names
      <3> HIDE DEF s
      <3>5. SourceInv(s)
        BY <3>1, <3>3, <3>4 DEF SourceInv
      <3> QED
        BY <3>5 DEF s
    <2>3. FilesInv'
      <3> SUFFICES ASSUME NEW i \in DOMAIN istk'
                   PROVE  SourceInv(istk'[i])
        BY DEF FilesInv
      <3>1. i \in 1 .. 2 + Len(rest)
        BY <1>7, LenProperties
      <3>2. CASE i = 1 \/ i = 2
        BY <1>6, <1>7, <2>1, <2>2, <3>1, <3>2
      <3>3. CASE i > 2
        <4>1. i - 2 \in 1 .. Len(rest) /\ (i - 2) + 1 \in DOMAIN istk
              /\ istk'[i] = rest[i - 2]
          BY <1>5, <1>7, <3>1, <3>3
        <4>2. istk'[i] = istk[(i - 2) + 1]
          BY <1>5, <4>1
        <4> QED
          BY <1>9, <4>1, <4>2 DEF Sound, FilesInv
      <3> QED
        BY <3>1, <3>2, <3>3
    <2>4. DefinitionInv'
      BY <1>1, <1>2, <1>9, NoLoopIsBegun, NoBlockIsNoLoop DEF Sound, Defining
    <2> QED
      BY <1>1, <1>9, <2>3, <2>4 DEF Sound
  <1> QED
    BY <1>1, <1>8, <1>9

(* A macro is called: its body is put in front of the buffer.              *)
LEMMA CallKeeps ==
    ASSUME PreprocessorTypeOK, Call
    PROVE  /\ PreprocessorTypeOK'
           /\ strayed' = strayed
           /\ Sound => Sound'
  <1>1. PICK i \in Callable(arg) :
          LET m == [mmacros[i] EXCEPT !.outer = Top.mstk]
          IN SetTop([Taken EXCEPT
                    !.expansion = m.body \o <<MacroEnd(m, Taken.where)>> \o @,
                    !.mstk = <<m.id>> \o @])
    BY DEF Call
  <1>2. /\ istk # <<>> /\ AtLine /\ Directive /\ op = "call" /\ ~Defining
        /\ program' = program /\ defining' = defining
        /\ nested_rep_count' = nested_rep_count
        /\ nested_mac_count' = nested_mac_count /\ mmacros' = mmacros
        /\ blocks' = blocks /\ strayed' = strayed /\ result' = result
    BY DEF Call, Obey, nestVars
  <1>3. /\ Taken \in Sources(program) /\ Taken.where \in Wheres(program)
        /\ Taken.expansion \in Seq(Lines(program)) /\ Taken.mstk \in Seq(Nat)
        /\ Taken.mstk = Top.mstk
    BY <1>2, TakenIsTyped DEF Sources
  <1>4. mmacros[i] \in Blocks(program) /\ mmacros[i].name # Loop
    BY DEF Callable, PreprocessorTypeOK
  <1> DEFINE block == [mmacros[i] EXCEPT !.outer = Top.mstk]
             m == MacroEnd(block, Taken.where)
             b == block.body
             new == [Taken EXCEPT !.expansion = b \o <<m>> \o Taken.expansion,
                                  !.mstk = <<block.id>> \o Taken.mstk]
  <1>5. SetTop(new)
    BY <1>1
  <1>6. /\ block \in Blocks(program) /\ block.name # Loop
        /\ block.outer = Taken.mstk /\ b \in Seq(BodyLines(program))
        /\ block.id \in Nat
    BY <1>3, <1>4 DEF Blocks
  <1> HIDE DEF block
  <1>7. m \in EndLines(program) /\ m.finishes = block /\ ~m.suppressed
    BY <1>3, <1>6, EndIsTyped
  <1> HIDE DEF m, b
  <1>8. b \o <<m>> \o Taken.expansion \in Seq(Lines(program))
    BY <1>3, <1>6, <1>7, PushedIsTyped
  <1>9. <<block.id>> \o Taken.mstk \in Seq(Nat)
    BY <1>3, <1>6, Pushes
  <1>10. new \in Sources(program)
    BY <1>3, <1>8, <1>9, SourceChanges
  <1>11. /\ new.expansion = b \o <<m>> \o Taken.expansion
         /\ new.mstk = <<m.finishes.id>> \o m.finishes.outer
    BY <1>3, <1>6, <1>7 DEF Sources
  <1> HIDE DEF new
  <1>12. program' \in Programs /\ istk' \in Seq(Sources(program'))
    BY <1>2, <1>5, <1>10, MovesAreTyped
  <1>13. PreprocessorTypeOK'
    BY <1>2, <1>12 DEF PreprocessorTypeOK
  <1>14. ASSUME Sound PROVE Sound'
    <2>1. ~Suppressed
      BY <1>2 DEF Directive, IsCondition
    <2>2. SourceInv(Taken) /\ Awake(Taken)
      BY <1>2, <1>14, <2>1, TopIsKept, TakenKept DEF Sound
    <2>3. /\ BufferInv(Taken.expansion)
          /\ \A j \in DOMAIN Taken.expansion : ~Taken.expansion[j].suppressed
          /\ Names(m.finishes.outer, Taken.expansion, 1)
      BY <1>6, <1>7, <2>2 DEF SourceInv, Awake
    <2>4. /\ BufferInv(b \o <<m>> \o Taken.expansion)
          /\ Names(<<m.finishes.id>> \o m.finishes.outer,
                   b \o <<m>> \o Taken.expansion, 1)
      BY <1>3, <1>6, <1>7, <2>3, Pushed
    <2>5. SourceInv(new)
      BY <1>11, <2>4 DEF SourceInv
    <2>6. FilesInv'
      BY <1>2, <1>5, <1>10, <1>14, <2>5, TopChanges DEF Sound
    <2>7. DefinitionInv'
      BY <1>2, <1>14, NoLoopIsBegun, NoBlockIsNoLoop DEF Sound, Defining
    <2> QED
      BY <1>2, <1>14, <2>6, <2>7 DEF Sound
  <1> QED
    BY <1>2, <1>13, <1>14

(* %exitrep and %exitmacro suppress the lines up to an end.                *)
LEMMA ExitKeeps ==
    ASSUME PreprocessorTypeOK, NEW named, Exit(named)
    PROVE  /\ PreprocessorTypeOK'
           /\ strayed' = strayed
           /\ Sound => Sound'
  <1>1. istk # <<>> /\ AtLine /\ Directive
    BY DEF Exit, Obey
  <1>2. op \in {"exitmacro", "exitrep"}
    BY DEF Exit, Obey
  <1>3. ~Defining
    BY <1>1, <1>2, DefinitionsObeyEnds
  <1>4. /\ program' = program /\ defining' = defining
        /\ nested_rep_count' = nested_rep_count
        /\ nested_mac_count' = nested_mac_count /\ mmacros' = mmacros
        /\ blocks' = blocks /\ strayed' = strayed /\ result' = result
    BY DEF Exit, Complain, Goes, nestVars
  <1>5. Sound => DefinitionInv'
    BY <1>3, <1>4, NoLoopIsBegun, NoBlockIsNoLoop DEF Sound, Defining
  <1>6. CASE TakeLine
    <2>1. program' \in Programs /\ istk' \in Seq(Sources(program'))
      BY <1>4, <1>6, TakingIsTyped
    <2>2. Sound => FilesInv'
      BY <1>4, <1>6, TakingKeepsFiles DEF Sound
    <2>3. PreprocessorTypeOK'
      BY <1>4, <2>1 DEF PreprocessorTypeOK
    <2> QED
      BY <1>4, <1>5, <2>2, <2>3 DEF Sound
  <1>7. CASE ~TakeLine
    <2> DEFINE e == Taken.expansion
    <2>1. PICK last \in DOMAIN e : SetTop([Taken EXCEPT !.expansion = Exited(e, last)])
      BY <1>7 DEF Exit, Ends
    <2> DEFINE f == Exited(e, last)
               new == [Taken EXCEPT !.expansion = f]
    <2>2. Taken \in Sources(program) /\ e \in Seq(Lines(program))
      BY <1>1, TakenIsTyped DEF Sources
    <2>3. SetTop(new)
      BY <2>1
    <2> HIDE DEF e
    <2>4. /\ f \in Seq(Lines(program)) /\ Len(f) = Len(e)
          /\ \A i \in DOMAIN e : /\ Alike(e[i], f[i])
                                 /\ f[i].suppressed <=> i < last \/ e[i].suppressed
      BY <2>2, ExitedIsTyped
    <2>5. DOMAIN e = 1 .. Len(e) /\ Len(e) \in Nat /\ DOMAIN f = DOMAIN e
      BY <2>2, <2>4, LenProperties
    <2> HIDE DEF f
    <2>6. new \in Sources(program)
      BY <2>2, <2>4, SourceChanges
    <2>7. new.expansion = f /\ new.mstk = Taken.mstk
      BY <2>2 DEF Sources
    <2> HIDE DEF new
    <2>8. program' \in Programs /\ istk' \in Seq(Sources(program'))
      BY <1>1, <1>4, <2>3, <2>6, MovesAreTyped
    <2>9. PreprocessorTypeOK'
      BY <1>4, <2>8 DEF PreprocessorTypeOK
    <2>10. ASSUME Sound PROVE FilesInv'
      <3>1. BufferInv(e) /\ Names(Taken.mstk, e, 1)
        BY <1>1, <2>10, TopIsKept, TakenKept DEF Sound, SourceInv, e
      <3>2. SuppressedFirst(f)
        <4> SUFFICES ASSUME NEW j \in DOMAIN f, NEW k \in DOMAIN f, j < k,
                            f[k].suppressed
                     PROVE  f[j].suppressed
          BY DEF SuppressedFirst
        <4>1. k < last \/ e[k].suppressed
          BY <2>4, <2>5
        <4>2. j < last \/ e[j].suppressed
          BY <2>5, <3>1, <4>1 DEF BufferInv, SuppressedFirst
        <4> QED
          BY <2>4, <2>5, <4>2
      <3>3. BufferInv(f) /\ Names(Taken.mstk, f, 1)
        BY <2>2, <2>4, <3>1, <3>2, AlikeKept
      <3>4. SourceInv(new)
        BY <2>7, <3>3 DEF SourceInv
      <3> QED
        BY <1>1, <1>4, <2>3, <2>6, <2>10, <3>4, TopChanges DEF Sound
    <2> QED
      BY <1>4, <1>5, <2>9, <2>10 DEF Sound
  <1> QED
    BY <1>6, <1>7

(* The chain of a buffer that starts with an end.                          *)
LEMMA HeadIsNamed ==
    ASSUME NEW p, NEW e \in Seq(Lines(p)), e # <<>>, IsEnd(e[1]),
           NEW chain, Names(chain, e, 1)
    PROVE  chain = <<e[1].finishes.id>> \o e[1].finishes.outer
  <1>1. 1 \in DOMAIN e /\ DOMAIN e = 1 .. Len(e) /\ Len(e) \in Nat
    BY EmptySeq, LenProperties
  <1>2. PICK j \in DOMAIN e :
               /\ FirstEnd(e, 1, j)
               /\ chain = <<e[j].finishes.id>> \o e[j].finishes.outer
    BY <1>1 DEF Names
  <1>3. j = 1
    <2>1. j > 1 => 1 \in 1 .. j - 1
      BY <1>1
    <2> QED
      BY <1>1, <1>2, <2>1 DEF FirstEnd
  <1> QED
    BY <1>2, <1>3

LEMMA EndOnTop ==
    ASSUME PreprocessorTypeOK, istk # <<>>, AtMacroEnd
    PROVE  LET e == Top.expansion
           IN /\ e \in Seq(Lines(program)) /\ e # <<>> /\ IsEnd(e[1])
              /\ Head(e) = e[1] /\ e[1] \in EndLines(program)
              /\ e[1].finishes \in Blocks(program)
              /\ Tail(e) \in Seq(Lines(program))
              /\ 1 \in DOMAIN e
  <1> DEFINE e == Top.expansion
  <1>1. e # <<>> /\ Head(e).finishes # NoBlock
    BY DEF AtMacroEnd
  <1>2. e \in Seq(Lines(program))
    BY TopIsTyped DEF Sources
  <1> HIDE DEF e
  <1>3. Head(e) = e[1] /\ Tail(e) \in Seq(Lines(program)) /\ Head(e) \in Lines(program)
        /\ 1 \in DOMAIN e
    BY <1>1, <1>2, HeadTailProperties, EmptySeq, LenProperties
  <1>4. IsEnd(e[1])
    BY <1>1, <1>3 DEF IsEnd
  <1>5. e[1] \in EndLines(program) /\ e[1].finishes \in Blocks(program)
    BY <1>3, <1>4, LineFacts
  <1> QED
    BY <1>1, <1>2, <1>3, <1>4, <1>5 DEF e

(* No loop ends while another is defined: its lines hold the end of that.  *)
LEMMA LoopsEndDefined ==
    ASSUME PreprocessorTypeOK, LoopIsBegun, AtMacroEnd
    PROVE  Top.expansion[1].finishes.name # Loop
  <1> SUFFICES ASSUME Top.expansion[1].finishes.name = Loop
               PROVE  FALSE
    OBVIOUS
  <1>1. istk # <<>>
    BY DEF LoopIsBegun
  <1> DEFINE e == Top.expansion
  <1>2. e # <<>> /\ IsEnd(e[1]) /\ 1 \in DOMAIN e
    BY <1>1, EndOnTop
  <1>3. PICK d : IsDepth(d, e) /\ (e # <<>> /\ d[1] # Outside => d[1] > nested_rep_count)
    BY DEF LoopIsBegun, EndIsAhead
  <1>4. d[1] = 0
    BY <1>2, <1>3 DEF IsDepth
  <1>5. nested_rep_count \in Nat
    BY DEF PreprocessorTypeOK
  <1> QED
    BY <1>2, <1>3, <1>4, <1>5 DEF Outside

(* The buffer from an end that was counted down.                           *)
LEMMA CountedSplits ==
    ASSUME NEW p, NEW e \in Seq(Lines(p)), e # <<>>, e[1] \in EndLines(p)
    PROVE  \E m \in EndLines(p) :
              /\ Counted(e) = <<m>> \o Tail(e)
              /\ m.suppressed = e[1].suppressed
              /\ m.finishes.id = e[1].finishes.id
              /\ m.finishes.name = e[1].finishes.name
              /\ m.finishes.body = e[1].finishes.body
              /\ m.finishes.outer = e[1].finishes.outer
  <1> DEFINE block == [e[1].finishes EXCEPT !.left = @ - 1]
             m == [e[1] EXCEPT !.finishes = block]
  <1>1. e[1].finishes \in Blocks(p) /\ e[1].finishes.left - 1 \in Int
    BY DEF EndLines, Blocks
  <1>2. block \in Blocks(p)
        /\ block.id = e[1].finishes.id /\ block.name = e[1].finishes.name
        /\ block.body = e[1].finishes.body /\ block.outer = e[1].finishes.outer
    BY <1>1, CountedIsTyped
  <1>3. Counted(e) = [e EXCEPT ![1] = m]
    BY DEF Counted
  <1> HIDE DEF block
  <1>4. m \in EndLines(p) /\ m.suppressed = e[1].suppressed /\ m.finishes = block
    BY <1>2 DEF EndLines
  <1> HIDE DEF m
  <1>5. m \in Lines(p)
    BY <1>4 DEF Lines
  <1>6. /\ Tail(e) \in Seq(Lines(p)) /\ Len(Tail(e)) = Len(e) - 1
        /\ \A i \in 1 .. Len(Tail(e)) : Tail(e)[i] = e[i + 1]
        /\ Len(e) \in Nat \ {0} /\ DOMAIN e = 1 .. Len(e)
    BY HeadTailProperties, EmptySeq, LenProperties
  <1> DEFINE t == Tail(e)
             g == <<m>> \o t
             f == [e EXCEPT ![1] = m]
  <1>7. <<m>> \in Seq(Lines(p)) /\ Len(<<m>>) = 1 /\ <<m>>[1] = m
    BY <1>5
  <1> HIDE DEF t
  <1>8. /\ g \in Seq(Lines(p)) /\ Len(g) = 1 + Len(t)
        /\ \A i \in 1 .. 1 + Len(t) : g[i] = IF i <= 1 THEN <<m>>[i] ELSE t[i - 1]
    BY <1>6, <1>7, ConcatProperties DEF t
  <1>9. /\ f \in Seq(Lines(p)) /\ Len(f) = Len(e) /\ f[1] = m
        /\ \A i \in 1 .. Len(e) : i # 1 => f[i] = e[i]
    <2>1. 1 \in 1 .. Len(e)
      BY <1>6
    <2> QED
      BY <1>5, <2>1, ExceptSeq
  <1> HIDE DEF f, g
  <1>10. Len(f) = Len(g) /\ \A i \in 1 .. Len(f) : f[i] = g[i]
    <2>1. Len(f) = Len(g)
      BY <1>6, <1>8, <1>9 DEF t
    <2>2. ASSUME NEW i \in 1 .. Len(f), i # 1 PROVE f[i] = g[i]
      <3>1. i - 1 \in 1 .. Len(t) /\ (i - 1) + 1 = i
        BY <1>6, <1>9, <2>2 DEF t
      <3>2. t[i - 1] = e[i]
        BY <1>6, <3>1 DEF t
      <3> QED
        BY <1>6, <1>8, <1>9, <2>1, <2>2, <3>1, <3>2
    <2>3. f[1] = g[1]
      BY <1>6, <1>7, <1>8, <1>9 DEF t
    <2> QED
      BY <2>1, <2>2, <2>3
  <1>11. f = g
    BY <1>8, <1>9, <1>10, SeqEqual
  <1> QED
    BY <1>2, <1>3, <1>4, <1>11 DEF f, g, t

(* A loop is repeated: its body is put in front of its end.                *)
LEMMA RepeatKeeps ==
    ASSUME PreprocessorTypeOK, Repeat
    PROVE  /\ PreprocessorTypeOK'
           /\ strayed' = strayed
           /\ Sound => Sound'
  <1> DEFINE e == Top.expansion
             b == e[1].finishes.body
  <1>1. /\ istk # <<>> /\ AtMacroEnd /\ MoreToRepeat(Head(e)) /\ result = "running"
        /\ SetTop([Top EXCEPT !.expansion = Head(e).finishes.body \o Counted(e)])
        /\ program' = program /\ defining' = defining
        /\ nested_rep_count' = nested_rep_count
        /\ nested_mac_count' = nested_mac_count /\ mmacros' = mmacros
        /\ blocks' = blocks /\ strayed' = strayed /\ result' = result
    BY DEF Repeat, Goes, nestVars
  <1>2. /\ e \in Seq(Lines(program)) /\ e # <<>> /\ IsEnd(e[1])
        /\ Head(e) = e[1] /\ e[1] \in EndLines(program)
        /\ e[1].finishes \in Blocks(program)
        /\ Tail(e) \in Seq(Lines(program)) /\ 1 \in DOMAIN e
        /\ Top \in Sources(program)
    BY <1>1, EndOnTop, TopIsTyped
  <1>3. e[1].finishes.name = Loop /\ ~e[1].suppressed
    BY <1>1, <1>2 DEF MoreToRepeat
  <1>4. b \in Seq(BodyLines(program))
    BY <1>2 DEF Blocks
  <1>5. PICK m \in EndLines(program) :
              /\ Counted(e) = <<m>> \o Tail(e)
              /\ m.suppressed = e[1].suppressed
              /\ m.finishes.id = e[1].finishes.id
              /\ m.finishes.name = e[1].finishes.name
              /\ m.finishes.body = e[1].finishes.body
              /\ m.finishes.outer = e[1].finishes.outer
    BY <1>2, CountedSplits
  <1> DEFINE t == Tail(e)
             f == b \o <<m>> \o t
             new == [Top EXCEPT !.expansion = f]
  <1>6. f = b \o Counted(e)
    <2>1. <<m>> \in Seq(Lines(program))
      BY <1>5 DEF Lines
    <2>2. b \in Seq(Lines(program))
      BY <1>4, BodyIsTyped
    <2> HIDE DEF b, t
    <2>3. t \in Seq(Lines(program))
      BY <1>2 DEF t
    <2>4. (b \o <<m>>) \o t = b \o (<<m>> \o t)
      BY <2>1, <2>2, <2>3, ConcatAssociative
    <2> QED
      BY <1>5, <2>4 DEF t
  <1>7. SetTop(new)
    BY <1>1, <1>2, <1>6
  <1> HIDE DEF b, t
  <1>8. f \in Seq(Lines(program))
    BY <1>2, <1>4, <1>5, PushedIsTyped DEF t
  <1> HIDE DEF f
  <1>9. new \in Sources(program)
    BY <1>2, <1>8, SourceChanges
  <1>10. new.expansion = f /\ new.mstk = Top.mstk
    BY <1>2 DEF Sources
  <1> HIDE DEF new
  <1>11. program' \in Programs /\ istk' \in Seq(Sources(program'))
    BY <1>1, <1>7, <1>9, MovesAreTyped
  <1>12. PreprocessorTypeOK'
    BY <1>1, <1>11 DEF PreprocessorTypeOK
  <1>13. ASSUME Sound PROVE Sound'
    <2>1. BufferInv(e) /\ Names(Top.mstk, e, 1)
      BY <1>1, <1>13, TopIsKept DEF Sound, SourceInv
    <2>2. Top.mstk = <<m.finishes.id>> \o m.finishes.outer
      BY <1>2, <1>5, <2>1, HeadIsNamed
    <2> HIDE DEF e
    <2>3. BufferInv(t) /\ Names(m.finishes.outer, t, 1)
      BY <1>2, <1>5, <2>1, TailKept DEF t
    <2>4. \A j \in DOMAIN t : ~t[j].suppressed
      <3>1. \A j \in DOMAIN t : j + 1 \in DOMAIN e /\ t[j] = e[j + 1] /\ 1 < j + 1
        BY <1>2, HeadTailProperties, LenProperties DEF t
      <3> QED
        BY <1>2, <1>3, <2>1, <3>1 DEF BufferInv, SuppressedFirst
    <2>5. EndsAt(b, 0) /\ EndsAt(m.finishes.body, 0)
      BY <1>2, <1>3, <1>5, <2>1 DEF BufferInv, LoopsBalance, b
    <2>6. t \in Seq(Lines(program)) /\ ~m.suppressed
      BY <1>2, <1>3, <1>5 DEF t
    <2>7. /\ BufferInv(b \o <<m>> \o t)
          /\ Names(<<m.finishes.id>> \o m.finishes.outer, b \o <<m>> \o t, 1)
      BY <1>4, <1>5, <2>3, <2>4, <2>5, <2>6, Pushed
    <2>8. SourceInv(new)
      BY <1>10, <2>2, <2>7 DEF SourceInv, f
    <2>9. FilesInv'
      BY <1>1, <1>7, <1>9, <1>13, <2>8, TopChanges DEF Sound
    <2>10. defining.name # Loop
      <3> SUFFICES ASSUME defining.name = Loop PROVE FALSE
        OBVIOUS
      <3>1. LoopIsBegun
        BY <1>1, <1>13 DEF Sound, DefinitionInv
      <3> QED
        BY <1>1, <1>3, <3>1, LoopsEndDefined DEF e
    <2>11. DefinitionInv'
      BY <1>1, <1>13, <2>10, NoLoopIsBegun DEF Sound
    <2> QED
      BY <1>1, <1>13, <2>9, <2>11 DEF Sound
  <1> QED
    BY <1>1, <1>12, <1>13

(* An expansion ends: it is the innermost, and leaves the chain it saved.  *)
LEMMA EndExpansionKeeps ==
    ASSUME PreprocessorTypeOK, EndExpansion
    PROVE  /\ PreprocessorTypeOK'
           /\ strayed' = strayed
           /\ Sound => Sound'
  <1> DEFINE e == Top.expansion
             m == e[1].finishes
             new == [Top EXCEPT !.expansion = Tail(e), !.where = e[1].where,
                                !.mstk = m.outer]
  <1>1. /\ istk # <<>> /\ AtMacroEnd /\ result = "running"
        /\ program' = program /\ defining' = defining
        /\ nested_rep_count' = nested_rep_count
        /\ nested_mac_count' = nested_mac_count /\ mmacros' = mmacros
        /\ blocks' = blocks /\ strayed' = strayed
    BY DEF EndExpansion, nestVars
  <1>2. /\ e \in Seq(Lines(program)) /\ e # <<>> /\ IsEnd(e[1])
        /\ Head(e) = e[1] /\ e[1] \in EndLines(program)
        /\ m \in Blocks(program)
        /\ Tail(e) \in Seq(Lines(program)) /\ 1 \in DOMAIN e
        /\ Top \in Sources(program)
    BY <1>1, EndOnTop, TopIsTyped
  <1>3. /\ SetTop(new)
        /\ result' = IF Top.mstk = <<>> \/ Head(Top.mstk) # m.id THEN "assertion"
                     ELSE IF Defining /\ defining.name # Loop THEN "panic"
                     ELSE IF Defining /\ m.name # Loop THEN "fatal"
                     ELSE result
    BY <1>2 DEF EndExpansion
  <1>4. e[1].where \in Wheres(program) /\ m.outer \in Seq(Nat)
    BY <1>2 DEF EndLines, Blocks
  <1>5. new \in Sources(program)
    BY <1>2, <1>4, SourceChanges
  <1>6. new.expansion = Tail(e) /\ new.mstk = m.outer
    BY <1>2 DEF Sources
  <1> HIDE DEF new
  <1>7. program' \in Programs /\ istk' \in Seq(Sources(program'))
    BY <1>1, <1>3, <1>5, MovesAreTyped
  <1>8. PreprocessorTypeOK'
    BY <1>1, <1>7 DEF PreprocessorTypeOK
  <1>9. ASSUME Sound PROVE Sound'
    <2>1. BufferInv(e) /\ Names(Top.mstk, e, 1)
      BY <1>1, <1>9, TopIsKept DEF Sound, SourceInv
    <2>2. Top.mstk = <<m.id>> \o m.outer
      BY <1>2, <2>1, HeadIsNamed
    <2>3. Top.mstk # <<>> /\ Head(Top.mstk) = m.id
      <3>1. m.id \in Nat /\ m.outer \in Seq(Nat)
        BY <1>2 DEF Blocks
      <3> DEFINE n == m.id
                 o == m.outer
      <3>2. n \in Nat /\ o \in Seq(Nat) /\ Top.mstk = <<n>> \o o
        BY <2>2, <3>1
      <3> HIDE DEF n, o
      <3>3. /\ <<n>> \in Seq(Nat) /\ Len(<<n>>) = 1 /\ <<n>>[1] = n
            /\ Len(o) \in Nat
        BY <3>2
      <3>4. /\ <<n>> \o o \in Seq(Nat) /\ Len(<<n>> \o o) = 1 + Len(o)
            /\ (<<n>> \o o)[1] = n
        BY <3>2, <3>3, ConcatProperties
      <3>5. <<n>> \o o # <<>>
        BY <3>3, <3>4, EmptySeq
      <3>6. Head(<<n>> \o o) = n
        BY <3>4, <3>5, HeadTailProperties
      <3> QED
        BY <3>2, <3>5, <3>6 DEF n
    <2>4. SourceInv(new)
      BY <1>2, <1>6, <2>1, TailKept DEF SourceInv
    <2>5. FilesInv'
      BY <1>1, <1>3, <1>5, <1>9, <2>4, TopChanges DEF Sound
    <2>6. result' # "assertion"
      BY <1>1, <1>3, <2>3
    <2>7. DefinitionInv'
      <3>1. CASE defining.name = Loop
        <4>1. LoopIsBegun
          BY <1>1, <1>9, <3>1 DEF Sound, DefinitionInv
        <4>2. m.name # Loop /\ Defining
          BY <1>1, <3>1, <4>1, LoopsEndDefined, NoBlockIsNoLoop DEF Defining
        <4>3. result' = "fatal"
          BY <1>3, <2>3, <3>1, <4>2
        <4> QED
          BY <1>1, <3>1, <4>3 DEF DefinitionInv
      <3>2. CASE defining.name # Loop
        BY <1>1, <1>9, <3>2, NoLoopIsBegun DEF Sound
      <3> QED
        BY <3>1, <3>2
    <2> QED
      BY <2>5, <2>6, <2>7 DEF Sound
  <1> QED
    BY <1>1, <1>8, <1>9

-----------------------------------------------------------------------------
(* The invariant.                                                          *)
LEMMA InitIsSound ==
    Init => Sound
  <1> SUFFICES ASSUME Init PROVE Sound
    OBVIOUS
  <1> DEFINE s == Source(Main)
  <1>1. istk = <<s>> /\ s.expansion = <<>> /\ s.mstk = <<>>
    BY DEF Init, Source
  <1>2. IsDepth(<<>>, <<>>)
    BY DEF IsDepth
  <1>3. BufferInv(<<>>)
    BY <1>2 DEF BufferInv, LoopsBalance, SuppressedFirst, ChainsNest
  <1>4. Names(<<>>, <<>>, 1)
    BY DEF Names
  <1> HIDE DEF s
  <1>5. SourceInv(s)
    BY <1>1, <1>3, <1>4 DEF SourceInv
  <1>6. FilesInv
    BY <1>1, <1>5 DEF FilesInv
  <1>7. DefinitionInv /\ result # "assertion"
    BY NoBlockIsNoLoop DEF Init, DefinitionInv
  <1> QED
    BY <1>6, <1>7 DEF Sound

LEMMA StepsKeep ==
    ASSUME PreprocessorInv, Next
    PROVE  PreprocessorInv'
  <1>1. PreprocessorTypeOK /\ (~strayed => Sound)
    BY DEF PreprocessorInv, Sound
  <1>2. CASE EndOfFile \/ pp_cleanup_pass
    BY <1>1, <1>2, EndOfFileKeeps, CleanupKeeps DEF PreprocessorInv, Sound
  <1>3. CASE ~EndOfFile /\ ~pp_cleanup_pass
    <2>1. PreprocessorTypeOK' /\ strayed' = strayed /\ (Sound => Sound')
      <3>1. CASE \/ Drop \/ NoIf \/ Macro \/ Endmacro \/ Unmacro \/ Emit \/ Assign
                 \/ Endrep /\ ~Defining
        BY <1>1, <3>1, TakersAreTyped, TakersKeep
      <3>2. CASE Rep
        BY <1>1, <3>2, TakersAreTyped, RepKeeps
      <3>3. CASE Store
        BY <1>1, <3>3, StoreIsTyped, StoreKeeps
      <3>4. CASE If \/ Elif \/ Else \/ Endif
        BY <1>1, <3>4, ConditionsAreTyped, ConditionsKeep
      <3>5. CASE Endrep /\ Defining
        BY <1>1, <3>5, EndrepKeeps
      <3>6. CASE Call \/ Include \/ Repeat \/ EndExpansion
        BY <1>1, <3>6, CallKeeps, IncludeKeeps, RepeatKeeps, EndExpansionKeeps
      <3>7. CASE Exit(TRUE) \/ Exit(FALSE)
        BY <1>1, <3>7, ExitKeeps
      <3> QED
        BY <1>3, <3>1, <3>2, <3>3, <3>4, <3>5, <3>6, <3>7 DEF Next
    <2> QED
      BY <1>1, <2>1 DEF PreprocessorInv, Sound
  <1> QED
    BY <1>2, <1>3

(* The stacks, the buffers and the loop being defined stay as described.   *)
THEOREM PreprocessorIsSound == Spec => []PreprocessorInv
  <1>1. Init => PreprocessorInv
    BY InitIsTyped, InitIsSound DEF PreprocessorInv, Sound
  <1>2. PreprocessorInv /\ [Next]_vars => PreprocessorInv'
    <2> SUFFICES ASSUME PreprocessorInv, [Next]_vars
                 PROVE  PreprocessorInv'
      OBVIOUS
    <2>1. CASE Next
      BY <2>1, StepsKeep
    <2>2. CASE UNCHANGED vars
      <3>1. /\ istk' = istk /\ program' = program /\ defining' = defining
            /\ nested_rep_count' = nested_rep_count /\ result' = result
            /\ nested_mac_count' = nested_mac_count /\ mmacros' = mmacros
            /\ blocks' = blocks /\ strayed' = strayed
        BY <2>2 DEF vars, nestVars
      <3> QED
        BY <3>1 DEF PreprocessorInv, PreprocessorTypeOK, FilesInv, DefinitionInv,
                    LoopIsBegun, Top
    <2> QED
      BY <2>1, <2>2
  <1> QED
    BY <1>1, <1>2, PTL DEF Spec

(* The chain of every file names the ends in its buffer, and the expansion *)
(* that ends is the innermost, however the text is nested.                 *)
THEOREM ChainsAreRight == Spec => []InnermostEnds
  <1>1. PreprocessorInv => InnermostEnds
    BY DEF PreprocessorInv, FilesInv, SourceInv, BufferInv, InnermostEnds, ChainMatches
  <1> QED
    BY <1>1, PreprocessorIsSound, PTL
=============================================================================
