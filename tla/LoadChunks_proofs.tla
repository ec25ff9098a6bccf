-------------------------- MODULE LoadChunks_proofs --------------------------
(***************************************************************************)
(* Proofs about LoadChunks, for files, buffers, lines and pools of any     *)
(* size.                                                                   *)
(*                                                                         *)
(* ArgumentsStay. What is handed out before next is never handed out again:*)
(* every event owns room in a chunk that is used up, or in the current     *)
(* chunk before next; the parser writes only from next on, and no further  *)
(* than the room that was reserved.                                        *)
(*                                                                         *)
(* LinesOfFile. The buffers that were ever filled are numbered; buffer n   *)
(* was in slot n % NBuf. At any time np of them have been parsed, nr read  *)
(* and nl filled (Cut). Up to the first read() that finds no line end -    *)
(* Border is the line end before it - a buffer is a section of the file    *)
(* that ends at a line end or at its end; its bytes are those of the file  *)
(* until the reader has it; then its lines follow each other (Chain), and  *)
(* each has the words between where it begins and where the next does.     *)
(* What the parser has seen are the lines before the place it is at.       *)
(***************************************************************************)
EXTENDS FileLines, Recursion_proofs, FiniteSetTheorems, SequenceTheorems

(* A pool that goes on at next, in the current chunk.                      *)
PoolInv(p) ==
  /\ p \in PoolType
  /\ p.next = Pointer(p.memory, p.used)
  /\ p.used < PoolSize

Holds(p, e) ==
  /\ e.argv \in PointerType
  /\ e.argc \in Nat
  /\ \/ e.argv.chunk < p.memory
     \/ e.argv.chunk = p.memory /\ e.argv.at + e.argc <= p.used

IsLine(l) ==
  /\ l = [begin |-> l.begin, strings |-> l.strings, nStrings |-> l.nStrings]
  /\ l.nStrings \in 0 .. MaxArgs

IsSeq(s) == s \in Seq({s[k] : k \in DOMAIN s})

LinesInv  == /\ DOMAIN list = Slots
             /\ \A i \in Slots : IsSeq(list[i]) /\ \A n \in 1 .. Len(list[i]) : IsLine(list[i][n])
ParserInv == /\ parser \in [i: Slots, line: Nat, argv: PointerType, pc: {"begin", "lines", "done"}]
             /\ parser.pc = "lines" => /\ parser.line >= 1
                                       /\ parser.argv = ptrPool.next
                                       /\ ptrPool.used + MaxArgs < PoolSize
EventsInv == /\ IsSeq(events)
             /\ \A k \in 1 .. Len(events) : Holds(ptrPool, events[k])
Inv == LinesInv /\ ParserInv /\ PoolInv(ptrPool) /\ EventsInv /\ ArgumentsStay

----------------------------------------------------------------------------
(* Sequences of anything.                                                  *)

LEMMA SeqWiden ==
  ASSUME NEW S, NEW T, S \subseteq T, NEW s \in Seq(S)
  PROVE  s \in Seq(T)
OBVIOUS

LEMMA SeqHasShape ==
  ASSUME NEW T, NEW s \in Seq(T)
  PROVE  Len(s) \in Nat /\ DOMAIN s = 1 .. Len(s) /\ s = [k \in 1 .. Len(s) |-> s[k]]
OBVIOUS

LEMMA AppendTyped ==
  ASSUME NEW T, NEW s \in Seq(T), NEW e \in T
  PROVE  /\ Append(s, e) \in Seq(T)
         /\ Len(Append(s, e)) = Len(s) + 1
         /\ \A k \in 1 .. Len(s) : Append(s, e)[k] = s[k]
         /\ Append(s, e)[Len(s) + 1] = e
OBVIOUS

LEMMA SeqOfFunction ==
  ASSUME NEW n \in Nat, NEW f, DOMAIN f = 1 .. n, f = [k \in 1 .. n |-> f[k]]
  PROVE  IsSeq(f) /\ Len(f) = n
<1>1. f \in [1 .. n -> {f[k] : k \in DOMAIN f}]
  OBVIOUS
<1>2. f \in Seq({f[k] : k \in DOMAIN f})
  BY <1>1
<1> QED BY <1>2 DEF IsSeq

LEMMA SeqShape ==
  ASSUME NEW s, IsSeq(s)
  PROVE  Len(s) \in Nat /\ DOMAIN s = 1 .. Len(s) /\ s = [k \in 1 .. Len(s) |-> s[k]]
BY DEF IsSeq

LEMMA SeqAppend ==
  ASSUME NEW s, IsSeq(s), NEW e
  PROVE  /\ IsSeq(Append(s, e))
         /\ Len(Append(s, e)) = Len(s) + 1
         /\ \A k \in 1 .. Len(s) : Append(s, e)[k] = s[k]
         /\ Append(s, e)[Len(s) + 1] = e
<1> DEFINE S == {s[k] : k \in DOMAIN s}
           T == S \cup {e}
<1>1. s \in Seq(T) /\ e \in T
  BY SeqWiden DEF IsSeq
<1> HIDE DEF T
<1>2. /\ Append(s, e) \in Seq(T)
      /\ Len(Append(s, e)) = Len(s) + 1
      /\ \A k \in 1 .. Len(s) : Append(s, e)[k] = s[k]
      /\ Append(s, e)[Len(s) + 1] = e
  BY <1>1, AppendTyped
<1>3. /\ Len(Append(s, e)) \in Nat
      /\ DOMAIN Append(s, e) = 1 .. Len(Append(s, e))
      /\ Append(s, e) = [k \in 1 .. Len(Append(s, e)) |-> Append(s, e)[k]]
  BY <1>2, SeqHasShape
<1>4. IsSeq(Append(s, e))
  BY <1>3, SeqOfFunction
<1> QED BY <1>2, <1>4

(* Changing a place of a sequence.                                         *)
LEMMA SeqExcept ==
  ASSUME NEW s, IsSeq(s), NEW n, NEW e
  PROVE  /\ IsSeq([s EXCEPT ![n] = e])
         /\ Len([s EXCEPT ![n] = e]) = Len(s)
         /\ \A k \in 1 .. Len(s) : [s EXCEPT ![n] = e][k] = IF k = n THEN e ELSE s[k]
<1> DEFINE t == [s EXCEPT ![n] = e]
<1>1. Len(s) \in Nat /\ DOMAIN s = 1 .. Len(s) /\ s = [k \in 1 .. Len(s) |-> s[k]]
  BY SeqShape
<1>2. DOMAIN t = 1 .. Len(s) /\ t = [k \in 1 .. Len(s) |-> t[k]]
  BY <1>1
<1>3. IsSeq(t) /\ Len(t) = Len(s)
  BY <1>1, <1>2, SeqOfFunction
<1>4. \A k \in 1 .. Len(s) : t[k] = IF k = n THEN e ELSE s[k]
  BY <1>1
<1> QED BY <1>3, <1>4

----------------------------------------------------------------------------
(* The pool.                                                               *)

LEMMA NewPoolInv == PoolInv(NewPool)
BY PoolSizeAssumption DEF PoolInv, NewPool, PoolType, PointerType, Pointer

(* Room for a whole line is there afterwards, and what was handed out      *)
(* before stays handed out.                                                *)
LEMMA PreallocInv ==
  ASSUME NEW p, PoolInv(p), NEW r, r = PreallocN(p, MaxArgs)
  PROVE  /\ PoolInv(r.pool)
         /\ r.ptr = r.pool.next
         /\ r.pool.used + MaxArgs < PoolSize
         /\ \A e : Holds(p, e) => Holds(r.pool, e)
<1> USE MaxArgsAssumption, PoolSizeAssumption
<1>1. p.used \in Nat /\ p.memory \in Nat /\ p.next = Pointer(p.memory, p.used) /\ p.used < PoolSize
  BY DEF PoolInv, PoolType
<1>2. CASE p.used + MaxArgs < PoolSize
  <2>1. r = [pool |-> p, ptr |-> p.next]
    BY <1>2 DEF PreallocN
  <2> QED BY <1>2, <2>1
<1>3. CASE ~(p.used + MaxArgs < PoolSize)
  <2>1. p.used # 0
    BY <1>1, <1>3
  <2>2. r = [pool |-> AddMemory(p), ptr |-> AddMemory(p).next]
    BY <1>3, <2>1 DEF PreallocN
  <2>3. AddMemory(p) \in PoolType
    BY <1>1 DEF AddMemory, PoolInv, PoolType, PointerType, Pointer
  <2>4. /\ AddMemory(p).memory = p.memory + 1 /\ AddMemory(p).used = 0
        /\ AddMemory(p).next = Pointer(p.memory + 1, 0)
    BY DEF AddMemory
  <2>5. PoolInv(AddMemory(p))
    BY <2>3, <2>4 DEF PoolInv
  <2>6. ASSUME NEW e, Holds(p, e)
        PROVE  Holds(AddMemory(p), e)
    <3>1. e.argv.chunk \in Nat
      BY <2>6 DEF Holds, PointerType
    <3>2. e.argv.chunk < p.memory + 1
      BY <1>1, <2>6, <3>1 DEF Holds
    <3> QED BY <2>4, <2>6, <3>2 DEF Holds
  <2> QED BY <2>2, <2>4, <2>5, <2>6
<1> QED BY <1>2, <1>3

(* What is committed is handed out.                                        *)
LEMMA CommitInv ==
  ASSUME NEW p, PoolInv(p), NEW n \in 0 .. MaxArgs, p.used + MaxArgs < PoolSize
  PROVE  /\ PoolInv(CommitN(p, n))
         /\ CommitN(p, n).memory = p.memory
         /\ CommitN(p, n).used = p.used + n
         /\ \A e : Holds(p, e) => Holds(CommitN(p, n), e)
<1> USE MaxArgsAssumption, PoolSizeAssumption
<1>1. p.used \in Nat /\ p.memory \in Nat /\ p.next = Pointer(p.memory, p.used)
  BY DEF PoolInv, PoolType
<1>2. p.used + n < PoolSize
  BY <1>1
<1>3. CommitN(p, n) = [p EXCEPT !.used = p.used + n, !.next = Pointer(p.memory, p.used + n)]
  BY <1>1, <1>2 DEF CommitN, Pointer
<1>4. /\ CommitN(p, n).memory = p.memory /\ CommitN(p, n).used = p.used + n
      /\ CommitN(p, n).next = Pointer(p.memory, p.used + n)
      /\ CommitN(p, n) \in PoolType
  <2> DEFINE u == p.used + n
             q == Pointer(p.memory, u)
  <2>1. u \in Nat
    BY <1>1
  <2>2. q \in PointerType
    BY <1>1, <2>1 DEF PointerType, Pointer
  <2>3. CommitN(p, n) = [p EXCEPT !.used = u, !.next = q] /\ p \in PoolType
    BY <1>3 DEF PoolInv
  <2> HIDE DEF u, q
  <2>4. /\ [p EXCEPT !.used = u, !.next = q] \in PoolType
        /\ [p EXCEPT !.used = u, !.next = q].memory = p.memory
        /\ [p EXCEPT !.used = u, !.next = q].used = u
        /\ [p EXCEPT !.used = u, !.next = q].next = q
    BY <2>1, <2>2, <2>3 DEF PoolType
  <2> QED BY <2>3, <2>4 DEF u, q
<1>5. PoolInv(CommitN(p, n))
  BY <1>2, <1>4 DEF PoolInv
<1>6. ASSUME NEW e, Holds(p, e)
      PROVE  Holds(CommitN(p, n), e)
  <2>1. e.argv.at \in Nat /\ e.argc \in Nat
    BY <1>6 DEF Holds, PointerType
  <2>2. CASE e.argv.chunk < p.memory
    BY <1>4, <1>6, <2>2 DEF Holds
  <2>3. CASE e.argv.chunk = p.memory /\ e.argv.at + e.argc <= p.used
    <3>1. e.argv.at + e.argc <= p.used + n
      BY <1>1, <2>1, <2>3
    <3> QED BY <1>4, <1>6, <2>3, <3>1 DEF Holds
  <2> QED BY <1>6, <2>2, <2>3 DEF Holds
<1> QED BY <1>4, <1>5, <1>6

----------------------------------------------------------------------------
(* The steps.                                                              *)

LEMMA EmptyIsSeq == IsSeq(<<>>) /\ Len(<<>>) = 0
BY DEF IsSeq

LEMMA NoLines == IsSeq(<<>>) /\ \A n \in 1 .. Len(<<>>) : IsLine(<<>>[n])
BY EmptyIsSeq

LEMMA InitInv == Init => Inv
<1> SUFFICES ASSUME Init PROVE Inv
  OBVIOUS
<1>1. LinesInv
  BY EmptyIsSeq DEF Init, LinesInv
<1>2. ParserInv
  BY NBufAssumption DEF Init, ParserInv, Slots, PointerType, NullPointer, Pointer
<1>3. EventsInv
  BY EmptyIsSeq DEF Init, EventsInv
<1>4. ArgumentsStay
  BY EmptyIsSeq DEF Init, ArgumentsStay
<1>5. PoolInv(ptrPool)
  BY NewPoolInv DEF Init
<1> QED BY <1>1, <1>2, <1>3, <1>4, <1>5 DEF Inv

(* Nothing but the lists of lines is changed.                              *)
LEMMA OnlyLines ==
  ASSUME Inv, UNCHANGED <<parser, ptrPool, args, events>>, LinesInv'
  PROVE  Inv'
BY DEF Inv, ParserInv, EventsInv, ArgumentsStay

LEMMA LinesOfSlot ==
  ASSUME LinesInv, NEW i, NEW l, list' = [list EXCEPT ![i] = l],
         i \in Slots => IsSeq(l) /\ \A n \in 1 .. Len(l) : IsLine(l[n])
  PROVE  LinesInv'
BY DEF LinesInv

LEMMA ReaderBeginInv ==
  ASSUME Inv, ReaderBegin
  PROVE  Inv'
<1>1. list' = [list EXCEPT ![reader.curbuf] = <<>>]
  BY DEF ReaderBegin
<1>2. LinesInv'
  <2>1. LinesInv
    BY DEF Inv
  <2> QED BY <1>1, <2>1, NoLines, LinesOfSlot
<1> QED BY <1>2, OnlyLines DEF ReaderBegin, parseVars

LEMMA ReadLineInv ==
  ASSUME Inv, ReadLine
  PROVE  Inv'
<1> DEFINE i == reader.curbuf
           line == [begin |-> cur.filePos + reader.lastPos,
                    strings |-> PreallocN(strPool[i], MaxArgs).ptr, nStrings |-> 0]
<1>1. list' = [list EXCEPT ![i] = Append(list[i], line)]
  BY DEF ReadLine
<1>2. IsLine(line)
  BY MaxArgsAssumption DEF IsLine
<1> HIDE DEF line
<1>3. ASSUME i \in Slots
      PROVE  IsSeq(Append(list[i], line)) /\ \A n \in 1 .. Len(Append(list[i], line)) :
                                               IsLine(Append(list[i], line)[n])
  <2>1. IsSeq(list[i]) /\ \A n \in 1 .. Len(list[i]) : IsLine(list[i][n])
    BY <1>3 DEF Inv, LinesInv
  <2>2. /\ IsSeq(Append(list[i], line))
        /\ Len(Append(list[i], line)) = Len(list[i]) + 1
        /\ \A k \in 1 .. Len(list[i]) : Append(list[i], line)[k] = list[i][k]
        /\ Append(list[i], line)[Len(list[i]) + 1] = line
    BY <2>1, SeqAppend
  <2>3. Len(list[i]) \in Nat
    BY <2>1, SeqShape
  <2>4. ASSUME NEW n \in 1 .. Len(Append(list[i], line))
        PROVE  IsLine(Append(list[i], line)[n])
    <3>1. n \in 1 .. Len(list[i]) \/ n = Len(list[i]) + 1
      BY <2>2, <2>3
    <3> QED BY <1>2, <2>1, <2>2, <3>1
  <2> QED BY <2>2, <2>4
<1>4. LinesInv'
  BY <1>1, <1>3, LinesOfSlot DEF Inv
<1> QED BY <1>4, OnlyLines DEF ReadLine, parseVars

LEMMA ReadNextWordInv ==
  ASSUME Inv, ReadNextWord
  PROVE  Inv'
<1> DEFINE i == reader.curbuf
           l == list[i]
           n == Len(list[i])
           line == [l[n] EXCEPT !.nStrings = @ + 1]
<1>1. list' = [list EXCEPT ![i] = [l EXCEPT ![n] = line]]
  BY DEF ReadNextWord
<1>2. l[n].nStrings < MaxArgs
  BY DEF ReadNextWord, MoreWords, LastLine
<1>3. ASSUME i \in Slots
      PROVE  IsSeq([l EXCEPT ![n] = line]) /\ \A k \in 1 .. Len([l EXCEPT ![n] = line]) :
                                               IsLine([l EXCEPT ![n] = line][k])
  <2>1. IsSeq(l) /\ \A k \in 1 .. Len(l) : IsLine(l[k])
    BY <1>3 DEF Inv, LinesInv
  <2>2. /\ IsSeq([l EXCEPT ![n] = line])
        /\ Len([l EXCEPT ![n] = line]) = Len(l)
        /\ \A k \in 1 .. Len(l) : [l EXCEPT ![n] = line][k] = IF k = n THEN line ELSE l[k]
    <3> HIDE DEF l, n, line
    <3> QED BY <2>1, SeqExcept
  <2>3. ASSUME NEW k \in 1 .. Len(l)
        PROVE  IsLine([l EXCEPT ![n] = line][k])
    <3>1. CASE k = n
      <4>1. IsLine(l[n])
        BY <2>1, <3>1
      <4>2. line = [begin |-> l[n].begin, strings |-> l[n].strings, nStrings |-> l[n].nStrings + 1]
        BY <4>1 DEF IsLine
      <4>3. l[n].nStrings + 1 \in 0 .. MaxArgs
        BY <1>2, <4>1, MaxArgsAssumption DEF IsLine
      <4>4. IsLine(line)
        BY <4>2, <4>3 DEF IsLine
      <4> QED BY <2>2, <3>1, <4>4
    <3>2. CASE k # n
      BY <2>1, <2>2, <3>2
    <3> QED BY <3>1, <3>2
  <2> QED BY <2>2, <2>3
<1>4. LinesInv'
  BY <1>1, <1>3, LinesOfSlot DEF Inv
<1> QED BY <1>4, OnlyLines DEF ReadNextWord, parseVars

LEMMA ParserBeginInv ==
  ASSUME Inv, ParserBegin
  PROVE  Inv'
<1> DEFINE room == PreallocN(ptrPool, MaxArgs)
<1>1. /\ PoolInv(room.pool) /\ room.ptr = room.pool.next
      /\ room.pool.used + MaxArgs < PoolSize
      /\ \A e : Holds(ptrPool, e) => Holds(room.pool, e)
  BY PreallocInv DEF Inv
<1>2. ptrPool' = room.pool /\ UNCHANGED <<list, args, events>>
  BY DEF ParserBegin, readVars
<1>3. parser' = [parser EXCEPT !.line = 1, !.argv = room.ptr, !.pc = "lines"]
  BY DEF ParserBegin
<1>4. room.ptr \in PointerType
  BY <1>1 DEF PoolInv, PoolType
<1> HIDE DEF room
<1>5. ParserInv'
  <2>1. parser \in [i: Slots, line: Nat, argv: PointerType, pc: {"begin", "lines", "done"}]
    BY DEF Inv, ParserInv
  <2>2. parser' \in [i: Slots, line: Nat, argv: PointerType, pc: {"begin", "lines", "done"}]
    BY <1>3, <1>4, <2>1
  <2>3. parser'.line = 1 /\ parser'.argv = room.ptr
    BY <1>3, <2>1
  <2> QED BY <1>1, <1>2, <2>2, <2>3 DEF ParserInv
<1>6. EventsInv'
  BY <1>1, <1>2 DEF Inv, EventsInv
<1>7. LinesInv' /\ ArgumentsStay'
  BY <1>2 DEF Inv, LinesInv, ArgumentsStay
<1> QED BY <1>1, <1>2, <1>5, <1>6, <1>7 DEF Inv

LEMMA ParserEndInv ==
  ASSUME Inv, ParserEnd
  PROVE  Inv'
<1>1. list' = [list EXCEPT ![parser.i] = <<>>]
  BY DEF ParserEnd
<1>2. LinesInv'
  <2>1. LinesInv
    BY DEF Inv
  <2> QED BY <1>1, <2>1, NoLines, LinesOfSlot
<1>3. Slot(parser.i) \in Slots
  BY NBufAssumption DEF Inv, ParserInv, Slot, Slots
<1>4. parser' = [parser EXCEPT !.i = Slot(parser.i),
                               !.pc = IF buf[parser.i].eof THEN "done" ELSE "begin"]
  BY DEF ParserEnd
<1>5. UNCHANGED <<ptrPool, args, events>>
  BY DEF ParserEnd
<1>6. ParserInv'
  BY <1>3, <1>4, <1>5 DEF Inv, ParserInv
<1>7. EventsInv' /\ ArgumentsStay' /\ PoolInv(ptrPool)'
  BY <1>5 DEF Inv, EventsInv, ArgumentsStay
<1> QED BY <1>2, <1>6, <1>7 DEF Inv

(* What begins in what has been used is before what comes after it.          *)
LEMMA Room ==
  ASSUME NEW u \in Nat, NEW c \in Nat, NEW v \in Nat, NEW j \in Nat, NEW k \in Nat,
         j <= c, u + c <= v, 1 <= k
  PROVE  u + j - 1 < v + k - 1
  OBVIOUS

(* The line the parser is at: its words, and where they are written.       *)
LEMMA ParseLineInv ==
  ASSUME Inv, ParseLine
  PROVE  Inv'
<1> DEFINE line  == list[parser.i][parser.line]
           words == WordsOf(parser.i, line)
           argv  == parser.argv
           Taken == {Pointer(argv.chunk, argv.at + k - 1) : k \in 1 .. Len(words)}
           pool  == CommitN(ptrPool, Len(words))
           room  == PreallocN(pool, MaxArgs)
           event == [argv |-> argv, argc |-> Len(words), words |-> words]
<1>1. IsSeq(words) /\ Len(words) \in 0 .. MaxArgs
  <2>1. parser.line >= 1 /\ parser.line <= Len(list[parser.i]) /\ parser.i \in Slots
        /\ parser.line \in Nat
    BY DEF Inv, ParserInv, ParseLine
  <2>2. IsSeq(list[parser.i]) /\ \A n \in 1 .. Len(list[parser.i]) : IsLine(list[parser.i][n])
    BY <2>1 DEF Inv, LinesInv
  <2>3. Len(list[parser.i]) \in Nat
    BY <2>2, SeqShape
  <2>4. line.nStrings \in 0 .. MaxArgs
    <3>1. parser.line \in 1 .. Len(list[parser.i])
      BY <2>1, <2>3
    <3>2. IsLine(line)
      BY <2>2, <3>1
    <3> QED BY <3>2 DEF IsLine
  <2>5. DOMAIN words = 1 .. line.nStrings /\ words = [k \in 1 .. line.nStrings |-> words[k]]
    BY DEF WordsOf
  <2>6. line.nStrings \in Nat
    BY <2>4, MaxArgsAssumption
  <2> HIDE DEF words, line
  <2> QED BY <2>4, <2>5, <2>6, SeqOfFunction
<1>2. /\ parser \in [i: Slots, line: Nat, argv: PointerType, pc: {"begin", "lines", "done"}]
      /\ parser.pc = "lines" /\ argv = ptrPool.next /\ ptrPool.used + MaxArgs < PoolSize
      /\ PoolInv(ptrPool) /\ LinesInv /\ EventsInv /\ ArgumentsStay
  BY DEF Inv, ParserInv, ParseLine
<1>3. /\ argv = Pointer(ptrPool.memory, ptrPool.used)
      /\ ptrPool.used \in Nat /\ ptrPool.memory \in Nat
      /\ argv.chunk = ptrPool.memory /\ argv.at = ptrPool.used /\ argv \in PointerType
  BY <1>2 DEF PoolInv, PoolType, Pointer
<1>4. args' = [a \in DOMAIN args \cup Taken |->
                 IF a \in Taken THEN words[a.at - argv.at + 1] ELSE args[a]]
  BY DEF ParseLine
<1>5. Len(words) \in Nat
  BY <1>1, MaxArgsAssumption
<1>6. UNCHANGED list
  BY DEF ParseLine, readVars
<1>7. \/ /\ events' = Append(events, event) /\ ptrPool' = room.pool
         /\ parser' = [parser EXCEPT !.line = parser.line + 1, !.argv = room.ptr]
      \/ UNCHANGED <<events, ptrPool>> /\ parser' = [parser EXCEPT !.line = parser.line + 1]
  BY DEF ParseLine
<1> HIDE DEF words
<1>8. LinesInv'
  BY <1>2, <1>6 DEF LinesInv
(* What events own is not written to.                                      *)
<1>9. ASSUME NEW e, Holds(ptrPool, e), NEW j \in 1 .. e.argc,
             Pointer(e.argv.chunk, e.argv.at + j - 1) \in DOMAIN args
      PROVE  LET a == Pointer(e.argv.chunk, e.argv.at + j - 1)
             IN a \in DOMAIN args' /\ args'[a] = args[a]
  <2> DEFINE a == Pointer(e.argv.chunk, e.argv.at + j - 1)
  <2>1. e.argv.chunk \in Nat /\ e.argv.at \in Nat /\ e.argc \in Nat /\ j \in Nat
    BY <1>9 DEF Holds, PointerType
  <2>2. ASSUME NEW k \in 1 .. Len(words)
        PROVE  a # Pointer(argv.chunk, argv.at + k - 1)
    <3>1. CASE e.argv.chunk < ptrPool.memory
      BY <1>3, <2>1, <3>1 DEF Pointer
    <3>2. CASE e.argv.at + e.argc <= ptrPool.used
      <4>1. e.argv.at + j - 1 < ptrPool.used + k - 1
        <5>1. PICK u, c, v \in Nat : u = e.argv.at /\ c = e.argc /\ v = ptrPool.used
          BY <1>3, <2>1
        <5>2. j \in Nat /\ j <= c /\ u + c <= v /\ k \in Nat /\ 1 <= k
          BY <1>5, <2>1, <3>2, <5>1
        <5>3. u + j - 1 < v + k - 1
          BY ONLY <5>1, <5>2, Room
        <5> QED BY <5>1, <5>3
      <4>2. e.argv.at + j - 1 # argv.at + k - 1
        BY <1>3, <1>5, <2>1, <4>1
      <4> QED BY <4>2 DEF Pointer
    <3> QED BY <1>9, <3>1, <3>2 DEF Holds
  <2>3. a \notin Taken
    BY <2>2
  <2> HIDE DEF a, Taken
  <2>4. a \in DOMAIN args
    BY <1>9 DEF a
  <2>5. a \in DOMAIN args' /\ args'[a] = args[a]
    BY <1>4, <2>3, <2>4
  <2> QED BY <2>5 DEF a
<1>10. IsSeq(events) /\ Len(events) \in Nat /\ \A k \in 1 .. Len(events) : Holds(ptrPool, events[k])
  BY <1>2, SeqShape DEF EventsInv
<1>11. ASSUME NEW k \in 1 .. Len(events), NEW j \in 1 .. events[k].argc
       PROVE  LET a == Pointer(events[k].argv.chunk, events[k].argv.at + j - 1)
              IN a \in DOMAIN args' /\ args'[a] = events[k].words[j]
  <2>1. LET a == Pointer(events[k].argv.chunk, events[k].argv.at + j - 1)
        IN a \in DOMAIN args /\ args[a] = events[k].words[j]
    BY <1>2 DEF ArgumentsStay
  <2>2. Holds(ptrPool, events[k])
    BY <1>10
  <2> QED BY <1>9, <2>1, <2>2
<1>12. CASE UNCHANGED <<events, ptrPool>> /\ parser' = [parser EXCEPT !.line = parser.line + 1]
  <2>1. ArgumentsStay'
    BY <1>11, <1>12 DEF ArgumentsStay
  <2>2. parser' \in [i: Slots, line: Nat, argv: PointerType, pc: {"begin", "lines", "done"}]
    BY <1>2, <1>12
  <2>3. parser'.line = parser.line + 1 /\ parser'.argv = parser.argv
    BY <1>2, <1>12
  <2>4. parser.line \in Nat
    BY <1>2
  <2>5. parser'.line >= 1
    BY <2>3, <2>4
  <2>6. ParserInv'
    BY <1>2, <1>12, <2>2, <2>3, <2>5 DEF ParserInv
  <2>7. EventsInv' /\ PoolInv(ptrPool)'
    BY <1>2, <1>12 DEF EventsInv
  <2> QED BY <1>8, <2>1, <2>6, <2>7 DEF Inv
<1>13. CASE /\ events' = Append(events, event) /\ ptrPool' = room.pool
            /\ parser' = [parser EXCEPT !.line = parser.line + 1, !.argv = room.ptr]
  <2>1. /\ PoolInv(pool) /\ pool.memory = ptrPool.memory
        /\ pool.used = ptrPool.used + Len(words)
        /\ \A e : Holds(ptrPool, e) => Holds(pool, e)
    BY <1>1, <1>2, CommitInv
  <2> HIDE DEF pool
  <2>2. /\ PoolInv(room.pool) /\ room.ptr = room.pool.next
        /\ room.pool.used + MaxArgs < PoolSize
        /\ \A e : Holds(pool, e) => Holds(room.pool, e)
    BY <2>1, PreallocInv
  <2> HIDE DEF room
  <2>3. event.argv = argv /\ event.argc = Len(words) /\ event.words = words
    OBVIOUS
  <2> HIDE DEF event
  <2>4. Holds(pool, event)
    BY <1>3, <1>5, <2>1, <2>3 DEF Holds
  <2>5. /\ IsSeq(Append(events, event)) /\ Len(Append(events, event)) = Len(events) + 1
        /\ \A k \in 1 .. Len(events) : Append(events, event)[k] = events[k]
        /\ Append(events, event)[Len(events) + 1] = event
    BY <1>10, SeqAppend
  <2>6. \A k \in 1 .. Len(Append(events, event)) : k \in 1 .. Len(events) \/ k = Len(events) + 1
    BY <1>10, <2>5
  <2>7. \A k \in 1 .. Len(Append(events, event)) : Holds(room.pool, Append(events, event)[k])
    BY <1>10, <2>1, <2>2, <2>4, <2>5, <2>6
  <2>8. EventsInv'
    BY <1>13, <2>5, <2>7 DEF EventsInv
  <2>9. ASSUME NEW j \in 1 .. event.argc
        PROVE  LET a == Pointer(event.argv.chunk, event.argv.at + j - 1)
               IN a \in DOMAIN args' /\ args'[a] = event.words[j]
    <3> DEFINE a == Pointer(argv.chunk, argv.at + j - 1)
    <3>1. a \in Taken
      BY <2>3
    <3>2. a.at = argv.at + j - 1 /\ argv.at \in Nat /\ j \in Nat
      BY <1>3, <1>5, <2>3 DEF Pointer
    <3>3. a.at - argv.at + 1 = j
      BY <3>2
    <3> HIDE DEF a, Taken
    <3>4. a \in DOMAIN args' /\ args'[a] = words[j]
      BY <1>4, <3>1, <3>3
    <3> QED BY <2>3, <3>4 DEF a
  <2>10. ArgumentsStay'
    BY <1>11, <1>13, <2>5, <2>6, <2>9 DEF ArgumentsStay
  <2>11. room.ptr \in PointerType
    BY <2>2 DEF PoolInv, PoolType
  <2>12. parser.line \in Nat /\ parser.line + 1 \in Nat
    BY <1>2
  <2>13. parser' \in [i: Slots, line: Nat, argv: PointerType, pc: {"begin", "lines", "done"}]
    <3> DEFINE n == parser.line + 1
               ptr == room.ptr
    <3>1. n \in Nat /\ ptr \in PointerType
      BY <2>11, <2>12
    <3>2. parser' = [parser EXCEPT !.line = n, !.argv = ptr]
      BY <1>13
    <3> HIDE DEF n, ptr
    <3> QED BY <1>2, <3>1, <3>2
  <2>14. parser'.line = parser.line + 1 /\ parser'.argv = room.ptr
    BY <1>2, <1>13
  <2>15. parser'.line >= 1
    BY <2>14, <2>12
  <2>16. ParserInv'
    BY <1>13, <2>2, <2>13, <2>14, <2>15 DEF ParserInv
  <2> QED BY <1>8, <1>13, <2>2, <2>8, <2>10, <2>16 DEF Inv
<1> QED BY <1>7, <1>12, <1>13

LEMMA StutterInv ==
  ASSUME Inv, UNCHANGED <<list, parser, ptrPool, args, events>>
  PROVE  Inv'
BY DEF Inv, LinesInv, ParserInv, EventsInv, ArgumentsStay

LEMMA NextInv == Inv /\ [Next]_vars => Inv'
<1> SUFFICES ASSUME Inv, [Next]_vars PROVE Inv'
  OBVIOUS
<1>1. CASE ProduceBuffer \/ Abort
  BY <1>1, StutterInv DEF ProduceBuffer, Abort, readVars, parseVars
<1>2. CASE EndLine
  BY <1>2, StutterInv DEF EndLine, parseVars
<1>3. CASE UNCHANGED vars
  BY <1>3, StutterInv DEF vars, readVars, parseVars
<1>4. CASE Reader
  BY <1>2, <1>4, ReaderBeginInv, ReadLineInv, ReadNextWordInv DEF Reader
<1>5. CASE Parser
  BY <1>5, ParserBeginInv, ParseLineInv, ParserEndInv DEF Parser
<1> QED BY <1>1, <1>3, <1>4, <1>5 DEF Next, Loader, Finished

(* The arguments of an event stay what they were when it was parsed.       *)
THEOREM ArgumentsStayCorrect == Spec => []ArgumentsStay
<1>1. Init => Inv
  BY InitInv
<1>2. Inv /\ [Next]_vars => Inv'
  BY NextInv
<1>3. Inv => ArgumentsStay
  BY DEF Inv
<1> QED BY <1>1, <1>2, <1>3, PTL DEF Spec

----------------------------------------------------------------------------
(* The words of a file.                                                    *)

LEMMA CharsDiffer == Letter # Space /\ Letter # Newline /\ Space # Newline
BY DEF Letter, Space, Newline

FileOK == file \in Seq(Chars)

LEMMA FileChars ==
  ASSUME FileOK
  PROVE  Len(file) \in Nat /\ \A p \in Bytes : file[p] \in {Letter, Space, Newline}
BY DEF FileOK, Bytes, Chars

LEMMA WordOfFile ==
  ASSUME FileOK, NEW w \in FileWords
  PROVE  /\ w[1] \in Nat /\ w[2] \in Nat /\ w = <<w[1], w[2]>>
         /\ 1 <= w[1] /\ w[1] <= w[2] /\ w[2] <= Len(file)
         /\ \A p \in w[1] .. w[2] : IsLetter(p)
         /\ ~IsLetter(w[1] - 1) /\ ~IsLetter(w[2] + 1)
<1>1. w \in Bytes \X Bytes /\ Len(file) \in Nat
  BY FileChars DEF FileWords
<1>2. w[1] \in 1 .. Len(file) /\ w[2] \in 1 .. Len(file) /\ w = <<w[1], w[2]>>
  BY <1>1 DEF Bytes
<1>3. w[1] <= w[2] /\ (\A p \in w[1] .. w[2] : IsLetter(p)) /\ ~IsLetter(w[1] - 1) /\ ~IsLetter(w[2] + 1)
  BY DEF FileWords
<1> QED BY <1>1, <1>2, <1>3

(* Between two words there is a byte of neither.                           *)
LEMMA WordsApart ==
  ASSUME FileOK, NEW v \in FileWords, NEW w \in FileWords, v[1] < w[1]
  PROVE  v[2] + 1 < w[1]
<1>1. /\ v[1] \in Nat /\ v[2] \in Nat /\ v[1] <= v[2] /\ ~IsLetter(v[2] + 1)
      /\ \A p \in v[1] .. v[2] : IsLetter(p)
  BY WordOfFile
<1>2. /\ w[1] \in Nat /\ w[2] \in Nat /\ w[1] <= w[2] /\ ~IsLetter(w[1] - 1)
      /\ \A p \in w[1] .. w[2] : IsLetter(p)
  BY WordOfFile
<1>3. w[1] - 1 \notin v[1] .. v[2]
  BY <1>1, <1>2
<1>4. v[2] + 1 \notin w[1] .. w[2]
  BY <1>1, <1>2
<1> QED BY <1>1, <1>2, <1>3, <1>4

LEMMA WordsEqual ==
  ASSUME FileOK, NEW v \in FileWords, NEW w \in FileWords, v[1] = w[1]
  PROVE  v = w
<1>1. /\ v[1] \in Nat /\ v[2] \in Nat /\ v[1] <= v[2] /\ ~IsLetter(v[2] + 1) /\ v = <<v[1], v[2]>>
      /\ \A p \in v[1] .. v[2] : IsLetter(p)
  BY WordOfFile
<1>2. /\ w[1] \in Nat /\ w[2] \in Nat /\ w[1] <= w[2] /\ ~IsLetter(w[2] + 1) /\ w = <<w[1], w[2]>>
      /\ \A p \in w[1] .. w[2] : IsLetter(p)
  BY WordOfFile
<1>3. v[2] + 1 \notin w[1] .. w[2] /\ w[2] + 1 \notin v[1] .. v[2]
  BY <1>1, <1>2
<1>4. v[2] = w[2]
  BY <1>1, <1>2, <1>3
<1> QED BY <1>1, <1>2, <1>4

LEMMA WordsFinite ==
  ASSUME FileOK, NEW S, S \subseteq FileWords
  PROVE  IsFiniteSet(S) /\ Cardinality(S) \in Nat
<1>1. IsFiniteSet(Bytes)
  BY FileChars, FS_Interval DEF Bytes
<1>2. IsFiniteSet(Bytes \X Bytes)
  BY <1>1, FS_Product
<1>3. S \subseteq Bytes \X Bytes
  BY DEF FileWords
<1>4. IsFiniteSet(S)
  BY <1>2, <1>3, FS_Subset
<1> QED BY <1>4, FS_CardinalityType

(* A part of a set of words has fewer words, if one is missing.             *)
LEMMA FewerWords ==
  ASSUME FileOK, NEW S, S \subseteq FileWords, NEW T, T \subseteq S
  PROVE  /\ Cardinality(T) <= Cardinality(S)
         /\ T # S => Cardinality(T) < Cardinality(S)
<1>1. IsFiniteSet(S) /\ Cardinality(S) \in Nat /\ Cardinality(T) \in Nat
  <2>1. T \subseteq FileWords
    OBVIOUS
  <2> QED BY <2>1, WordsFinite
<1>2. Cardinality(T) <= Cardinality(S) /\ (Cardinality(S) = Cardinality(T) => S = T)
  BY <1>1, FS_Subset
<1> QED BY <1>1, <1>2

LEMMA OneWordMore ==
  ASSUME FileOK, NEW S, S \subseteq FileWords, NEW w, w \notin S
  PROVE  Cardinality(S \cup {w}) = Cardinality(S) + 1
BY WordsFinite, FS_AddElement

Below(S, w) == {v \in S : v[1] < w[1]}
UpTo(S, p) == {v \in S : v[1] <= p}
Between(S, p, q) == {v \in S : p < v[1] /\ v[1] <= q}

(* Each word of a set is in its place in the ascending sequence.            *)
LEMMA AscendingAt ==
  ASSUME FileOK, NEW S, S \subseteq FileWords, NEW w \in S
  PROVE  /\ Cardinality(Below(S, w)) \in Nat
         /\ Cardinality(Below(S, w)) + 1 \in 1 .. Cardinality(S)
         /\ Ascending(S)[Cardinality(Below(S, w)) + 1] = w
<1> DEFINE n(v) == Cardinality({u \in S : u[1] < v[1]})
<1>1. ASSUME NEW v \in S
      PROVE  n(v) \in Nat /\ n(v) < Cardinality(S) /\ Cardinality(S) \in Nat
  <2>1. {u \in S : u[1] < v[1]} \subseteq S /\ {u \in S : u[1] < v[1]} \subseteq FileWords
    OBVIOUS
  <2>2. v \notin {u \in S : u[1] < v[1]}
    BY WordOfFile
  <2>3. {u \in S : u[1] < v[1]} # S
    BY <2>2
  <2> QED BY <2>1, <2>3, FewerWords, WordsFinite
<1>2. ASSUME NEW v \in S, NEW u \in S, u[1] < v[1]
      PROVE  n(u) < n(v)
  <2> DEFINE U == {x \in S : x[1] < u[1]}
             V == {x \in S : x[1] < v[1]}
  <2>1. u[1] \in Nat /\ v[1] \in Nat /\ \A x \in S : x[1] \in Nat
    BY WordOfFile
  <2>2. U \subseteq V /\ V \subseteq FileWords
    BY <1>2, <2>1
  <2>3. u \in V /\ u \notin U
    BY <1>2, <2>1
  <2>4. U # V
    BY <2>3
  <2> HIDE DEF U, V
  <2>5. Cardinality(U) < Cardinality(V)
    BY <2>2, <2>4, FewerWords
  <2> QED BY <2>5 DEF U, V
<1>3. ASSUME NEW v \in S, n(v) = n(w)
      PROVE  v = w
  <2>1. v[1] \in Nat /\ w[1] \in Nat
    BY WordOfFile
  <2>2. n(v) \in Nat /\ n(w) \in Nat
    BY <1>1
  <2>3. ~(v[1] < w[1]) /\ ~(w[1] < v[1])
    <3> HIDE DEF n
    <3> QED BY <1>2, <1>3, <2>2
  <2>4. v[1] = w[1]
    BY <2>1, <2>3
  <2> QED BY <2>4, WordsEqual
<1>4. n(w) + 1 \in 1 .. Cardinality(S)
  BY <1>1
<1>5. PICK k : k = n(w) + 1
  OBVIOUS
<1>6. Ascending(S)[k] = w
  <2>1. k \in 1 .. Cardinality(S)
    BY <1>4, <1>5
  <2>2. Ascending(S)[k] = CHOOSE v \in S : n(v) = k - 1
    BY <2>1 DEF Ascending
  <2> HIDE DEF n
  <2>3. \A v \in S : n(v) = k - 1 => v = w
    BY <1>1, <1>3, <1>5
  <2>4. n(w) = k - 1
    BY <1>1, <1>5
  <2> QED BY <2>2, <2>3, <2>4
<1> QED BY <1>1, <1>4, <1>5, <1>6 DEF Below

LEMMA AscendingDomain == \A S : DOMAIN Ascending(S) = 1 .. Cardinality(S)
BY DEF Ascending

(* The word that follows the first n ones is in place n + 1.               *)
LEMMA NextWord ==
  ASSUME FileOK, NEW S, S \subseteq FileWords, NEW p \in Nat, NEW w \in S, p < w[1],
         \A v \in S : v[1] <= p \/ w[1] <= v[1]
  PROVE  /\ Cardinality(UpTo(S, p)) \in Nat
         /\ Cardinality(UpTo(S, p)) + 1 \in 1 .. Cardinality(S)
         /\ Ascending(S)[Cardinality(UpTo(S, p)) + 1] = w
<1>1. \A v \in S : v[1] \in Nat
  BY WordOfFile
<1>2. Below(S, w) = UpTo(S, p)
  BY <1>1 DEF Below, UpTo
<1> QED BY <1>2, AscendingAt

----------------------------------------------------------------------------
(* How far the file is read before a read() finds no line end.             *)
LEMMA MaxOf ==
  ASSUME NEW S, S \subseteq Int, NEW m \in S, \A x \in S : x <= m
  PROVE  Max(S) = m
<1>1. \A x \in S : (\A y \in S : x >= y) => x = m
  OBVIOUS
<1>2. \A y \in S : m >= y
  OBVIOUS
<1> QED BY <1>1, <1>2 DEF Max

Border == IF NoEnd = {} THEN Len(file)
          ELSE Max({0} \cup {e \in LineEnds : \A p \in NoEnd : e <= p})

LEMMA LineEndFacts ==
  ASSUME FileOK, NEW e \in LineEnds
  PROVE  e \in Nat /\ 1 <= e /\ e <= Len(file) /\ file[e] = Newline /\ ~IsLetter(e)
BY FileChars, CharsDiffer DEF LineEnds, Bytes, IsLetter

LEMMA BorderFacts ==
  ASSUME FileOK
  PROVE  /\ Border \in 0 .. Len(file)
         /\ NoEnd = {} => Border = Len(file)
         /\ NoEnd # {} => /\ Border \in {0} \cup LineEnds
                          /\ \A p \in NoEnd : Border <= p
                          /\ \A e \in LineEnds : (\A p \in NoEnd : e <= p) => e <= Border
<1> DEFINE S == {0} \cup {e \in LineEnds : \A p \in NoEnd : e <= p}
<1>1. \A x \in S : x \in 0 .. Len(file)
  BY LineEndFacts, FileChars
<1>2. Len(file) \in Int /\ \A x \in S : x \in Int /\ x <= Len(file)
  BY <1>1, FileChars
<1>3. PICK m \in S : \A x \in S : x <= m
  <2>1. S # {}
    OBVIOUS
  <2> HIDE DEF S
  <2> QED BY <1>2, <2>1, Greatest
<1>4. Max(S) = m
  <2> HIDE DEF S
  <2>1. S \subseteq Int
    BY <1>2
  <2> QED BY <1>3, <2>1, MaxOf
<1>5. CASE NoEnd = {}
  BY <1>5, FileChars DEF Border
<1>6. CASE NoEnd # {}
  <2>1. Border = m
    BY <1>4, <1>6 DEF Border
  <2>2. m \in {0} \cup LineEnds /\ m \in 0 .. Len(file)
    BY <1>1
  <2>3. \A p \in NoEnd : m <= p
    <3>1. \A p \in NoEnd : 0 <= p
      BY FileChars DEF NoEnd, Reads
    <3> QED BY <3>1
  <2>4. \A e \in LineEnds : (\A p \in NoEnd : e <= p) => e <= m
    BY <1>3
  <2> QED BY <1>6, <2>1, <2>2, <2>3, <2>4
<1> QED BY <1>5, <1>6

LEMMA SeenUpTo ==
  ASSUME FileOK
  PROVE  SeenWords = UpTo(FileWords, Border)
<1>1. CASE NoEnd = {}
  <2>1. Border = Len(file)
    BY <1>1, BorderFacts
  <2>2. \A w \in FileWords : w[1] <= Border
    BY <2>1, WordOfFile, FileChars
  <2> QED BY <1>1, <2>2 DEF SeenWords, UpTo
<1>2. CASE NoEnd # {}
  <2>1. ASSUME NEW w \in FileWords, Uncut(w)
        PROVE  w[1] <= Border
    <3>1. PICK e \in LineEnds : e > w[2] /\ \A p \in NoEnd : e <= p
      BY <2>1 DEF Uncut
    <3>2. e <= Border /\ e \in Nat /\ Border \in Nat
      BY <1>2, <3>1, BorderFacts, LineEndFacts, FileChars
    <3> QED BY <3>1, <3>2, WordOfFile
  <2>2. ASSUME NEW w \in FileWords, w[1] <= Border
        PROVE  Uncut(w)
    <3>1. Border \in {0} \cup LineEnds /\ \A p \in NoEnd : Border <= p
      BY <1>2, BorderFacts
    <3>2. w[1] \in Nat /\ w[2] \in Nat /\ 1 <= w[1] /\ \A p \in w[1] .. w[2] : IsLetter(p)
      BY WordOfFile
    <3>3. Border \in LineEnds
      BY <2>2, <3>1, <3>2
    <3>4. ~IsLetter(Border) /\ Border \in Nat
      BY <3>3, LineEndFacts
    <3>5. Border > w[2]
      BY <2>2, <3>2, <3>4
    <3> QED BY <3>1, <3>3, <3>5 DEF Uncut
  <2> QED BY <1>2, <2>1, <2>2 DEF SeenWords, UpTo
<1> QED BY <1>1, <1>2

----------------------------------------------------------------------------
(* The lines of the file, counted by the words they begin with.            *)

NrStarts(p) == Cardinality(UpTo(FirstWords, p))

LEMMA FirstAreWords == FirstWords \subseteq FileWords
BY DEF FirstWords

LEMMA UpToWords ==
  ASSUME NEW S, S \subseteq FileWords, NEW p
  PROVE  UpTo(S, p) \subseteq FileWords /\ UpTo(S, p) \subseteq S
BY DEF UpTo

LEMMA StartsType ==
  ASSUME FileOK, NEW p
  PROVE  NrStarts(p) \in Nat
BY FirstAreWords, UpToWords, WordsFinite DEF NrStarts

LEMMA StartsGrow ==
  ASSUME FileOK, NEW p \in Nat, NEW q \in Nat, p <= q
  PROVE  NrStarts(p) <= NrStarts(q)
<1>1. \A v \in FirstWords : v[1] \in Nat
  BY FirstAreWords, WordOfFile
<1>2. UpTo(FirstWords, p) \subseteq UpTo(FirstWords, q)
  BY <1>1 DEF UpTo
<1>3. UpTo(FirstWords, q) \subseteq FileWords
  BY FirstAreWords, UpToWords
<1> QED BY <1>2, <1>3, FewerWords DEF NrStarts

LEMMA StartsSame ==
  ASSUME FileOK, NEW p \in Nat, NEW q \in Nat, p <= q, Between(FirstWords, p, q) = {}
  PROVE  NrStarts(q) = NrStarts(p)
<1>1. \A v \in FirstWords : v[1] \in Nat
  BY FirstAreWords, WordOfFile
<1>2. UpTo(FirstWords, q) = UpTo(FirstWords, p)
  BY <1>1 DEF UpTo, Between
<1> QED BY <1>2 DEF NrStarts

LEMMA WholeLines ==
  ASSUME FileOK
  PROVE  /\ DOMAIN Whole = 1 .. NrStarts(Border) /\ Len(Whole) = NrStarts(Border)
         /\ \A k \in 1 .. NrStarts(Border) :
              Whole[k] = LineFrom(Ascending(UpTo(FirstWords, Border))[k])
<1>1. FirstWords \cap SeenWords = UpTo(FirstWords, Border)
  BY SeenUpTo, FirstAreWords DEF UpTo
<1> DEFINE first == Ascending(UpTo(FirstWords, Border))
<1>2. DOMAIN first = 1 .. NrStarts(Border)
  BY AscendingDomain DEF NrStarts
<1>3. Whole = [k \in DOMAIN first |-> LineFrom(first[k])]
  BY <1>1 DEF Whole
<1> HIDE DEF first
<1>4. DOMAIN Whole = 1 .. NrStarts(Border) /\ \A k \in 1 .. NrStarts(Border) : Whole[k] = LineFrom(first[k])
  BY <1>2, <1>3
<1>5. Whole = [k \in 1 .. NrStarts(Border) |-> Whole[k]]
  BY <1>2, <1>3
<1>6. Len(Whole) = NrStarts(Border)
  BY <1>4, <1>5, StartsType, SeqOfFunction
<1> QED BY <1>4, <1>6 DEF first

(* A line that begins between p and q is the next one.                     *)
LEMMA WholeNext ==
  ASSUME FileOK, NEW p \in Nat, NEW q \in Nat, p <= q, q <= Border, NEW w,
         Between(FirstWords, p, q) = {w}
  PROVE  /\ NrStarts(p) + 1 \in 1 .. NrStarts(Border)
         /\ Whole[NrStarts(p) + 1] = LineFrom(w)
         /\ NrStarts(q) = NrStarts(p) + 1
<1> DEFINE S == UpTo(FirstWords, Border)
<1>1. \A v \in FirstWords : v[1] \in Nat
  BY FirstAreWords, WordOfFile
<1>2. w \in FirstWords /\ p < w[1] /\ w[1] <= q
  BY DEF Between
<1>3. Border \in Nat
  BY BorderFacts, FileChars
<1>4. w \in S /\ S \subseteq FileWords
  BY <1>1, <1>2, <1>3, FirstAreWords DEF UpTo
<1>5. UpTo(S, p) = UpTo(FirstWords, p)
  BY <1>1, <1>3 DEF UpTo
<1>6. \A v \in S : v[1] <= p \/ w[1] <= v[1]
  <2>1. SUFFICES ASSUME NEW v \in FirstWords, p < v[1], v[1] < w[1] PROVE FALSE
    BY <1>1, <1>2 DEF UpTo
  <2>2. v \in Between(FirstWords, p, q)
    BY <1>1, <1>2, <2>1 DEF Between
  <2>3. v = w
    BY <2>2
  <2> QED BY <1>1, <1>2, <2>1, <2>3
<1> HIDE DEF S
<1>7. NrStarts(p) + 1 \in 1 .. Cardinality(S) /\ Ascending(S)[NrStarts(p) + 1] = w
  BY <1>2, <1>4, <1>5, <1>6, NextWord DEF NrStarts
<1>8. UpTo(FirstWords, q) = UpTo(FirstWords, p) \cup {w} /\ w \notin UpTo(FirstWords, p)
  <2>1. \A v \in FirstWords : v[1] <= q <=> (v[1] <= p \/ v = w)
    <3>1. \A v \in FirstWords : p < v[1] /\ v[1] <= q <=> v = w
      BY DEF Between
    <3> QED BY <1>1, <1>2, <3>1
  <2> QED BY <1>1, <1>2, <2>1 DEF UpTo
<1>9. NrStarts(q) = NrStarts(p) + 1
  BY <1>8, OneWordMore, FirstAreWords, UpToWords DEF NrStarts
<1> QED BY <1>7, <1>9, WholeLines DEF S, NrStarts

----------------------------------------------------------------------------
(* Where a line can begin.                                                 *)

NextAfter(w, p) == p < w[1] /\ \A v \in FileWords : v[1] <= p \/ w[1] <= v[1]

(* What is read from p on is a line of its own.                            *)
Fresh(p) ==
  \A w \in FileWords : NextAfter(w, p) /\ SameLine(p + 1, w[1]) => w \in FirstWords /\ LineBegin(w) = p

LEMMA SameLineFacts ==
  ASSUME NEW p, NEW q, NEW r
  PROVE  /\ SameLine(p, p)
         /\ SameLine(p, q) => SameLine(q, p)
         /\ SameLine(p, q) /\ SameLine(q, r) => SameLine(p, r)
BY DEF SameLine

LEMMA FreshAfterLine ==
  ASSUME FileOK, NEW p \in {0} \cup LineEnds
  PROVE  Fresh(p)
<1> SUFFICES ASSUME NEW w \in FileWords, NextAfter(w, p), SameLine(p + 1, w[1])
             PROVE  w \in FirstWords /\ LineBegin(w) = p
  BY DEF Fresh
<1>1. p \in Nat /\ w[1] \in Nat /\ p < w[1] /\ \A e \in LineEnds : e \in Nat
  BY LineEndFacts, WordOfFile DEF NextAfter
<1>2. WordsBefore(w) = {}
  <2>1. SUFFICES ASSUME NEW v \in FileWords, v[1] < w[1], SameLine(v[1], w[1]) PROVE FALSE
    BY DEF WordsBefore
  <2>2. v[1] <= p /\ v[1] \in Nat /\ 1 <= v[1]
    BY <1>1, <2>1, WordOfFile DEF NextAfter
  <2>3. p \in LineEnds
    BY <2>2
  <2>4. IsLetter(v[1])
    BY WordOfFile
  <2>5. v[1] # p
    BY <2>3, <2>4, LineEndFacts
  <2>6. (p < v[1]) = (p < w[1])
    BY <2>1, <2>3 DEF SameLine
  <2> QED BY <1>1, <2>2, <2>6
<1>3. w \in FirstWords
  <2>1. 0 % MaxArgs = 0
    BY MaxArgsAssumption
  <2> QED BY <1>2, <2>1, FS_EmptySet DEF FirstWords
<1>4. LineBegin(w) = p
  <2> DEFINE S == {0} \cup {e \in LineEnds : e < w[1]}
  <2>1. S \subseteq Int /\ p \in S
    BY <1>1
  <2>2. \A x \in S : x <= p
    <3>1. SUFFICES ASSUME NEW e \in LineEnds, e < w[1], ~(e <= p) PROVE FALSE
      BY <1>1
    <3>2. (e < p + 1) = (e < w[1])
      BY DEF SameLine
    <3> QED BY <1>1, <3>1, <3>2
  <2> HIDE DEF S
  <2>3. Max(S) = p
    BY <2>1, <2>2, MaxOf
  <2> QED BY <1>2, <2>3 DEF LineBegin, S
<1> QED BY <1>3, <1>4

LEMMA FreshAtEnd ==
  ASSUME FileOK
  PROVE  Fresh(Len(file))
BY WordOfFile, FileChars DEF Fresh, NextAfter

----------------------------------------------------------------------------
(* The words of a line.                                                    *)

LEMMA WordsFromAreWords ==
  ASSUME NEW w
  PROVE  WordsFrom(w) \subseteq FileWords /\ WordsBefore(w) \subseteq FileWords
BY DEF WordsFrom, WordsBefore

(* What precedes a word is what precedes its line and what the line has.    *)
LEMMA WordsBeforeSum ==
  ASSUME FileOK, NEW w \in FileWords, NEW u \in WordsFrom(w)
  PROVE  /\ WordsBefore(u) = WordsBefore(w) \cup Below(WordsFrom(w), u)
         /\ Cardinality(WordsBefore(u)) = Cardinality(WordsBefore(w)) + Cardinality(Below(WordsFrom(w), u))
<1>1. u \in FileWords /\ w[1] <= u[1] /\ SameLine(u[1], w[1]) /\ \A v \in FileWords : v[1] \in Nat
  BY WordOfFile DEF WordsFrom
<1>2. WordsBefore(u) = WordsBefore(w) \cup Below(WordsFrom(w), u)
  <2>1. \A v \in FileWords : SameLine(v[1], u[1]) <=> SameLine(v[1], w[1])
    BY <1>1, SameLineFacts
  <2>2. \A v \in FileWords : v[1] < u[1] <=> v[1] < w[1] \/ (v[1] >= w[1] /\ v[1] < u[1])
    BY <1>1
  <2> QED BY <2>1, <2>2 DEF WordsBefore, WordsFrom, Below
<1>3. WordsBefore(w) \cap Below(WordsFrom(w), u) = {}
  BY <1>1 DEF WordsBefore, WordsFrom, Below
<1>4. /\ IsFiniteSet(WordsBefore(w)) /\ IsFiniteSet(Below(WordsFrom(w), u))
      /\ Cardinality(WordsBefore(w)) \in Nat /\ Cardinality(Below(WordsFrom(w), u)) \in Nat
  <2>1. WordsBefore(w) \subseteq FileWords /\ Below(WordsFrom(w), u) \subseteq FileWords
    BY DEF WordsBefore, WordsFrom, Below
  <2> QED BY <2>1, WordsFinite
<1>5. Cardinality(WordsBefore(u)) =
        Cardinality(WordsBefore(w)) + Cardinality(Below(WordsFrom(w), u)) - Cardinality({})
  BY <1>2, <1>3, <1>4, FS_Union
<1> QED BY <1>2, <1>4, <1>5, FS_EmptySet

(* The words of a line after its first do not begin another, up to MaxArgs. *)
LEMMA NotFirst ==
  ASSUME FileOK, NEW w \in FirstWords, NEW u \in WordsFrom(w),
         Cardinality(Below(WordsFrom(w), u)) \in 1 .. MaxArgs - 1
  PROVE  u \notin FirstWords
<1> DEFINE b == Cardinality(WordsBefore(w))
           k == Cardinality(Below(WordsFrom(w), u))
<1>1. w \in FileWords /\ b % MaxArgs = 0
  BY DEF FirstWords
<1>2. b \in Nat
  BY WordsFromAreWords, WordsFinite
<1>3. Cardinality(WordsBefore(u)) = b + k
  BY <1>1, WordsBeforeSum
<1>4. k \in 0 .. MaxArgs - 1 /\ k # 0 /\ MaxArgs \in Nat \ {0}
  BY MaxArgsAssumption
<1> HIDE DEF b, k
<1>5. (b + k) % MaxArgs = k
  BY <1>1, <1>2, <1>4, ModOffset
<1> QED BY <1>3, <1>4, <1>5 DEF FirstWords

(* A word after v that no line end precedes is of the same line.            *)
LEMMA LineGoesOn ==
  ASSUME FileOK, NEW w \in FileWords, NEW v \in WordsFrom(w), NEW p, p = v[2] + 1, p \notin LineEnds,
         NEW u \in FileWords, p < u[1], SameLine(p + 1, u[1])
  PROVE  u \in WordsFrom(w)
<1>1. /\ v \in FileWords /\ w[1] <= v[1] /\ SameLine(v[1], w[1])
      /\ w[1] \in Nat /\ v[1] \in Nat /\ v[2] \in Nat /\ u[1] \in Nat /\ v[1] <= v[2]
      /\ \A q \in v[1] .. v[2] : IsLetter(q)
  BY WordOfFile DEF WordsFrom
<1>2. SameLine(v[1], u[1])
  <2>1. SUFFICES ASSUME NEW e \in LineEnds PROVE (e < v[1]) = (e < u[1])
    BY DEF SameLine
  <2>2. e \in Nat /\ ~IsLetter(e) /\ e # p
    BY LineEndFacts
  <2>3. e \notin v[1] .. v[2]
    BY <1>1, <2>2
  <2>4. (e < p + 1) = (e < u[1])
    BY DEF SameLine
  <2> QED BY <1>1, <2>2, <2>3, <2>4
<1>3. SameLine(u[1], w[1])
  BY <1>1, <1>2, SameLineFacts
<1> QED BY <1>1, <1>3 DEF WordsFrom

(* A line that has MaxArgs words goes on as another one.                   *)
LEMMA FreshAfterWords ==
  ASSUME FileOK, NEW w \in FirstWords, NEW v \in WordsFrom(w), NEW p, p = v[2] + 1,
         Cardinality(UpTo(WordsFrom(w), p)) = MaxArgs
  PROVE  Fresh(p)
<1>1. w \in FileWords /\ v \in FileWords /\ Cardinality(WordsBefore(w)) % MaxArgs = 0
  BY DEF FirstWords, WordsFrom
<1>2. p \in Nat /\ v[1] \in Nat /\ v[2] \in Nat /\ v[1] <= v[2] /\ \A x \in FileWords : x[1] \in Nat
  BY <1>1, WordOfFile
<1>3. CASE p \in LineEnds
  BY <1>3, FreshAfterLine
<1>4. CASE p \notin LineEnds
  <2> SUFFICES ASSUME NEW u \in FileWords, NextAfter(u, p), SameLine(p + 1, u[1])
               PROVE  u \in FirstWords /\ LineBegin(u) = p
    BY DEF Fresh
  <2>1. p < u[1] /\ \A x \in FileWords : x[1] <= p \/ u[1] <= x[1]
    BY DEF NextAfter
  <2>2. u \in WordsFrom(w)
    BY <1>1, <1>4, <2>1, LineGoesOn
  <2>3. Below(WordsFrom(w), u) = UpTo(WordsFrom(w), p)
    BY <1>2, <2>1, WordsFromAreWords DEF Below, UpTo
  <2>4. /\ Cardinality(WordsBefore(u)) = Cardinality(WordsBefore(w)) + MaxArgs
        /\ WordsBefore(u) = WordsBefore(w) \cup UpTo(WordsFrom(w), p)
    BY <1>1, <2>2, <2>3, WordsBeforeSum
  <2>5. u \in FirstWords
    <3>1. Cardinality(WordsBefore(w)) \in Nat
      BY WordsFromAreWords, WordsFinite
    <3>2. (Cardinality(WordsBefore(w)) + MaxArgs) % MaxArgs = 0
      BY <1>1, <3>1, MaxArgsAssumption, ModAround
    <3> QED BY <2>4, <3>2 DEF FirstWords
  <2>6. LineBegin(u) = p
    <3> DEFINE S == {x[2] + 1 : x \in WordsBefore(u)}
    <3>1. v \in WordsBefore(u)
      BY <1>2, <2>4 DEF UpTo
    <3>2. ASSUME NEW x \in WordsBefore(u)
          PROVE  x[2] + 1 \in Int /\ x[2] + 1 <= p
      <4>1. x \in FileWords /\ x[1] < u[1] /\ x[1] <= p
        BY <1>2, <2>1 DEF WordsBefore
      <4>2. x[1] \in Nat /\ x[2] \in Nat /\ x[1] <= x[2]
        BY <4>1, WordOfFile
      <4>3. ~(v[1] < x[1])
        BY <1>1, <1>2, <4>1, <4>2, WordsApart
      <4>4. CASE x[1] = v[1]
        BY <1>1, <1>2, <4>1, <4>4, WordsEqual
      <4>5. CASE x[1] < v[1]
        <5>1. x[2] + 1 < v[1]
          BY <1>1, <4>1, <4>5, WordsApart
        <5> QED BY <1>2, <4>2, <5>1
      <4> QED BY <1>2, <4>2, <4>3, <4>4, <4>5
    <3>3. p \in S /\ S \subseteq Int /\ \A x \in S : x <= p
      BY <3>1, <3>2
    <3> HIDE DEF S
    <3>4. Max(S) = p
      BY <3>3, MaxOf
    <3> QED BY <3>1, <3>4 DEF LineBegin, S
  <2> QED BY <2>5, <2>6
<1> QED BY <1>3, <1>4

----------------------------------------------------------------------------
(* ReadNextWord() in a buffer that holds the bytes of the file.             *)

(* a is where the buffer begins in the file, n how many bytes it has, q the  *)
(* position that is read next.                                             *)
ReadsFrom(a, n, q) ==
  /\ a = cur.filePos /\ n = cur.nRead /\ q = reader.lastPos
  /\ a \in Nat /\ n \in Nat /\ q \in 0 .. n - 1
  /\ cur.buffer \in Nat /\ cur.buffer + n <= 2 * BufSize
  /\ a + n <= Len(file) /\ a + n \in LineEnds \cup {Len(file)}
  /\ \A p \in q .. n - 1 : cur.memory[cur.buffer + p] = a + p + 1

LEMMA CharOfFile ==
  ASSUME FileOK, NEW a, NEW n, NEW q, ReadsFrom(a, n, q), NEW p \in q .. n - 1
  PROVE  /\ CharAt(p) = file[a + p + 1]
         /\ a + p + 1 \in Bytes
         /\ CharAt(p) \in {Letter, Space, Newline}
<1>1. a \in Nat /\ n \in Nat /\ q \in Nat /\ p \in Nat /\ a + n <= Len(file) /\ Len(file) \in Nat
  BY FileChars DEF ReadsFrom
<1>2. cur.memory[cur.buffer + p] = a + p + 1
  BY DEF ReadsFrom
<1>3. a + p + 1 # Nul /\ a + p + 1 \in Bytes
  BY <1>1 DEF Nul, Bytes
<1>4. CharAt(p) = file[a + p + 1]
  BY <1>2, <1>3 DEF CharAt
<1> QED BY <1>3, <1>4, FileChars

LEMMA WordBeginIs ==
  ASSUME FileOK, NEW a, NEW n, NEW q, ReadsFrom(a, n, q)
  PROVE  /\ WordBegin \in q .. n
         /\ \A p \in q .. WordBegin - 1 : file[a + p + 1] = Space
         /\ WordBegin < n => file[a + WordBegin + 1] # Space
<1>1. /\ a \in Nat /\ n \in Nat /\ q \in Nat /\ q <= n - 1 /\ BufSize \in Nat
      /\ q = reader.lastPos /\ n = cur.nRead
  BY BufSizeAssumption DEF ReadsFrom
<1>2. n \in Cells /\ \A p \in q .. n : p \in Cells /\ p \in Nat
  BY <1>1 DEF ReadsFrom, Cells
<1>3. \A p \in q .. n - 1 : CharAt(p) = file[a + p + 1]
  BY CharOfFile
<1> DEFINE T == {p \in q .. n : p = n \/ CharAt(p) # Space}
           P(p) == /\ p >= q
                   /\ CharAt(p) # Space \/ (p > q /\ p >= n)
                   /\ \A r \in q .. p - 1 : CharAt(r) = Space /\ (r = q \/ r < n)
<1>4. PICK t \in T : \A p \in T : t <= p
  <2>1. T \subseteq Nat /\ n \in T
    BY <1>1
  <2> HIDE DEF T
  <2> QED BY <2>1, LeastNumber
<1>5. t \in q .. n /\ t \in Cells /\ t \in Nat
  BY <1>2, <1>4
<1>6. \A p \in q .. t - 1 : CharAt(p) = Space /\ p < n /\ p \in q .. n - 1
  <2>1. SUFFICES ASSUME NEW p \in q .. t - 1 PROVE CharAt(p) = Space /\ p < n
    BY <1>1, <1>5
  <2>2. p \in q .. n /\ ~(t <= p) /\ p < n
    BY <1>1, <1>5
  <2>3. p \notin T
    BY <1>4, <2>2
  <2> QED BY <2>2, <2>3
<1>7. t < n => CharAt(t) # Space
  BY <1>4
<1>8. P(t)
  BY <1>1, <1>5, <1>6, <1>7
<1>9. ASSUME NEW p \in Cells, P(p)
      PROVE  p = t
  <2>1. p \in Nat
    BY <1>1 DEF Cells
  <2>2. ~(p < t)
    <3>1. SUFFICES ASSUME p < t PROVE FALSE
      OBVIOUS
    <3>2. p \in q .. t - 1
      BY <1>1, <1>5, <1>9, <2>1, <3>1
    <3>3. CharAt(p) = Space /\ p < n
      BY <1>6, <3>2
    <3> QED BY <1>1, <1>9, <2>1, <3>3
  <2>3. ~(t < p)
    <3>1. SUFFICES ASSUME t < p PROVE FALSE
      OBVIOUS
    <3>2. t \in q .. p - 1
      BY <1>1, <1>5, <2>1, <3>1
    <3>3. CharAt(t) = Space /\ (t = q \/ t < n)
      BY <1>9, <3>2
    <3> QED BY <1>1, <1>5, <1>7, <3>3
  <2> QED BY <1>5, <2>1, <2>2, <2>3
<1>10. WordBegin = CHOOSE p \in Cells : P(p)
  BY <1>1 DEF WordBegin
<1>11. WordBegin = t
  <2> HIDE DEF P
  <2> QED BY <1>5, <1>8, <1>9, <1>10
<1> QED BY <1>1, <1>3, <1>5, <1>6, <1>7, <1>11

LEMMA WordEndIs ==
  ASSUME FileOK, NEW a, NEW n, NEW q, ReadsFrom(a, n, q), WordBegin < n, CharAt(WordBegin) = Letter
  PROVE  /\ WordEnd \in WordBegin + 1 .. n
         /\ \A p \in WordBegin .. WordEnd - 1 : file[a + p + 1] = Letter
         /\ WordEnd < n => file[a + WordEnd + 1] \in {Space, Newline}
         /\ WordEnd < n => CharAt(WordEnd) = file[a + WordEnd + 1]
<1> DEFINE s == WordBegin
<1>1. /\ a \in Nat /\ n \in Nat /\ q \in Nat /\ s \in q .. n - 1 /\ BufSize \in Nat
      /\ n = cur.nRead /\ s \in Nat /\ q <= s
  <2>1. a \in Nat /\ n \in Nat /\ q \in 0 .. n - 1 /\ n = cur.nRead
    BY DEF ReadsFrom
  <2>2. s \in q .. n
    BY WordBeginIs
  <2> HIDE DEF s
  <2>3. s < n
    BY DEF s
  <2> QED BY <2>1, <2>2, <2>3, BufSizeAssumption
<1>2. \A p \in s .. n : p \in Cells /\ p \in Nat
  <2>1. PICK z : z = 2 * BufSize
    OBVIOUS
  <2>2. cur.buffer \in Nat /\ cur.buffer + n <= z
    BY <2>1 DEF ReadsFrom
  <2>3. z \in Nat /\ n <= z
    BY <1>1, <2>1, <2>2
  <2>4. \A p \in s .. n : p \in 0 .. z /\ p \in Nat
    <3> HIDE DEF s
    <3> QED BY <1>1, <2>3
  <2> QED BY <2>1, <2>4 DEF Cells
<1>3. \A p \in s .. n - 1 : CharAt(p) = file[a + p + 1] /\ CharAt(p) \in {Letter, Space, Newline}
  BY <1>1, CharOfFile
<1> DEFINE T == {p \in s + 1 .. n : p = n \/ CharAt(p) # Letter}
           P(p) == /\ p > s
                   /\ p >= n \/ CharAt(p) \in {Space, Newline}
                   /\ \A r \in s + 1 .. p - 1 : r < n /\ CharAt(r) = Letter
<1>13. CharAt(s) = Letter
  OBVIOUS
<1>10. WordEnd = CHOOSE p \in Cells : P(p)
  BY <1>1 DEF WordEnd
<1> HIDE DEF s
<1>4. PICK t \in T : \A p \in T : t <= p
  <2>1. T \subseteq Nat /\ n \in T
    BY <1>1
  <2> HIDE DEF T
  <2> QED BY <2>1, LeastNumber
<1>5. t \in s + 1 .. n /\ t \in Cells /\ t \in Nat
  BY <1>1, <1>2, <1>4
<1>6. \A p \in s + 1 .. t - 1 : CharAt(p) = Letter /\ p < n
  <2>1. SUFFICES ASSUME NEW p \in s + 1 .. t - 1 PROVE CharAt(p) = Letter /\ p < n
    OBVIOUS
  <2>2. p \in s + 1 .. n /\ ~(t <= p) /\ p < n
    BY <1>1, <1>5
  <2>3. p \notin T
    BY <1>4, <2>2
  <2> QED BY <2>2, <2>3
<1>7. t < n => CharAt(t) \in {Space, Newline} /\ CharAt(t) = file[a + t + 1]
  <2>1. SUFFICES ASSUME t < n PROVE CharAt(t) \in {Space, Newline} /\ CharAt(t) = file[a + t + 1]
    OBVIOUS
  <2>2. t \in s .. n - 1
    BY <1>1, <1>5, <2>1
  <2> QED BY <1>3, <1>4, <2>1, <2>2
<1>8. P(t)
  BY <1>1, <1>5, <1>6, <1>7
<1>9. ASSUME NEW p \in Cells, P(p)
      PROVE  p = t
  <2>1. p \in Nat
    BY <1>1 DEF Cells
  <2>2. ~(p < t)
    <3>1. SUFFICES ASSUME p < t PROVE FALSE
      OBVIOUS
    <3>2. p \in s + 1 .. t - 1
      BY <1>1, <1>5, <1>9, <2>1, <3>1
    <3>3. CharAt(p) = Letter /\ p < n
      BY <1>6, <3>2
    <3> QED BY <1>1, <1>9, <2>1, <3>3, CharsDiffer
  <2>3. ~(t < p)
    <3>1. SUFFICES ASSUME t < p PROVE FALSE
      OBVIOUS
    <3>2. t \in s + 1 .. p - 1
      BY <1>1, <1>5, <2>1, <3>1
    <3>3. CharAt(t) = Letter /\ t < n
      BY <1>9, <3>2
    <3> QED BY <1>7, <3>3, CharsDiffer
  <2> QED BY <1>5, <2>1, <2>2, <2>3
<1>11. WordEnd = t
  <2> HIDE DEF P
  <2> QED BY <1>5, <1>8, <1>9, <1>10
<1>12. \A p \in s .. t - 1 : file[a + p + 1] = Letter
  <2>1. SUFFICES ASSUME NEW p \in s .. t - 1 PROVE file[a + p + 1] = Letter
    OBVIOUS
  <2>2. p = s \/ p \in s + 1 .. t - 1
    BY <1>1, <1>5
  <2>3. CharAt(p) = Letter /\ p \in s .. n - 1
    BY <1>1, <1>5, <1>6, <1>13, <2>2
  <2> QED BY <1>3, <2>3
<1> QED BY <1>5, <1>7, <1>11, <1>12 DEF s

(* The word that is found is the next one of the file, and of the line.     *)
ScannedWord(a) == <<a + WordBegin + 1, a + WordEnd>>

LEMMA WordFound ==
  ASSUME FileOK, NEW a, NEW n, NEW q, ReadsFrom(a, n, q), ~IsLetter(a + q), IsWord
  PROVE  /\ WordBegin \in q .. n - 1 /\ WordEnd \in WordBegin + 1 .. n
         /\ ScannedWord(a) \in FileWords
         /\ NextAfter(ScannedWord(a), a + q)
         /\ SameLine(a + q + 1, a + WordBegin + 1)
         /\ WordEnd < n => /\ file[a + WordEnd + 1] \in {Space, Newline}
                           /\ CharAt(WordEnd) = file[a + WordEnd + 1]
<1> DEFINE s == WordBegin
           e == WordEnd
           w == <<a + s + 1, a + e>>
<1>1. /\ a \in Nat /\ n \in Nat /\ q \in Nat /\ q <= n - 1 /\ n = cur.nRead /\ q = reader.lastPos
      /\ a + n <= Len(file) /\ a + n \in LineEnds \cup {Len(file)} /\ Len(file) \in Nat
  BY FileChars DEF ReadsFrom
<1>2. /\ s \in q .. n
      /\ \A p \in q .. s - 1 : file[a + p + 1] = Space
      /\ s < n => file[a + s + 1] # Space
  BY WordBeginIs
<1>3. s < n
  <2>1. ~(s > reader.lastPos /\ s >= cur.nRead)
    BY DEF IsWord, OnlySpace
  <2> QED BY <1>1, <1>2, <2>1
<1>4. CharAt(s) = Letter
  <2>1. s \in q .. n - 1
    BY <1>1, <1>2, <1>3
  <2>2. CharAt(s) = file[a + s + 1] /\ CharAt(s) \in {Letter, Space, Newline}
    BY <2>1, CharOfFile
  <2>3. CharAt(s) # Newline
    BY DEF IsWord
  <2> QED BY <1>2, <1>3, <2>2, <2>3
<1>5. /\ e \in s + 1 .. n
      /\ \A p \in s .. e - 1 : file[a + p + 1] = Letter
      /\ e < n => file[a + e + 1] \in {Space, Newline}
      /\ e < n => CharAt(e) = file[a + e + 1]
  BY <1>3, <1>4, WordEndIs
<1> HIDE DEF s, e
<1>14. /\ a \in Nat /\ n \in Nat /\ q \in Nat /\ s \in Nat /\ e \in Nat /\ Len(file) \in Nat
       /\ q <= s /\ s < e /\ e <= n /\ s < n /\ a + n <= Len(file)
  <2>1. s \in q .. n /\ e \in s + 1 .. n
    BY <1>2, <1>5
  <2> QED BY <1>1, <1>3, <2>1
<1>6. \A b \in a + s + 1 .. a + e : IsLetter(b)
  <2>1. SUFFICES ASSUME NEW b \in a + s + 1 .. a + e PROVE IsLetter(b)
    OBVIOUS
  <2>2. b - a - 1 \in s .. e - 1 /\ a + (b - a - 1) + 1 = b /\ b \in 1 .. Len(file)
    BY <1>14
  <2> QED BY <1>5, <2>2 DEF IsLetter, Bytes
<1>7. \A b \in a + q + 1 .. a + s : file[b] = Space /\ b \in Bytes
  <2>1. SUFFICES ASSUME NEW b \in a + q + 1 .. a + s PROVE file[b] = Space /\ b \in Bytes
    OBVIOUS
  <2>2. b - a - 1 \in q .. s - 1 /\ a + (b - a - 1) + 1 = b /\ b \in 1 .. Len(file)
    BY <1>14
  <2> QED BY <1>2, <2>2 DEF Bytes
<1>8. ~IsLetter(a + s)
  <2>1. CASE s = q
    BY <2>1
  <2>2. CASE s # q
    <3>1. a + s \in a + q + 1 .. a + s
      BY <1>14, <2>2
    <3> QED BY <1>7, <3>1, CharsDiffer DEF IsLetter
  <2> QED BY <2>1, <2>2
<1>9. ~IsLetter(a + e + 1)
  <2>1. CASE e < n
    BY <1>5, <2>1, CharsDiffer DEF IsLetter
  <2>2. CASE e = n
    <3>1. a + n \notin LineEnds
      <4>1. a + e \in a + s + 1 .. a + e
        BY <1>14
      <4> QED BY <1>6, <2>2, <4>1, LineEndFacts
    <3>2. a + n = Len(file) /\ a + e + 1 \notin 1 .. Len(file)
      <4>1. a + n = Len(file)
        BY <1>1, <3>1
      <4> QED BY <1>14, <2>2, <4>1
    <3> QED BY <3>2 DEF IsLetter, Bytes
  <2> QED BY <1>14, <2>1, <2>2
<1>10. w \in FileWords
  <2>1. a + s + 1 \in Bytes /\ a + e \in Bytes /\ a + s + 1 <= a + e /\ a + s + 1 - 1 = a + s
    BY <1>14 DEF Bytes
  <2>2. w[1] = a + s + 1 /\ w[2] = a + e /\ w \in Bytes \X Bytes
    BY <2>1
  <2> HIDE DEF w
  <2>3. w[1] <= w[2] /\ w[1] - 1 = a + s /\ w[2] + 1 = a + e + 1 /\ w[1] .. w[2] = a + s + 1 .. a + e
    BY <1>14, <2>1, <2>2
  <2>4. (\A p \in w[1] .. w[2] : IsLetter(p)) /\ ~IsLetter(w[1] - 1) /\ ~IsLetter(w[2] + 1)
    BY <1>6, <1>8, <1>9, <2>3
  <2> QED BY <2>2, <2>3, <2>4 DEF FileWords
<1>11. NextAfter(w, a + q)
  <2>1. a + q < a + s + 1
    BY <1>14
  <2>2. ASSUME NEW v \in FileWords, a + q < v[1], v[1] < a + s + 1
        PROVE  FALSE
    <3>1. v[1] \in Nat /\ v[2] \in Nat /\ v[1] <= v[2] /\ IsLetter(v[1])
      BY WordOfFile
    <3>2. v[1] \in a + q + 1 .. a + s
      BY <1>14, <2>2, <3>1
    <3> QED BY <1>7, <3>1, <3>2, CharsDiffer DEF IsLetter
  <2>3. \A v \in FileWords : v[1] \in Nat
    BY WordOfFile
  <2>4. w[1] = a + s + 1
    OBVIOUS
  <2>5. ASSUME NEW v \in FileWords, ~(v[1] <= a + q)
        PROVE  a + s + 1 <= v[1]
    BY <1>14, <2>2, <2>3, <2>5
  <2> HIDE DEF w
  <2> QED BY <2>1, <2>4, <2>5 DEF NextAfter
<1>12. SameLine(a + q + 1, a + s + 1)
  <2>1. SUFFICES ASSUME NEW x \in LineEnds PROVE (x < a + q + 1) = (x < a + s + 1)
    BY DEF SameLine
  <2>2. x \in Nat /\ file[x] = Newline
    BY LineEndFacts
  <2>3. x \notin a + q + 1 .. a + s
    BY <1>7, <2>2, CharsDiffer
  <2> QED BY <1>14, <2>2, <2>3
<1>13. s \in q .. n - 1
  BY <1>14
<1> QED BY <1>5, <1>10, <1>11, <1>12, <1>13 DEF s, e, ScannedWord

(* Where there is none, a line end follows or the file ends.               *)
NoWordIn(p, r) == \A w \in FileWords : w[1] <= p \/ r < w[1]

LEMMA NoWordFound ==
  ASSUME FileOK, NEW a, NEW n, NEW q, ReadsFrom(a, n, q), ~IsWord
  PROVE  \/ /\ OnlySpace
            /\ WordBegin = n /\ a + n = Len(file)
            /\ NoWordIn(a + q, a + n)
         \/ /\ ~OnlySpace
            /\ WordBegin \in q .. n - 1
            /\ a + WordBegin + 1 \in LineEnds
            /\ NoWordIn(a + q, a + WordBegin + 1)
<1> DEFINE s == WordBegin
<1>1. /\ a \in Nat /\ n \in Nat /\ q \in Nat /\ q <= n - 1 /\ n = cur.nRead /\ q = reader.lastPos
      /\ a + n <= Len(file) /\ a + n \in LineEnds \cup {Len(file)} /\ Len(file) \in Nat
  BY FileChars DEF ReadsFrom
<1>2. /\ s \in q .. n
      /\ \A p \in q .. s - 1 : file[a + p + 1] = Space
      /\ s < n => file[a + s + 1] # Space
  BY WordBeginIs
<1>3. OnlySpace <=> s >= n
  BY <1>1, <1>2 DEF OnlySpace
<1>4. ~OnlySpace => CharAt(s) = Newline
  BY DEF IsWord
<1>5. s < n => CharAt(s) = file[a + s + 1]
  <2>1. s < n => s \in q .. n - 1
    BY <1>1, <1>2
  <2> QED BY <2>1, CharOfFile
<1> HIDE DEF s
<1>10. /\ a \in Nat /\ n \in Nat /\ q \in Nat /\ s \in Nat /\ Len(file) \in Nat
       /\ q <= s /\ s <= n /\ q < n /\ a + n <= Len(file)
  <2>1. s \in q .. n
    BY <1>2
  <2> QED BY <1>1, <2>1
<1>6. \A b \in a + q + 1 .. a + s : file[b] = Space /\ b \in Bytes
  <2>1. SUFFICES ASSUME NEW b \in a + q + 1 .. a + s PROVE file[b] = Space /\ b \in Bytes
    OBVIOUS
  <2>2. b \in Int /\ a + q + 1 <= b /\ b <= a + s
    BY <1>10
  <2>3. b - a - 1 \in q .. s - 1 /\ a + (b - a - 1) + 1 = b /\ b \in 1 .. Len(file)
    BY <1>10, <2>2
  <2> QED BY <1>2, <2>3 DEF Bytes
<1>7. NoWordIn(a + q, a + s)
  <2>1. SUFFICES ASSUME NEW w \in FileWords, a + q < w[1], w[1] <= a + s PROVE FALSE
    <3>1. \A w \in FileWords : w[1] \in Nat
      BY WordOfFile
    <3>2. ASSUME NEW w \in FileWords, ~(w[1] <= a + q), ~(a + s < w[1])
          PROVE  FALSE
      BY <1>10, <2>1, <3>1, <3>2
    <3> QED BY <3>2 DEF NoWordIn
  <2>2. w[1] \in Nat /\ w[2] \in Nat /\ w[1] <= w[2] /\ IsLetter(w[1])
    BY WordOfFile
  <2>3. w[1] \in a + q + 1 .. a + s
    BY <1>10, <2>1, <2>2
  <2> QED BY <1>6, <2>2, <2>3, CharsDiffer DEF IsLetter
<1>8. CASE OnlySpace
  <2>1. s = n
    BY <1>3, <1>8, <1>10
  <2>2. a + n \notin LineEnds
    <3>1. a + n \in a + q + 1 .. a + s
      BY <1>10, <2>1
    <3> QED BY <1>6, <3>1, CharsDiffer, LineEndFacts
  <2> QED BY <1>1, <1>7, <1>8, <2>1, <2>2 DEF s
<1>9. CASE ~OnlySpace
  <2>1. s \in q .. n - 1 /\ s < n
    BY <1>3, <1>9, <1>10
  <2>2. a + s + 1 \in LineEnds
    <3>1. a + s + 1 \in Bytes
      BY <1>10, <2>1 DEF Bytes
    <3> QED BY <1>4, <1>5, <1>9, <2>1, <3>1 DEF LineEnds
  <2>3. NoWordIn(a + q, a + s + 1)
    <3>1. \A w \in FileWords : w[1] \in Nat /\ IsLetter(w[1])
      BY WordOfFile
    <3>2. \A w \in FileWords : w[1] # a + s + 1
      BY <2>2, <3>1, LineEndFacts
    <3>3. ASSUME NEW w \in FileWords, ~(w[1] <= a + q)
          PROVE  a + s + 1 < w[1]
      <4>1. a + s < w[1]
        BY <1>7, <3>3 DEF NoWordIn
      <4> QED BY <1>10, <3>1, <3>2, <4>1
    <3> QED BY <3>3 DEF NoWordIn
  <2> QED BY <1>9, <2>1, <2>2, <2>3 DEF s
<1> QED BY <1>8, <1>9

----------------------------------------------------------------------------
(* What the buffers, lists and strings say of the file. b is a buffer, st     *)
(* what is in a string pool po, l a line and ls a list of lines.             *)

(* The bytes from position q on are as they were read.                     *)
Intact(b, q) == \A p \in q .. b.nRead - 1 : b.memory[b.buffer + p] = b.filePos + p + 1

(* A buffer before the Border holds whole lines of the file; words are not   *)
(* touched by the zero bytes that end them.                                *)
Section(b) ==
  /\ b.filePos \in Nat /\ b.nRead \in Nat
  /\ b.filePos < Border =>
       /\ b.nRead # 0 /\ b.filePos + b.nRead <= Border
       /\ b.filePos + b.nRead \in LineEnds \cup {Len(file)}
       /\ b.eof => b.filePos + b.nRead = Border
       /\ b.buffer \in Nat /\ b.buffer + b.nRead <= 2 * BufSize
       /\ \A p \in 0 .. b.nRead - 1 :
            IsLetter(b.filePos + p + 1) => b.memory[b.buffer + p] = b.filePos + p + 1
  /\ NoEnd = {} /\ b.filePos >= Border => b.nRead = 0 /\ b.eof

Address(l, k) == Pointer(l.strings.chunk, l.strings.at + k - 1)
WordIs(b, st, l, k, v) ==
  /\ v \in FileWords
  /\ Address(l, k) \in DOMAIN st
  /\ st[Address(l, k)] = [ptr |-> b.buffer + (v[1] - 1 - b.filePos), len |-> v[2] - v[1] + 1]
  /\ b.memory[b.buffer + (v[2] - b.filePos)] = Nul
  /\ b.filePos < v[1] /\ v[2] <= b.filePos + b.nRead

(* The line has the first words of the line that begins with w.            *)
LineIs(b, st, l, w) ==
  /\ l.begin = LineBegin(w)
  /\ \A k \in 1 .. l.nStrings : WordIs(b, st, l, k, Ascending(WordsFrom(w))[k])

(* The line has been read up to e.                                         *)
Complete(b, st, l, e) ==
  /\ l.begin \in Nat /\ l.begin <= e
  /\ l.nStrings \in Nat
  /\ l.nStrings = 0 => Between(FirstWords, l.begin, e) = {}
  /\ l.nStrings # 0 => \E w \in FirstWords :
       Between(FirstWords, l.begin, e) = {w} /\ l.nStrings = NrWords(w) /\ LineIs(b, st, l, w)

Held(l) == [argv |-> l.strings, argc |-> l.nStrings]

(* The first m lines of a list follow each other and end at e.              *)
BeginOf(ls, k, m, e) == IF k <= m THEN ls[k].begin ELSE e
Chain(b, st, po, ls, m, e) ==
  /\ BeginOf(ls, 1, m, e) = b.filePos
  /\ \A k \in 1 .. m : ls[k].begin <= e
  /\ \A k \in 1 .. m : Complete(b, st, ls[k], BeginOf(ls, k + 1, m, e)) /\ Holds(po, Held(ls[k]))

(* The line has been read up to p, and may go on there.                     *)
Partial(b, st, l, p, ended) ==
  /\ l.begin \in Nat /\ p \in Nat /\ l.nStrings \in Nat
  /\ l.nStrings = 0 => l.begin = p /\ Fresh(p) /\ ~ended
  /\ l.nStrings # 0 => \E w \in FirstWords :
       /\ NextAfter(w, l.begin) /\ w[1] <= p
       /\ LineIs(b, st, l, w)
       /\ \A u \in FileWords : w[1] <= u[1] /\ u[1] <= p => u \in WordsFrom(w)
       /\ Cardinality(UpTo(WordsFrom(w), p)) = l.nStrings
       /\ p = Len(file) \/ \E v \in WordsFrom(w) : p = v[2] + 1
       /\ IF ended THEN p \in LineEnds \cup {Len(file)} ELSE p \notin LineEnds /\ p # Len(file)

----------------------------------------------------------------------------
(* The file is always the same one.                                        *)
LEMMA SameWords ==
  ASSUME file' = file
  PROVE  /\ Bytes' = Bytes /\ LineEnds' = LineEnds /\ FileWords' = FileWords /\ Len(file)' = Len(file)
         /\ \A p : IsLetter(p)' = IsLetter(p)
         /\ \A p, q : SameLine(p, q)' = SameLine(p, q)
         /\ \A w : WordsFrom(w)' = WordsFrom(w) /\ WordsBefore(w)' = WordsBefore(w)
<1>1. Bytes' = Bytes
  BY DEF Bytes
<1>2. LineEnds' = LineEnds
  BY <1>1 DEF LineEnds
<1>3. \A p : IsLetter(p)' = IsLetter(p)
  BY <1>1 DEF IsLetter
<1>4. FileWords' = FileWords
  BY <1>1, <1>3 DEF FileWords
<1>5. \A p, q : SameLine(p, q)' = SameLine(p, q)
  BY <1>2 DEF SameLine
<1>6. \A w : WordsFrom(w)' = WordsFrom(w) /\ WordsBefore(w)' = WordsBefore(w)
  BY <1>4, <1>5 DEF WordsFrom, WordsBefore
<1> QED BY <1>1, <1>2, <1>3, <1>4, <1>5, <1>6

LEMMA SameLines ==
  ASSUME file' = file
  PROVE  /\ FirstWords' = FirstWords /\ NoEnd' = NoEnd /\ Border' = Border
         /\ \A w : LineBegin(w)' = LineBegin(w) /\ NrWords(w)' = NrWords(w)
         /\ \A w, p : NextAfter(w, p)' = NextAfter(w, p)
         /\ \A p : Fresh(p)' = Fresh(p) /\ NrStarts(p)' = NrStarts(p)
         /\ Whole' = Whole
<1>1. FirstWords' = FirstWords
  BY SameWords DEF FirstWords
<1>2. NoEnd' = NoEnd
  BY SameWords DEF NoEnd, Reads
<1>3. Border' = Border
  BY <1>2, SameWords DEF Border
<1>4. ASSUME NEW w
      PROVE  LineBegin(w)' = LineBegin(w)
  <2> DEFINE S == IF WordsBefore(w) = {} THEN {0} \cup {e \in LineEnds : e < w[1]}
                                         ELSE {v[2] + 1 : v \in WordsBefore(w)}
  <2>1. S' = S
    BY SameWords
  <2>2. LineBegin(w) = Max(S)
    BY DEF LineBegin
  <2>3. LineBegin(w)' = Max(S')
    BY DEF LineBegin
  <2> HIDE DEF S
  <2> QED BY <2>1, <2>2, <2>3
<1>5. \A w : NrWords(w)' = NrWords(w)
  BY SameWords DEF NrWords
<1>6. \A w, p : NextAfter(w, p)' = NextAfter(w, p)
  BY SameWords DEF NextAfter
<1>7. \A p : Fresh(p)' = Fresh(p)
  BY <1>1, <1>4, <1>6, SameWords DEF Fresh
<1>8. \A p : NrStarts(p)' = NrStarts(p)
  BY <1>1 DEF NrStarts, UpTo
<1>9. Whole' = Whole
  <2>1. \A w : LineFrom(w)' = LineFrom(w)
    <3>1. \A w : LineFrom(w) = [begin |-> LineBegin(w),
               words |-> [k \in 1 .. NrWords(w) |-> BytesOf(Ascending(WordsFrom(w))[k])]]
      BY DEF LineFrom
    <3>2. \A w : LineFrom(w)' = [begin |-> LineBegin(w)',
               words |-> [k \in 1 .. NrWords(w)' |-> BytesOf(Ascending(WordsFrom(w)')[k])]]
      BY DEF LineFrom
    <3> QED BY <1>4, <1>5, <3>1, <3>2, SameWords
  <2>2. SeenWords' = SeenWords
    BY <1>2, SameWords DEF SeenWords, Uncut
  <2> QED BY <1>1, <2>1, <2>2 DEF Whole
<1> QED BY <1>1, <1>2, <1>3, <1>4, <1>5, <1>6, <1>7, <1>8, <1>9

LEMMA SameSections ==
  ASSUME file' = file
  PROVE  /\ \A b : Section(b)' = Section(b)
         /\ \A b, st, po, ls, m, e : Chain(b, st, po, ls, m, e)' = Chain(b, st, po, ls, m, e)
         /\ \A b, st, l, e : Complete(b, st, l, e)' = Complete(b, st, l, e)
         /\ \A b, st, l, p, ended : Partial(b, st, l, p, ended)' = Partial(b, st, l, p, ended)
<1>1. \A b : Section(b)' = Section(b)
  BY SameWords, SameLines DEF Section
<1>2. \A b, st, l, w : LineIs(b, st, l, w)' = LineIs(b, st, l, w)
  <2>1. \A b, st, l, k, v : WordIs(b, st, l, k, v)' = WordIs(b, st, l, k, v)
    BY SameWords DEF WordIs
  <2> QED BY <2>1, SameWords, SameLines DEF LineIs
<1>3. \A b, st, l, e : Complete(b, st, l, e)' = Complete(b, st, l, e)
  BY <1>2, SameLines DEF Complete
<1>4. \A b, st, po, ls, m, e : Chain(b, st, po, ls, m, e)' = Chain(b, st, po, ls, m, e)
  BY <1>3 DEF Chain
<1>5. \A b, st, l, p, ended : Partial(b, st, l, p, ended)' = Partial(b, st, l, p, ended)
  BY <1>2, SameWords, SameLines DEF Partial
<1> QED BY <1>1, <1>3, <1>4, <1>5

----------------------------------------------------------------------------
(* What is known of lines stays when more words are ended and recorded.     *)

SameData(b, c) == /\ c.memory = b.memory /\ c.buffer = b.buffer /\ c.nRead = b.nRead
                  /\ c.filePos = b.filePos /\ c.eof = b.eof
MoreEnded(b, c) == /\ c.buffer = b.buffer /\ c.nRead = b.nRead /\ c.filePos = b.filePos
                   /\ \A x : b.memory[x] = Nul => c.memory[x] = Nul

HeldAddress(po, a) == a.chunk < po.memory \/ (a.chunk = po.memory /\ a.at < po.used)
MoreStrings(po, st, su) == \A a \in DOMAIN st : HeldAddress(po, a) => a \in DOMAIN su /\ su[a] = st[a]

LEMMA SectionStays ==
  ASSUME NEW b, NEW c, SameData(b, c)
  PROVE  /\ Section(c) <=> Section(b)
         /\ \A q : Intact(c, q) <=> Intact(b, q)
         /\ MoreEnded(b, c)
BY DEF SameData, Section, Intact, MoreEnded

LEMMA WordStays ==
  ASSUME NEW b, NEW c, MoreEnded(b, c), NEW st, NEW su, NEW l, NEW k, NEW v,
         WordIs(b, st, l, k, v), Address(l, k) \in DOMAIN su, su[Address(l, k)] = st[Address(l, k)]
  PROVE  WordIs(c, su, l, k, v)
BY DEF WordIs, MoreEnded

LEMMA LineStays ==
  ASSUME NEW b, NEW c, MoreEnded(b, c), NEW st, NEW su, NEW l, NEW w, LineIs(b, st, l, w),
         \A k \in 1 .. l.nStrings : Address(l, k) \in DOMAIN st =>
            Address(l, k) \in DOMAIN su /\ su[Address(l, k)] = st[Address(l, k)]
  PROVE  LineIs(c, su, l, w)
<1>1. ASSUME NEW k \in 1 .. l.nStrings
      PROVE  WordIs(c, su, l, k, Ascending(WordsFrom(w))[k])
  <2>1. WordIs(b, st, l, k, Ascending(WordsFrom(w))[k])
    BY DEF LineIs
  <2>2. Address(l, k) \in DOMAIN st
    BY <2>1 DEF WordIs
  <2> QED BY <2>1, <2>2, WordStays
<1> QED BY <1>1 DEF LineIs

LEMMA CompleteStays ==
  ASSUME NEW b, NEW c, MoreEnded(b, c), NEW st, NEW su, NEW l, NEW e, Complete(b, st, l, e),
         \A k \in 1 .. l.nStrings : Address(l, k) \in DOMAIN st =>
            Address(l, k) \in DOMAIN su /\ su[Address(l, k)] = st[Address(l, k)]
  PROVE  Complete(c, su, l, e)
<1>1. \A w : LineIs(b, st, l, w) => LineIs(c, su, l, w)
  BY LineStays
<1> QED BY <1>1 DEF Complete

(* The strings of a line that is committed are in what has been handed out.  *)
LEMMA HeldAddresses ==
  ASSUME NEW po, PoolInv(po), NEW l, Holds(po, Held(l)), NEW k \in 1 .. l.nStrings
  PROVE  HeldAddress(po, Address(l, k))
<1>1. /\ l.strings \in PointerType /\ l.nStrings \in Nat
      /\ \/ l.strings.chunk < po.memory
         \/ l.strings.chunk = po.memory /\ l.strings.at + l.nStrings <= po.used
  BY DEF Holds, Held
<1>2. po.used \in Nat /\ po.memory \in Nat /\ l.strings.at \in Nat /\ l.strings.chunk \in Nat
  BY <1>1 DEF PoolInv, PoolType, PointerType
<1>3. Address(l, k).chunk = l.strings.chunk /\ Address(l, k).at = l.strings.at + k - 1
  BY DEF Address, Pointer
<1>4. k \in Nat /\ k <= l.nStrings
  BY <1>1
<1> QED BY <1>1, <1>2, <1>3, <1>4 DEF HeldAddress

LEMMA ChainStays ==
  ASSUME NEW b, NEW c, MoreEnded(b, c), NEW po, PoolInv(po), NEW qo,
         \A e : Holds(po, e) => Holds(qo, e),
         NEW st, NEW su, MoreStrings(po, st, su), NEW m \in Nat,
         NEW ls, NEW lt, \A k \in 1 .. m : lt[k] = ls[k],
         NEW e, Chain(b, st, po, ls, m, e)
  PROVE  Chain(c, su, qo, lt, m, e)
<1>1. \A k \in Nat : k # 0 => BeginOf(lt, k, m, e) = BeginOf(ls, k, m, e)
  BY DEF BeginOf
<1>2. BeginOf(lt, 1, m, e) = c.filePos
  BY <1>1 DEF Chain, MoreEnded
<1>3. ASSUME NEW k \in 1 .. m
      PROVE  Complete(c, su, lt[k], BeginOf(lt, k + 1, m, e)) /\ Holds(qo, Held(lt[k]))
  <2>1. Complete(b, st, ls[k], BeginOf(ls, k + 1, m, e)) /\ Holds(po, Held(ls[k]))
    BY DEF Chain
  <2>2. BeginOf(lt, k + 1, m, e) = BeginOf(ls, k + 1, m, e) /\ lt[k] = ls[k]
    BY <1>1
  <2>3. Complete(c, su, ls[k], BeginOf(ls, k + 1, m, e))
    <3>1. \A j \in 1 .. ls[k].nStrings : Address(ls[k], j) \in DOMAIN st =>
             Address(ls[k], j) \in DOMAIN su /\ su[Address(ls[k], j)] = st[Address(ls[k], j)]
      BY <2>1, HeldAddresses DEF MoreStrings
    <3> QED BY <2>1, <3>1, CompleteStays
  <2> QED BY <2>1, <2>2, <2>3
<1>4. \A k \in 1 .. m : lt[k].begin <= e
  BY DEF Chain
<1> QED BY <1>2, <1>3, <1>4 DEF Chain

LEMMA ChainGrows ==
  ASSUME NEW b, NEW st, NEW po, NEW ls, NEW m \in Nat, NEW e,
         Chain(b, st, po, ls, m, ls[m + 1].begin),
         Complete(b, st, ls[m + 1], e), e \in Nat, Holds(po, Held(ls[m + 1]))
  PROVE  Chain(b, st, po, ls, m + 1, e)
<1>1. \A k \in 1 .. m + 1 : BeginOf(ls, k, m + 1, e) = BeginOf(ls, k, m, ls[m + 1].begin)
  BY DEF BeginOf
<1>2. BeginOf(ls, m + 1 + 1, m + 1, e) = e
  BY DEF BeginOf
<1>3. ASSUME NEW k \in 1 .. m + 1
      PROVE  Complete(b, st, ls[k], BeginOf(ls, k + 1, m + 1, e)) /\ Holds(po, Held(ls[k]))
  <2>1. CASE k = m + 1
    BY <1>2, <2>1
  <2>2. CASE k # m + 1
    <3>1. k \in 1 .. m /\ k + 1 \in 1 .. m + 1
      BY <2>2
    <3>2. Complete(b, st, ls[k], BeginOf(ls, k + 1, m, ls[m + 1].begin)) /\ Holds(po, Held(ls[k]))
      BY <3>1 DEF Chain
    <3> QED BY <1>1, <3>1, <3>2
  <2> QED BY <2>1, <2>2
<1>4. 1 \in 1 .. m + 1
  OBVIOUS
<1>5. ASSUME NEW k \in 1 .. m + 1
      PROVE  ls[k].begin <= e
  <2>1. Complete(b, st, ls[k], BeginOf(ls, k + 1, m + 1, e))
    BY <1>3
  <2>2. ls[k].begin \in Nat
    BY <2>1 DEF Complete
  <2>3. ls[m + 1].begin \in Nat /\ ls[m + 1].begin <= e
    BY DEF Complete
  <2>4. CASE k = m + 1
    BY <2>3, <2>4
  <2>5. CASE k # m + 1
    <3>1. k \in 1 .. m
      BY <2>5
    <3>2. ls[k].begin <= ls[m + 1].begin
      BY <3>1 DEF Chain
    <3> QED BY <2>2, <2>3, <3>2
  <2> QED BY <2>4, <2>5
<1> QED BY <1>1, <1>3, <1>4, <1>5 DEF Chain

----------------------------------------------------------------------------
(* The invariant: np buffers have been parsed, nr read and nl loaded.       *)

Place(n) == n % NBuf
Pos(n, nl) == IF n < nl THEN buf[Place(n)].filePos ELSE loader.filePos

BufferType == [memory: [Cells -> Nat], buffer: Int, nRead: Int, filePos: Int, eof: BOOLEAN,
               state: {"EMPTY", "LOADED", "TOKENIZED"}]
ReaderType == [curbuf: Slots, lastPos: {reader.lastPos}, bufferSwitch: BOOLEAN, endOfLine: BOOLEAN,
               pc: {"first", "begin", "line", "words", "done"}]
Shapes ==
  /\ FileOK
  /\ loader \in [i: Slots, fd: Nat, filePos: Nat, lineBegin: Seq(Nat), pc: {"run", "done", "abort"}]
  /\ buf \in [Slots -> BufferType]
  /\ reader \in ReaderType
  /\ DOMAIN strPool = Slots /\ \A i \in Slots : PoolInv(strPool[i])
  /\ DOMAIN isEmpty = Slots /\ DOMAIN strings = Slots
  /\ IsSeq(parsed)

StateOf(n, nr, nl) == IF n < nr THEN "TOKENIZED" ELSE IF n < nl THEN "LOADED" ELSE "EMPTY"
Ring(np, nr, nl) ==
  /\ np \in Nat /\ nr \in Nat /\ nl \in Nat
  /\ np <= nr /\ nr <= nl /\ nl <= np + NBuf
  /\ loader.i = Place(nl) /\ parser.i = Place(np)
  /\ reader.pc # "done" => reader.curbuf = Place(nr)
  /\ reader.pc \in {"line", "words"} => nr < nl
  /\ parser.pc = "lines" => np < nr
  /\ \A n \in np .. np + NBuf - 1 : /\ buf[Place(n)].state = StateOf(n, nr, nl)
                                    /\ isEmpty[Place(n)] <=> ~(n < nr)

(* Up to the first read() without a line end the buffers are whole lines.   *)
Clean == \A p \in NoEnd : loader.fd <= p
Loaded ==
  /\ loader.fd <= Len(file)
  /\ Clean =>
       /\ loader.fd = Len(file) \/ loader.fd % BufSize = 0
       /\ loader.filePos <= loader.fd /\ loader.fd < loader.filePos + BufSize
       /\ loader.lineBegin = [k \in 1 .. loader.fd - loader.filePos |-> loader.filePos + k]
       /\ \A e \in LineEnds : ~(loader.filePos < e /\ e <= loader.fd)
       /\ loader.filePos \in {0, Len(file)} \cup LineEnds
       /\ loader.pc = "done" => loader.filePos = Len(file)
  /\ ~Clean => loader.filePos >= Border
  /\ loader.pc = "abort" => NoEnd # {}

Sections(np, nl) ==
  \A n \in np .. nl - 1 : /\ Section(buf[Place(n)])
                          /\ Pos(n + 1, nl) = buf[Place(n)].filePos + buf[Place(n)].nRead

InRead(n, nr) == n = nr /\ reader.pc \in {"line", "words"}
Unread(nr, nl) ==
  \A n \in nr .. nl - 1 : InRead(n, nr) \/ (buf[Place(n)].filePos < Border => Intact(buf[Place(n)], 0))

TokensOf(i) ==
  /\ buf[i].filePos < Border =>
       Chain(buf[i], strings[i], strPool[i], list[i], Len(list[i]), buf[i].filePos + buf[i].nRead)
  /\ NoEnd = {} /\ buf[i].filePos >= Border => list[i] = <<>>
Tokens(np, nr) == \A n \in np .. nr - 1 : TokensOf(Place(n))

(* Where the reader is in the file.                                        *)
ReadPos == cur.filePos + (IF reader.bufferSwitch THEN cur.nRead ELSE reader.lastPos)
(* It has not reached the end of the buffer.                               *)
InBuffer == /\ ~reader.bufferSwitch
            /\ reader.lastPos \in 0 .. cur.nRead - 1
            /\ Intact(cur, reader.lastPos)
            /\ ~IsLetter(ReadPos)

CurChain(m, e) == Chain(cur, strings[reader.curbuf], strPool[reader.curbuf], list[reader.curbuf], m, e)
AtBegin(nr, nl) ==
  /\ reader.pc = "first" => Pos(nr, nl) = 0
  /\ Pos(nr, nl) < Border => /\ reader.lastPos = 0 /\ ~reader.bufferSwitch
                             /\ Fresh(Pos(nr, nl)) /\ ~IsLetter(Pos(nr, nl))
AtLine ==
  /\ NoEnd = {} => cur.filePos < Border
  /\ cur.filePos < Border => /\ InBuffer
                             /\ Fresh(ReadPos)
                             /\ CurChain(Len(list[reader.curbuf]), ReadPos)
AtWords ==
  LET i == reader.curbuf
      m == Len(list[i]) - 1
  IN
  /\ NoEnd = {} => cur.filePos < Border
  /\ Len(list[i]) >= 1
  /\ LastLine(i).strings = strPool[i].next
  /\ strPool[i].used + MaxArgs < PoolSize
  /\ cur.filePos < Border => /\ IF reader.bufferSwitch THEN reader.endOfLine /\ reader.lastPos = 0 ELSE InBuffer
                             /\ CurChain(m, LastLine(i).begin)
                             /\ Partial(cur, strings[i], LastLine(i), ReadPos, reader.endOfLine)
Reading(nr, nl) ==
  /\ reader.pc \in {"first", "begin"} => AtBegin(nr, nl)
  /\ reader.pc = "line" => AtLine
  /\ reader.pc = "words" => AtWords

(* Where the parser is in the file, and what it has seen.                  *)
ParsePos(np, nl) ==
  IF parser.pc = "lines" /\ Pos(np, nl) < Border
  THEN BeginOf(list[parser.i], parser.line, Len(list[parser.i]), Pos(np + 1, nl))
  ELSE Pos(np, nl)
SeenTo(s, p) ==
  /\ \A k \in 1 .. Len(s) : k <= NrStarts(Border) => s[k] = Whole[k]
  /\ p < Border => Len(s) = NrStarts(p)
  /\ p >= Border => Len(s) >= NrStarts(Border) /\ (NoEnd = {} => Len(s) = NrStarts(Border))
Parsing(np, nl) ==
  /\ parser.pc = "lines" => parser.line \in 1 .. Len(list[parser.i]) + 1
  /\ SeenTo(parsed, ParsePos(np, nl))
  /\ parser.pc = "done" => Pos(np, nl) >= Border

Cut(np, nr, nl) ==
  /\ Shapes
  /\ Ring(np, nr, nl)
  /\ Loaded
  /\ Sections(np, nl)
  /\ Unread(nr, nl)
  /\ Tokens(np, nr)
  /\ Reading(nr, nl)
  /\ Parsing(np, nl)
CutInv == \E np, nr, nl \in Nat : Cut(np, nr, nl)

----------------------------------------------------------------------------
LEMMA PlaceFacts ==
  ASSUME NEW n \in Nat
  PROVE  Place(n) \in Slots /\ Slot(Place(n)) = Place(n + 1) /\ Place(n + NBuf) = Place(n)
<1> DEFINE r == n % NBuf
           q == n \div NBuf
<1>1. NBuf \in Nat \ {0}
  BY NBufAssumption
<1>2. q \in Nat /\ r \in 0 .. NBuf - 1 /\ n = NBuf * q + r
  BY <1>1, DivMod
<1> HIDE DEF r, q
<1>3. Place(n) = r
  BY DEF Place, r
<1>4. (r + 1) % NBuf = (n + 1) % NBuf
  <2>1. CASE r + 1 < NBuf
    <3>1. r + 1 \in 0 .. NBuf - 1
      BY <1>1, <1>2, <2>1
    <3>2. n + 1 = NBuf * q + (r + 1)
      BY <1>1, <1>2
    <3>3. (n + 1) % NBuf = r + 1
      BY <1>1, <1>2, <3>1, <3>2, ModUnique
    <3>4. r + 1 = NBuf * 0 + (r + 1)
      BY <1>1, <1>2
    <3>5. (r + 1) % NBuf = r + 1
      BY <1>1, <3>1, <3>4, ModUnique
    <3> QED BY <3>3, <3>5
  <2>2. CASE r + 1 = NBuf
    <3>1. 0 \in 0 .. NBuf - 1 /\ q + 1 \in Nat
      BY <1>1, <1>2
    <3>2. n + 1 = NBuf * q + NBuf
      BY <1>1, <1>2, <2>2
    <3>3. NBuf * q + NBuf = NBuf * (q + 1) + 0
      BY <1>1, <1>2
    <3>4. (n + 1) % NBuf = 0
      <4> DEFINE a == q + 1
                 x == n + 1
      <4>1. a \in Nat /\ 0 \in 0 .. NBuf - 1 /\ x = NBuf * a + 0
        BY <3>1, <3>2, <3>3
      <4> HIDE DEF a, x
      <4>2. x % NBuf = 0
        BY <1>1, <4>1, ModUnique
      <4> QED BY <4>2 DEF x
    <3>5. r + 1 = NBuf * 1 + 0
      BY <1>1, <2>2
    <3>6. (r + 1) % NBuf = 0
      BY <1>1, <3>1, <3>5, ModUnique
    <3> QED BY <3>4, <3>6
  <2> QED BY <1>1, <1>2, <2>1, <2>2
<1>5. Place(n + NBuf) = Place(n)
  BY <1>1, ModAround DEF Place
<1> QED BY <1>2, <1>3, <1>4, <1>5 DEF Slots, Slot, Place

LEMMA PlacesApart ==
  ASSUME NEW m \in Nat, NEW n \in Nat, m < n, n < m + NBuf
  PROVE  Place(m) # Place(n)
BY NBufAssumption, ModApart DEF Place

----------------------------------------------------------------------------
(* What a step leaves alone.                                               *)

LEMMA LoadedStays ==
  ASSUME Loaded, UNCHANGED <<file, loader>>
  PROVE  Loaded'
<1>1. LineEnds' = LineEnds /\ NoEnd' = NoEnd /\ Border' = Border /\ Len(file)' = Len(file)
  BY SameWords, SameLines
<1>2. Clean' <=> Clean
  BY <1>1 DEF Clean
<1> QED BY <1>1, <1>2 DEF Loaded

(* No step but that of the loader changes where the buffers lie.            *)
SamePlaces ==
  /\ file' = file /\ loader'.filePos = loader.filePos
  /\ \A i \in Slots : /\ buf'[i].filePos = buf[i].filePos /\ buf'[i].nRead = buf[i].nRead
                      /\ buf'[i].buffer = buf[i].buffer /\ buf'[i].eof = buf[i].eof

LEMMA PosStays ==
  ASSUME SamePlaces, NEW n \in Nat, NEW nl
  PROVE  Pos(n, nl)' = Pos(n, nl)
BY PlaceFacts DEF Pos, SamePlaces

LEMMA SectionsStay ==
  ASSUME NEW np \in Nat, NEW mp \in Nat, np <= mp, NEW nl \in Nat, Sections(np, nl), SamePlaces,
         \A n \in mp .. nl - 1 : buf'[Place(n)].memory = buf[Place(n)].memory \/ Section(buf'[Place(n)])
  PROVE  Sections(mp, nl)'
<1> SUFFICES ASSUME NEW n \in mp .. nl - 1
             PROVE  Section(buf[Place(n)])' /\ Pos(n + 1, nl)' = buf'[Place(n)].filePos + buf'[Place(n)].nRead
  BY DEF Sections
<1>1. n \in Nat /\ n + 1 \in Nat /\ n \in np .. nl - 1
  OBVIOUS
<1>2. Place(n) \in Slots
  BY <1>1, PlaceFacts
<1>3. Section(buf[Place(n)]) /\ Pos(n + 1, nl) = buf[Place(n)].filePos + buf[Place(n)].nRead
  BY <1>1 DEF Sections
<1>4. Pos(n + 1, nl)' = Pos(n + 1, nl)
  BY <1>1, PosStays
<1>5. Section(buf'[Place(n)])
  <2>1. CASE buf'[Place(n)].memory = buf[Place(n)].memory
    <3>1. SameData(buf[Place(n)], buf'[Place(n)])
      BY <1>2, <2>1 DEF SameData, SamePlaces
    <3> QED BY <1>3, <3>1, SectionStays
  <2> QED BY <2>1
<1>6. Section(buf[Place(n)])'
  BY <1>5, SameSections DEF SamePlaces
<1> QED BY <1>2, <1>3, <1>4, <1>6 DEF SamePlaces

LEMMA UnreadStays ==
  ASSUME NEW nr \in Nat, NEW mr \in Nat, nr <= mr, NEW nl \in Nat, Unread(nr, nl), SamePlaces,
         \A n \in mr .. nl - 1 : InRead(n, mr)' \/ (buf'[Place(n)].memory = buf[Place(n)].memory /\ ~InRead(n, nr))
  PROVE  Unread(mr, nl)'
<1> SUFFICES ASSUME NEW n \in mr .. nl - 1, ~InRead(n, mr)', buf'[Place(n)].filePos < Border'
             PROVE  Intact(buf'[Place(n)], 0)
  BY DEF Unread
<1>1. n \in Nat /\ n \in nr .. nl - 1
  OBVIOUS
<1>2. Place(n) \in Slots /\ buf'[Place(n)].memory = buf[Place(n)].memory /\ ~InRead(n, nr)
  BY <1>1, PlaceFacts
<1>3. SameData(buf[Place(n)], buf'[Place(n)])
  BY <1>2 DEF SameData, SamePlaces
<1>4. Border' = Border
  BY SameLines DEF SamePlaces
<1>5. Intact(buf[Place(n)], 0)
  BY <1>1, <1>2, <1>3, <1>4 DEF Unread, SameData
<1> QED BY <1>3, <1>5, SectionStays

LEMMA TokensOfStay ==
  ASSUME SamePlaces, NEW i \in Slots, TokensOf(i), buf'[i].memory = buf[i].memory,
         strings'[i] = strings[i], strPool'[i] = strPool[i], list'[i] = list[i], PoolInv(strPool[i]),
         IsSeq(list[i])
  PROVE  TokensOf(i)'
<1>1. MoreEnded(buf[i], buf'[i]) /\ MoreStrings(strPool[i], strings[i], strings'[i])
  BY DEF SamePlaces, MoreEnded, MoreStrings
<1>2. Border' = Border /\ NoEnd' = NoEnd
  BY SameLines DEF SamePlaces
<1>3. buf'[i].filePos = buf[i].filePos /\ buf'[i].nRead = buf[i].nRead
  BY DEF SamePlaces
<1>4. ASSUME Chain(buf[i], strings[i], strPool[i], list[i], Len(list[i]), buf[i].filePos + buf[i].nRead)
      PROVE  Chain(buf[i], strings[i], strPool[i], list[i], Len(list[i]), buf[i].filePos + buf[i].nRead)'
  <2> DEFINE e == buf[i].filePos + buf[i].nRead
             ls == list[i]
             m == Len(ls)
  <2>1. m \in Nat
    BY SeqShape
  <2> HIDE DEF e, ls, m
  <2>2. Chain(buf[i], strings[i], strPool[i], ls, m, e)
    BY <1>4 DEF e, ls, m
  <2>3. Chain(buf'[i], strings'[i], strPool'[i], ls, m, e)
    BY <1>1, <2>1, <2>2, ChainStays
  <2>4. Chain(buf'[i], strings'[i], strPool'[i], list'[i], Len(list'[i]), buf'[i].filePos + buf'[i].nRead)
    BY <1>3, <2>3 DEF e, ls, m
  <2> QED BY <2>4, SameSections DEF SamePlaces
<1> QED BY <1>2, <1>3, <1>4 DEF TokensOf

LEMMA TokensStay ==
  ASSUME NEW np \in Nat, NEW mp \in Nat, np <= mp, NEW nr \in Nat, NEW mr \in Nat,
         Tokens(np, nr), SamePlaces, Shapes, LinesInv,
         \A n \in mp .. mr - 1 :
           \/ /\ n < nr
              /\ buf'[Place(n)].memory = buf[Place(n)].memory
              /\ strings'[Place(n)] = strings[Place(n)]
              /\ strPool'[Place(n)] = strPool[Place(n)]
              /\ list'[Place(n)] = list[Place(n)]
           \/ TokensOf(Place(n))'
  PROVE  Tokens(mp, mr)'
<1> SUFFICES ASSUME NEW n \in mp .. mr - 1
             PROVE  TokensOf(Place(n))'
  BY DEF Tokens
<1>1. Place(n) \in Slots
  BY PlaceFacts
<1>2. PoolInv(strPool[Place(n)]) /\ IsSeq(list[Place(n)])
  BY <1>1 DEF Shapes, LinesInv
<1>3. CASE n < nr
  <2>1. TokensOf(Place(n))
    BY <1>3 DEF Tokens
  <2> QED BY <1>1, <1>2, <2>1, TokensOfStay
<1> QED BY <1>3

LEMMA SameLetters ==
  ASSUME file' = file
  PROVE  /\ \A p : IsLetter(p)' = IsLetter(p) /\ Fresh(p)' = Fresh(p)
         /\ Border' = Border /\ NoEnd' = NoEnd
BY SameWords, SameLines

(* The same holds if a buffer is added after those that nl counts.          *)
LEMMA ReadingKept ==
  ASSUME NEW nr, NEW nl, NEW ml, Reading(nr, nl), file' = file, Pos(nr, ml)' = Pos(nr, nl),
         UNCHANGED <<reader, strPool, strings>>,
         reader.pc \in {"line", "words"} =>
           buf'[reader.curbuf] = buf[reader.curbuf] /\ list'[reader.curbuf] = list[reader.curbuf]
  PROVE  Reading(nr, ml)'
<1> DEFINE i == reader.curbuf
<1>0. file' = file
  OBVIOUS
<1>1. /\ \A p : IsLetter(p)' = IsLetter(p) /\ Fresh(p)' = Fresh(p)
      /\ Border' = Border /\ NoEnd' = NoEnd
  BY <1>0, SameLetters
<1>3. ASSUME reader.pc \in {"first", "begin"}
      PROVE  AtBegin(nr, ml)'
  BY <1>1, <1>3 DEF Reading, AtBegin
<1>4. ASSUME reader.pc \in {"line", "words"}
      PROVE  /\ cur' = cur /\ ReadPos' = ReadPos /\ InBuffer' = InBuffer
             /\ \A m, e : CurChain(m, e)' = CurChain(m, e)
             /\ strings'[i] = strings[i] /\ strPool'[i] = strPool[i] /\ list'[i] = list[i] /\ i' = i
             /\ LastLine(i)' = LastLine(i)
  <2>1. i' = i /\ strings'[i] = strings[i] /\ strPool'[i] = strPool[i] /\ list'[i] = list[i] /\ i' = i
    BY <1>4
  <2>2. cur' = cur
    BY <1>4, <2>1 DEF cur
  <2>3. ReadPos' = ReadPos
    BY <2>2 DEF ReadPos
  <2>4. InBuffer' = InBuffer
    BY <1>1, <2>2, <2>3 DEF InBuffer
  <2>5. \A m, e : CurChain(m, e)' = CurChain(m, e)
    BY <1>0, <2>1, <2>2, SameSections DEF CurChain
  <2>6. LastLine(i)' = LastLine(i)
    BY <2>1 DEF LastLine
  <2> QED BY <2>1, <2>2, <2>3, <2>4, <2>5, <2>6
<1>5. ASSUME reader.pc = "line"
      PROVE  AtLine'
  BY <1>1, <1>4, <1>5 DEF Reading, AtLine
<1>6. ASSUME reader.pc = "words"
      PROVE  AtWords'
  <2>1. AtWords
    BY <1>6 DEF Reading
  <2>2. ReadPos' = ReadPos /\ InBuffer' = InBuffer /\ cur' = cur /\ LastLine(i)' = LastLine(i) /\ i' = i
        /\ strings'[i] = strings[i] /\ list'[i] = list[i] /\ strPool'[i] = strPool[i]
    BY <1>4, <1>6
  <2>3. Partial(cur, strings[i], LastLine(i), ReadPos, reader.endOfLine)' =
          Partial(cur, strings[i], LastLine(i), ReadPos, reader.endOfLine)
    BY <1>0, <2>2, SameSections
  <2>4. CurChain(Len(list[i]) - 1, LastLine(i).begin)' = CurChain(Len(list[i]) - 1, LastLine(i).begin)
    BY <1>4, <1>6, <2>2
  <2> QED BY <1>1, <2>1, <2>2, <2>3, <2>4 DEF AtWords
<1> QED BY <1>3, <1>5, <1>6 DEF Reading

LEMMA ReadingStays ==
  ASSUME NEW nr \in Nat, NEW nl \in Nat, Reading(nr, nl), SamePlaces,
         UNCHANGED <<reader, strPool, strings>>,
         reader.pc \in {"line", "words"} =>
           buf'[reader.curbuf] = buf[reader.curbuf] /\ list'[reader.curbuf] = list[reader.curbuf]
  PROVE  Reading(nr, nl)'
BY PosStays, ReadingKept DEF SamePlaces

LEMMA SeenToStays ==
  ASSUME file' = file
  PROVE  \A s, p : SeenTo(s, p)' = SeenTo(s, p)
<1>1. Border' = Border /\ NoEnd' = NoEnd /\ Whole' = Whole /\ \A p : NrStarts(p)' = NrStarts(p)
  BY SameLines
<1> QED BY <1>1 DEF SeenTo

LEMMA ParsingKept ==
  ASSUME NEW np, NEW nl, NEW ml, Parsing(np, nl), file' = file, UNCHANGED <<parser, parsed>>,
         Pos(np, ml)' = Pos(np, nl),
         parser.pc = "lines" => Pos(np + 1, ml)' = Pos(np + 1, nl) /\ list'[parser.i] = list[parser.i]
  PROVE  Parsing(np, ml)'
<1>1. file' = file
  OBVIOUS
<1>2. Border' = Border
  BY <1>1, SameLines
<1>3. ParsePos(np, ml)' = ParsePos(np, nl)
  BY <1>2 DEF ParsePos
<1>4. SeenTo(parsed, ParsePos(np, ml))' = SeenTo(parsed, ParsePos(np, nl))
  BY <1>1, <1>3, SeenToStays
<1> QED BY <1>2, <1>4 DEF Parsing

LEMMA ParsingStays ==
  ASSUME NEW np \in Nat, NEW nl \in Nat, Parsing(np, nl), SamePlaces, UNCHANGED <<parser, parsed>>,
         parser.pc = "lines" => list'[parser.i] = list[parser.i]
  PROVE  Parsing(np, nl)'
<1>1. Pos(np, nl)' = Pos(np, nl) /\ Pos(np + 1, nl)' = Pos(np + 1, nl)
  BY PosStays
<1> QED BY <1>1, ParsingKept DEF SamePlaces

----------------------------------------------------------------------------
(* What the parser has seen.                                               *)

LEMMA SeenNoMore ==
  ASSUME FileOK, NEW p \in Nat, NEW q \in Nat, p <= q, q <= Border, NEW s, SeenTo(s, p),
         Between(FirstWords, p, q) = {}
  PROVE  SeenTo(s, q)
<1>1. NrStarts(q) = NrStarts(p)
  BY StartsSame
<1>2. Border \in Nat
  BY BorderFacts, FileChars
<1>3. CASE p < Border
  <2>1. Len(s) = NrStarts(q)
    BY <1>1, <1>3 DEF SeenTo
  <2>2. q >= Border => q = Border
    BY <1>2
  <2>3. NrStarts(Border) \in Nat
    BY StartsType
  <2> QED BY <2>1, <2>2, <2>3 DEF SeenTo
<1>4. CASE ~(p < Border)
  <2>1. p = q
    BY <1>2, <1>4
  <2> QED BY <2>1
<1> QED BY <1>3, <1>4

LEMMA SeenOneMore ==
  ASSUME FileOK, NEW p \in Nat, NEW q \in Nat, p <= q, q <= Border, NEW s, IsSeq(s), SeenTo(s, p), NEW w,
         Between(FirstWords, p, q) = {w}
  PROVE  SeenTo(Append(s, LineFrom(w)), q)
<1> DEFINE x == LineFrom(w)
           t == Append(s, x)
<1>1. /\ NrStarts(p) + 1 \in 1 .. NrStarts(Border)
      /\ Whole[NrStarts(p) + 1] = x
      /\ NrStarts(q) = NrStarts(p) + 1
  BY WholeNext
<1>2. Border \in Nat
  BY BorderFacts, FileChars
<1>3. p < Border
  <2>1. w \in Between(FirstWords, p, q)
    OBVIOUS
  <2>2. w \in FileWords /\ p < w[1] /\ w[1] <= q
    BY <2>1, FirstAreWords DEF Between
  <2>3. w[1] \in Nat
    BY <2>2, WordOfFile
  <2> QED BY <1>2, <2>2, <2>3
<1>4. Len(s) = NrStarts(p)
  BY <1>3 DEF SeenTo
<1>5. Len(s) \in Nat /\ NrStarts(Border) \in Nat /\ NrStarts(p) \in Nat
  BY StartsType, SeqShape
<1> HIDE DEF x
<1>6. /\ Len(t) = Len(s) + 1 /\ t[Len(s) + 1] = x
      /\ \A k \in 1 .. Len(s) : t[k] = s[k]
  BY SeqAppend
<1> HIDE DEF t
<1>7. ASSUME NEW k \in 1 .. Len(t), k <= NrStarts(Border)
      PROVE  t[k] = Whole[k]
  <2>1. k \in 1 .. Len(s) \/ k = Len(s) + 1
    BY <1>5, <1>6
  <2>2. CASE k \in 1 .. Len(s)
    BY <1>6, <1>7, <2>2 DEF SeenTo
  <2>3. CASE k = Len(s) + 1
    BY <1>1, <1>4, <1>6, <2>3
  <2> QED BY <2>1, <2>2, <2>3
<1>8. Len(t) = NrStarts(q)
  BY <1>1, <1>4, <1>6
<1>9. q >= Border => q = Border
  BY <1>2
<1>10. SeenTo(t, q)
  BY <1>5, <1>7, <1>8, <1>9 DEF SeenTo
<1> QED BY <1>10 DEF t, x

LEMMA SeenTooMuch ==
  ASSUME FileOK, NEW p \in Nat, p >= Border, NEW s, IsSeq(s), SeenTo(s, p), NEW x, NoEnd # {}
  PROVE  SeenTo(Append(s, x), p)
<1> DEFINE t == Append(s, x)
<1>1. /\ Len(t) = Len(s) + 1
      /\ \A k \in 1 .. Len(s) : t[k] = s[k]
  BY SeqAppend
<1>2. Len(s) \in Nat /\ NrStarts(Border) \in Nat /\ Border \in Nat
  BY StartsType, SeqShape, BorderFacts, FileChars
<1> HIDE DEF t
<1>3. Len(s) >= NrStarts(Border)
  BY DEF SeenTo
<1>4. ASSUME NEW k \in 1 .. Len(t), k <= NrStarts(Border)
      PROVE  t[k] = Whole[k]
  <2>1. k \in 1 .. Len(s)
    BY <1>2, <1>3, <1>4
  <2> QED BY <1>1, <1>4, <2>1 DEF SeenTo
<1>5. Len(t) >= NrStarts(Border) /\ ~(p < Border)
  BY <1>1, <1>2, <1>3
<1> QED BY <1>4, <1>5 DEF SeenTo, t

LEMMA SeenPast ==
  ASSUME NEW p \in Nat, NEW q \in Nat, p >= Border, q >= Border, Border \in Nat, NEW s, SeenTo(s, p)
  PROVE  SeenTo(s, q)
BY DEF SeenTo

----------------------------------------------------------------------------
(* The slot of the parser.                                                 *)
LEMMA ParserSlot ==
  ASSUME NEW np, NEW nr, NEW nl, Cut(np, nr, nl), Inv, np < nr
  PROVE  /\ np \in Nat /\ nr \in Nat /\ nl \in Nat /\ np < nl
         /\ parser.i = Place(np) /\ parser.i \in Slots
         /\ Pos(np, nl) = buf[parser.i].filePos /\ Pos(np, nl) \in Nat
         /\ Section(buf[parser.i]) /\ buf[parser.i].nRead \in Nat
         /\ Pos(np + 1, nl) = Pos(np, nl) + buf[parser.i].nRead
         /\ TokensOf(parser.i) /\ IsSeq(list[parser.i])
         /\ FileOK /\ Border \in Nat
<1>1. /\ np \in Nat /\ nr \in Nat /\ nl \in Nat /\ np < nl
      /\ parser.i = Place(np)
  BY DEF Cut, Ring
<1>2. parser.i \in Slots
  BY <1>1, PlaceFacts
<1>3. Section(buf[parser.i]) /\ Pos(np + 1, nl) = buf[parser.i].filePos + buf[parser.i].nRead
  BY <1>1 DEF Cut, Sections
<1>4. Pos(np, nl) = buf[parser.i].filePos
  BY <1>1 DEF Pos
<1>5. TokensOf(parser.i)
  BY <1>1 DEF Cut, Tokens
<1>6. IsSeq(list[parser.i])
  BY <1>2 DEF Inv, LinesInv
<1>7. buf[parser.i].filePos \in Nat /\ buf[parser.i].nRead \in Nat
  BY <1>3 DEF Section
<1>8. FileOK /\ Border \in Nat
  BY BorderFacts, FileChars DEF Cut, Shapes
<1> QED BY <1>1, <1>2, <1>3, <1>4, <1>5, <1>6, <1>7, <1>8

LEMMA ParserBeginCut ==
  ASSUME NEW np, NEW nr, NEW nl, Cut(np, nr, nl), Inv, ParserBegin
  PROVE  Cut(np, nr, nl)'
<1>1. /\ np \in Nat /\ nr \in Nat /\ nl \in Nat /\ np <= nr
      /\ parser.i = Place(np)
  BY DEF Cut, Ring
<1>2. /\ UNCHANGED <<file, loader, buf, reader, list, strPool, strings, isEmpty, parsed>>
      /\ parser' = [parser EXCEPT !.line = 1, !.argv = PreallocN(ptrPool, MaxArgs).ptr, !.pc = "lines"]
      /\ buf[parser.i].state = "TOKENIZED"
  BY DEF ParserBegin, readVars
<1>3. np < nr
  <2>1. np \in np .. np + NBuf - 1
    BY <1>1, NBufAssumption
  <2>2. StateOf(np, nr, nl) = "TOKENIZED"
    BY <1>1, <1>2, <2>1 DEF Cut, Ring
  <2> QED BY <2>2 DEF StateOf
<1>4. /\ parser'.line = 1 /\ parser'.pc = "lines" /\ parser'.i = parser.i
  BY <1>2 DEF Inv, ParserInv
<1>5. SamePlaces
  BY <1>2 DEF SamePlaces
<1>6. Shapes'
  BY <1>2 DEF Cut, Shapes, FileOK, ReaderType
<1>7. Ring(np, nr, nl)'
  BY <1>2, <1>3, <1>4 DEF Cut, Ring
<1>8. Loaded'
  BY <1>2, LoadedStays DEF Cut
<1>9. Sections(np, nl)'
  BY <1>1, <1>2, <1>5, SectionsStay DEF Cut
<1>10. Unread(nr, nl)'
  BY <1>1, <1>2, <1>5, UnreadStays DEF Cut, InRead
<1>11. Tokens(np, nr)'
  BY <1>1, <1>2, <1>5, TokensStay DEF Cut, Inv
<1>12. Reading(nr, nl)'
  BY <1>1, <1>2, <1>5, ReadingStays DEF Cut
<1>13. Parsing(np, nl)'
  <2> DEFINE ls == list[parser.i]
             m == Len(ls)
             e == Pos(np + 1, nl)
  <2>1. /\ Pos(np, nl) = buf[parser.i].filePos /\ e = Pos(np, nl) + buf[parser.i].nRead
        /\ TokensOf(parser.i) /\ IsSeq(ls)
    BY <1>3, ParserSlot
  <2>2. m \in Nat
    BY <2>1, SeqShape
  <2>3. Pos(np, nl)' = Pos(np, nl) /\ e' = e /\ Border' = Border
    BY <1>1, <1>2, <1>5, PosStays, SameLines
  <2>4. Pos(np, nl) < Border => BeginOf(ls, 1, m, e) = Pos(np, nl)
    BY <2>1 DEF TokensOf, Chain
  <2>5. ParsePos(np, nl)' = Pos(np, nl)
    <3>1. ParsePos(np, nl)' = IF Pos(np, nl) < Border THEN BeginOf(ls, 1, m, e) ELSE Pos(np, nl)
      BY <1>2, <1>4, <2>3 DEF ParsePos
    <3> QED BY <2>4, <3>1
  <2>6. ParsePos(np, nl) = Pos(np, nl) /\ SeenTo(parsed, ParsePos(np, nl))
    BY DEF Cut, Parsing, ParsePos, ParserBegin
  <2>7. SeenTo(parsed, ParsePos(np, nl))'
    BY <1>2, <2>5, <2>6, SeenToStays
  <2> QED BY <1>2, <1>4, <2>2, <2>7 DEF Parsing
<1> QED BY <1>6, <1>7, <1>8, <1>9, <1>10, <1>11, <1>12, <1>13 DEF Cut

LEMMA StutterCut ==
  ASSUME NEW np, NEW nr, NEW nl, Cut(np, nr, nl), Inv, UNCHANGED vars
  PROVE  Cut(np, nr, nl)'
<1>1. UNCHANGED <<file, loader, buf, reader, list, strPool, strings, isEmpty, parser, parsed>>
  BY DEF vars, readVars, parseVars
<1>2. SamePlaces /\ np \in Nat /\ nr \in Nat /\ nl \in Nat
  BY <1>1 DEF SamePlaces, Cut, Ring
<1>3. Shapes' /\ Ring(np, nr, nl)'
  BY <1>1 DEF Cut, Shapes, FileOK, ReaderType, Ring
<1>4. Loaded' /\ Sections(np, nl)'
  BY <1>1, <1>2, LoadedStays, SectionsStay DEF Cut
<1>5. Unread(nr, nl)'
  BY <1>1, <1>2, UnreadStays DEF Cut, InRead
<1>6. Tokens(np, nr)'
  BY <1>1, <1>2, TokensStay DEF Cut, Inv
<1>7. Reading(nr, nl)' /\ Parsing(np, nl)'
  BY <1>1, <1>2, ReadingStays, ParsingStays DEF Cut
<1> QED BY <1>3, <1>4, <1>5, <1>6, <1>7 DEF Cut

LEMMA AbortCut ==
  ASSUME NEW np, NEW nr, NEW nl, Cut(np, nr, nl), Inv, Abort
  PROVE  Cut(np, nr, nl)'
<1>1. /\ UNCHANGED <<file, buf, reader, list, strPool, strings, isEmpty, parser, parsed>>
      /\ loader' = [loader EXCEPT !.pc = "abort"]
  BY DEF Abort, readVars, parseVars
<1>2. np \in Nat /\ nr \in Nat /\ nl \in Nat
  BY DEF Cut, Ring
<1>3. loader \in [i: Slots, fd: Nat, filePos: Nat, lineBegin: Seq(Nat), pc: {"run", "done", "abort"}]
  BY DEF Cut, Shapes
<1>4. /\ loader'.i = loader.i /\ loader'.fd = loader.fd /\ loader'.filePos = loader.filePos
      /\ loader'.lineBegin = loader.lineBegin /\ loader'.pc = "abort"
      /\ loader' \in [i: Slots, fd: Nat, filePos: Nat, lineBegin: Seq(Nat), pc: {"run", "done", "abort"}]
  BY <1>1, <1>3
<1>5. LineEnds' = LineEnds /\ NoEnd' = NoEnd /\ Border' = Border /\ Len(file)' = Len(file)
  BY <1>1, SameWords, SameLines
<1>6. ~Clean
  <2>1. SUFFICES ASSUME Clean PROVE FALSE
    OBVIOUS
  <2> DEFINE d == loader.fd - loader.filePos
  <2>2. /\ loader.lineBegin = [k \in 1 .. d |-> loader.filePos + k]
        /\ loader.filePos <= loader.fd /\ loader.fd < loader.filePos + BufSize
    BY <2>1 DEF Cut, Loaded
  <2>3. d \in Nat /\ d < BufSize
    BY <1>3, <2>2, BufSizeAssumption
  <2>4. Len(loader.lineBegin) = d
    BY <1>3, <2>2, <2>3
  <2>5. Len(loader.lineBegin) >= BufSize
    BY DEF Abort
  <2> QED BY <2>3, <2>4, <2>5, BufSizeAssumption
<1>7. ~Clean' /\ NoEnd # {}
  BY <1>4, <1>5, <1>6 DEF Clean
<1>8. Loaded'
  BY <1>4, <1>5, <1>6, <1>7 DEF Cut, Loaded
<1>9. SamePlaces
  BY <1>1, <1>4 DEF SamePlaces
<1>10. Shapes' /\ Ring(np, nr, nl)'
  BY <1>1, <1>4 DEF Cut, Shapes, FileOK, ReaderType, Ring
<1>11. Sections(np, nl)'
  BY <1>1, <1>2, <1>9, SectionsStay DEF Cut
<1>12. Unread(nr, nl)'
  BY <1>1, <1>2, <1>9, UnreadStays DEF Cut, InRead
<1>13. Tokens(np, nr)'
  BY <1>1, <1>2, <1>9, TokensStay DEF Cut, Inv
<1>14. Reading(nr, nl)' /\ Parsing(np, nl)'
  BY <1>1, <1>2, <1>9, ReadingStays, ParsingStays DEF Cut
<1> QED BY <1>8, <1>10, <1>11, <1>12, <1>13, <1>14 DEF Cut

----------------------------------------------------------------------------
(* The words of a line as the parser reads them are those of the file.      *)
LEMMA WordsOfLine ==
  ASSUME FileOK, NEW i, NEW l, Section(buf[i]), buf[i].filePos < Border, NEW w \in FileWords,
         LineIs(buf[i], strings[i], l, w), l.nStrings = NrWords(w)
  PROVE  WordsOf(i, l) = LineFrom(w).words
<1> DEFINE v(k) == Ascending(WordsFrom(w))[k]
           b == buf[i]
<1>1. ASSUME NEW k \in 1 .. l.nStrings
      PROVE  WordsOf(i, l)[k] = BytesOf(v(k))
  <2>1. WordIs(b, strings[i], l, k, v(k))
    BY DEF LineIs
  <2> DEFINE s == strings[i][Address(l, k)]
             u == v(k)
  <2>2. s = [ptr |-> b.buffer + (u[1] - 1 - b.filePos), len |-> u[2] - u[1] + 1]
    BY <2>1 DEF WordIs
  <2>3. u \in FileWords
    BY <2>1 DEF WordIs
  <2>4. WordsOf(i, l)[k] = [j \in 1 .. s.len + 1 |-> b.memory[s.ptr + j - 1]]
    BY DEF WordsOf, Address
  <2> HIDE DEF s, u
  <2>5. /\ u[1] \in Nat /\ u[2] \in Nat /\ 1 <= u[1] /\ u[1] <= u[2]
        /\ \A p \in u[1] .. u[2] : IsLetter(p)
    BY <2>3, WordOfFile
  <2>6. /\ b.memory[b.buffer + (u[2] - b.filePos)] = Nul
        /\ b.filePos < u[1] /\ u[2] <= b.filePos + b.nRead
    BY <2>1 DEF WordIs, u
  <2>7. /\ b.filePos \in Nat /\ b.nRead \in Nat /\ b.buffer \in Nat
        /\ \A p \in 0 .. b.nRead - 1 : IsLetter(b.filePos + p + 1) => b.memory[b.buffer + p] = b.filePos + p + 1
    BY DEF Section
  <2> HIDE DEF b
  <2>8. s.len + 1 = u[2] - u[1] + 2 /\ s.ptr = b.buffer + (u[1] - 1 - b.filePos)
    BY <2>2, <2>5
  <2>9. ASSUME NEW j \in 1 .. s.len + 1
        PROVE  b.memory[s.ptr + j - 1] = IF u[1] + j - 1 <= u[2] THEN u[1] + j - 1 ELSE Nul
    <3>1. CASE u[1] + j - 1 <= u[2]
      <4> DEFINE p == u[1] + j - 2 - b.filePos
      <4>1. u[1] + j - 1 \in u[1] .. u[2] /\ p \in 0 .. b.nRead - 1
        BY <2>5, <2>6, <2>7, <2>8, <3>1
      <4>2. b.filePos + p + 1 = u[1] + j - 1 /\ b.buffer + p = s.ptr + j - 1
        BY <2>5, <2>7, <2>8
      <4> HIDE DEF p
      <4>3. IsLetter(b.filePos + p + 1)
        BY <2>5, <4>1, <4>2
      <4>4. b.memory[b.buffer + p] = b.filePos + p + 1
        BY <2>7, <4>1, <4>3
      <4> QED BY <3>1, <4>2, <4>4
    <3>2. CASE ~(u[1] + j - 1 <= u[2])
      <4>1. j = u[2] - u[1] + 2
        BY <2>5, <2>8, <3>2
      <4>2. s.ptr + j - 1 = b.buffer + (u[2] - b.filePos)
        BY <2>5, <2>7, <2>8, <4>1
      <4> QED BY <2>6, <3>2, <4>2
    <3> QED BY <3>1, <3>2
  <2>10. WordsOf(i, l)[k] = BytesOf(u)
    BY <2>4, <2>8, <2>9 DEF BytesOf
  <2> QED BY <2>10 DEF u
<1>2. LineFrom(w).words = [k \in 1 .. NrWords(w) |-> BytesOf(v(k))]
  BY DEF LineFrom
<1>3. DOMAIN WordsOf(i, l) = 1 .. l.nStrings /\ WordsOf(i, l) = [k \in 1 .. l.nStrings |-> WordsOf(i, l)[k]]
  BY DEF WordsOf
<1> HIDE DEF v
<1> QED BY <1>1, <1>2, <1>3

LEMMA NrWordsIs ==
  ASSUME FileOK, NEW w
  PROVE  NrWords(w) \in Nat /\ NrWords(w) <= Cardinality(WordsFrom(w))
<1>1. Cardinality(WordsFrom(w)) \in Nat
  BY WordsFinite, WordsFromAreWords
<1> QED BY <1>1, MaxArgsAssumption DEF NrWords

(* The lines of a chain lie before its end.                                *)
LEMMA ChainLine ==
  ASSUME NEW b, NEW st, NEW po, NEW ls, NEW m \in Nat, NEW e \in Nat, Chain(b, st, po, ls, m, e),
         NEW k \in 1 .. m
  PROVE  /\ BeginOf(ls, k, m, e) = ls[k].begin /\ ls[k].begin \in Nat
         /\ BeginOf(ls, k + 1, m, e) \in Nat
         /\ ls[k].begin <= BeginOf(ls, k + 1, m, e) /\ BeginOf(ls, k + 1, m, e) <= e
         /\ Complete(b, st, ls[k], BeginOf(ls, k + 1, m, e))
<1>1. Complete(b, st, ls[k], BeginOf(ls, k + 1, m, e))
  BY DEF Chain
<1>2. ls[k].begin \in Nat /\ ls[k].begin <= BeginOf(ls, k + 1, m, e)
  BY <1>1 DEF Complete
<1>3. CASE k = m
  <2>1. BeginOf(ls, k + 1, m, e) = e
    BY <1>3 DEF BeginOf
  <2> QED BY <1>1, <1>2, <2>1 DEF BeginOf
<1>4. CASE k # m
  <2>1. k + 1 \in 1 .. m
    BY <1>4
  <2>2. BeginOf(ls, k + 1, m, e) = ls[k + 1].begin
    BY <2>1 DEF BeginOf
  <2>3. ls[k + 1].begin <= e
    BY <2>1 DEF Chain
  <2>4. ls[k + 1].begin \in Nat
    BY <2>1 DEF Chain, Complete
  <2> QED BY <1>1, <1>2, <2>2, <2>3, <2>4 DEF BeginOf
<1> QED BY <1>3, <1>4

LEMMA ParseLineCut ==
  ASSUME NEW np, NEW nr, NEW nl, Cut(np, nr, nl), Inv, ParseLine
  PROVE  Cut(np, nr, nl)'
<1> DEFINE i == parser.i
           ls == list[i]
           m  == Len(ls)
           n  == parser.line
           l  == ls[n]
           words == WordsOf(i, l)
           new == [begin |-> l.begin, words |-> words]
<1>1. UNCHANGED <<file, loader, buf, reader, list, strPool, strings, isEmpty>>
  BY DEF ParseLine, readVars
<1>0. parser.pc = "lines" /\ n <= m
  BY DEF ParseLine
<1>20. parsed' = IF words = <<>> THEN parsed ELSE Append(parsed, new)
  BY DEF ParseLine
<1>2. np \in Nat /\ nr \in Nat /\ nl \in Nat /\ np < nr
  BY <1>0 DEF Cut, Ring
<1>3. parser'.line = n + 1 /\ parser'.pc = "lines" /\ parser'.i = i
  <2>1. parser' = [parser EXCEPT !.line = @ + 1] \/
          \E a : parser' = [parser EXCEPT !.line = @ + 1, !.argv = a]
    BY DEF ParseLine
  <2> QED BY <1>0, <2>1 DEF Inv, ParserInv
<1>4. SamePlaces
  BY <1>1 DEF SamePlaces
<1>5. IsSeq(parsed) /\ FileOK
  BY DEF Cut, Shapes
<1>6. IsSeq(parsed')
  BY <1>20, <1>5, SeqAppend
<1> HIDE DEF words, new
<1>7. Shapes' /\ Ring(np, nr, nl)'
  BY <1>0, <1>1, <1>3, <1>6 DEF Cut, Shapes, FileOK, ReaderType, Ring
<1>8. Loaded' /\ Sections(np, nl)'
  BY <1>1, <1>2, <1>4, LoadedStays, SectionsStay DEF Cut
<1>9. Unread(nr, nl)'
  BY <1>1, <1>2, <1>4, UnreadStays DEF Cut, InRead
<1>10. Tokens(np, nr)'
  BY <1>1, <1>2, <1>4, TokensStay DEF Cut, Inv
<1>11. Reading(nr, nl)'
  BY <1>1, <1>2, <1>4, ReadingStays DEF Cut
<1>12. Parsing(np, nl)'
  <2> DEFINE e == Pos(np + 1, nl)
             a == Pos(np, nl)
  <2>1. /\ a = buf[i].filePos /\ a \in Nat /\ e = a + buf[i].nRead
        /\ TokensOf(i) /\ IsSeq(ls) /\ Section(buf[i]) /\ Border \in Nat /\ buf[i].nRead \in Nat
    BY <1>2, ParserSlot
  <2>2. m \in Nat /\ n \in 1 .. m
    <3>1. m \in Nat
      BY <2>1, SeqShape
    <3>2. n \in 1 .. m + 1
      BY <1>0 DEF Cut, Parsing
    <3> QED BY <1>0, <3>1, <3>2
  <2>3. a' = a /\ e' = e /\ Border' = Border
    BY <1>2, <1>1, <1>4, PosStays, SameLines
  <2>4. ParsePos(np, nl) = IF a < Border THEN BeginOf(ls, n, m, e) ELSE a
    BY <1>0 DEF ParsePos
  <2>5. ParsePos(np, nl)' = IF a < Border THEN BeginOf(ls, n + 1, m, e) ELSE a
    BY <1>1, <1>3, <2>3 DEF ParsePos
  <2>6. SeenTo(parsed, ParsePos(np, nl))
    BY DEF Cut, Parsing
  <2>7. SeenTo(parsed', ParsePos(np, nl)')
    <3>1. CASE a < Border
      <4> DEFINE q == BeginOf(ls, n + 1, m, e)
      <4>1. Chain(buf[i], strings[i], strPool[i], ls, m, e)
        BY <2>1, <3>1 DEF TokensOf
      <4>2. e \in Nat /\ e <= Border
        BY <2>1, <3>1 DEF Section
      <4> HIDE DEF e
      <4>3. /\ BeginOf(ls, n, m, e) = l.begin /\ l.begin \in Nat /\ q \in Nat /\ l.begin <= q /\ q <= e
            /\ Complete(buf[i], strings[i], l, q)
        <5> HIDE DEF i, ls, m, n
        <5>1. \A k \in 1 .. m :
                /\ BeginOf(ls, k, m, e) = ls[k].begin /\ ls[k].begin \in Nat
                /\ BeginOf(ls, k + 1, m, e) \in Nat
                /\ ls[k].begin <= BeginOf(ls, k + 1, m, e) /\ BeginOf(ls, k + 1, m, e) <= e
                /\ Complete(buf[i], strings[i], ls[k], BeginOf(ls, k + 1, m, e))
          BY ONLY <2>2, <4>1, <4>2, ChainLine
        <5> QED BY ONLY <2>2, <5>1
      <4>4. q <= Border
        BY <2>1, <4>2, <4>3
      <4>5. SeenTo(parsed, l.begin) /\ ParsePos(np, nl)' = q
        BY <2>4, <2>5, <2>6, <3>1, <4>3
      <4> HIDE DEF q
      <4>6. CASE l.nStrings = 0
        <5>1. words = <<>>
          BY <4>6 DEF WordsOf, words
        <5>2. Between(FirstWords, l.begin, q) = {}
          BY <4>3, <4>6 DEF Complete
        <5>3. SeenTo(parsed, q)
          BY <1>5, <4>3, <4>4, <4>5, <5>2, SeenNoMore
        <5> QED BY <1>20, <4>5, <5>1, <5>3
      <4>7. CASE l.nStrings # 0
        <5>1. PICK w \in FirstWords :
                Between(FirstWords, l.begin, q) = {w} /\ l.nStrings = NrWords(w) /\ LineIs(buf[i], strings[i], l, w)
          BY <4>3, <4>7 DEF Complete
        <5>2. w \in FileWords
          BY FirstAreWords
        <5>3. words = LineFrom(w).words
          BY <1>5, <2>1, <3>1, <5>1, <5>2, WordsOfLine DEF words
        <5>4. l.begin = LineBegin(w)
          BY <5>1 DEF LineIs
        <5>5. new = LineFrom(w)
          BY <5>3, <5>4 DEF LineFrom, new
        <5>6. words # <<>>
          <6>1. NrWords(w) \in Nat /\ NrWords(w) # 0
            BY <1>5, <4>7, <5>1, NrWordsIs
          <6>2. DOMAIN words = 1 .. NrWords(w)
            BY <5>3 DEF LineFrom
          <6>3. 1 \in DOMAIN words
            BY <6>1, <6>2
          <6> QED BY <6>3
        <5>7. SeenTo(Append(parsed, LineFrom(w)), q)
          BY <1>5, <4>3, <4>4, <4>5, <5>1, SeenOneMore
        <5> QED BY <1>20, <4>5, <5>5, <5>6, <5>7
      <4> QED BY <4>6, <4>7
    <3>2. CASE ~(a < Border)
      <4>1. SeenTo(parsed, a) /\ ParsePos(np, nl)' = a
        BY <2>4, <2>5, <2>6, <3>2
      <4>2. NoEnd # {}
        <5>1. SUFFICES ASSUME NoEnd = {} PROVE FALSE
          OBVIOUS
        <5>2. ls = <<>>
          BY <2>1, <3>2, <5>1 DEF TokensOf
        <5> QED BY <2>2, <5>2
      <4>3. a >= Border
        BY <2>1, <3>2
      <4>4. SeenTo(Append(parsed, new), a)
        BY <1>5, <2>1, <4>1, <4>2, <4>3, SeenTooMuch
      <4> QED BY <1>20, <4>1, <4>4
    <3> QED BY <3>1, <3>2
  <2>8. SeenTo(parsed, ParsePos(np, nl))'
    BY <1>1, <2>7, SeenToStays
  <2>9. n + 1 \in 1 .. m + 1
    BY <2>2
  <2> QED BY <1>1, <1>3, <2>8, <2>9 DEF Parsing
<1> QED BY <1>7, <1>8, <1>9, <1>10, <1>11, <1>12 DEF Cut

LEMMA ParserEndCut ==
  ASSUME NEW np, NEW nr, NEW nl, Cut(np, nr, nl), Inv, ParserEnd
  PROVE  Cut(np + 1, nr, nl)'
<1> DEFINE i == parser.i
           m  == Len(list[i])
           e  == Pos(np + 1, nl)
           a  == Pos(np, nl)
<1>1. /\ UNCHANGED <<file, loader, reader, strPool, strings, parsed>>
      /\ buf'     = [buf EXCEPT ![i].state = "EMPTY"]
      /\ isEmpty' = [isEmpty EXCEPT ![i] = TRUE]
      /\ list'    = [list EXCEPT ![i] = <<>>]
      /\ parser'  = [parser EXCEPT !.i = Slot(i), !.pc = IF buf[i].eof THEN "done" ELSE "begin"]
      /\ parser.pc = "lines" /\ parser.line > m
  BY DEF ParserEnd
<1>2. /\ np \in Nat /\ nr \in Nat /\ nl \in Nat /\ np < nr /\ nr <= nl /\ nl <= np + NBuf /\ np + 1 \in Nat
  BY <1>1 DEF Cut, Ring
<1>3. /\ i = Place(np) /\ i \in Slots /\ a = buf[i].filePos /\ a \in Nat /\ e = a + buf[i].nRead
      /\ TokensOf(i) /\ IsSeq(list[i]) /\ Section(buf[i]) /\ Border \in Nat /\ buf[i].nRead \in Nat
  BY <1>2, ParserSlot
<1>4. /\ parser'.i = Place(np + 1) /\ parser'.pc = IF buf[i].eof THEN "done" ELSE "begin"
  BY <1>1, <1>2, <1>3, PlaceFacts DEF Inv, ParserInv
<1>5. buf \in [Slots -> BufferType]
  BY DEF Cut, Shapes
<1>6. /\ \A j \in Slots : buf'[j] = IF j = i THEN [buf[j] EXCEPT !.state = "EMPTY"] ELSE buf[j]
      /\ buf' \in [Slots -> BufferType]
  BY <1>1, <1>5 DEF BufferType
<1>7. /\ SamePlaces
      /\ \A j \in Slots : /\ buf'[j].memory = buf[j].memory
                          /\ buf'[j].state = IF j = i THEN "EMPTY" ELSE buf[j].state
  BY <1>1, <1>5, <1>6 DEF SamePlaces, BufferType
<1>8. \A j \in Slots : isEmpty'[j] = (IF j = i THEN TRUE ELSE isEmpty[j])
                     /\ (j # i => list'[j] = list[j])
  BY <1>1 DEF Cut, Shapes, Inv, LinesInv
<1>9. Shapes'
  BY <1>1, <1>6 DEF Cut, Shapes, FileOK, ReaderType
<1>10. \A n \in np + 1 .. np + NBuf - 1 : n \in Nat /\ Place(n) \in Slots /\ Place(n) # i
  <2>1. ASSUME NEW n \in np + 1 .. np + NBuf - 1
        PROVE  n \in Nat /\ Place(n) \in Slots /\ Place(n) # i
    <3>1. n \in Nat /\ np < n /\ n < np + NBuf
      BY <1>2, NBufAssumption
    <3> QED BY <1>2, <1>3, <3>1, PlaceFacts, PlacesApart
  <2> QED BY <2>1
<1>11. Ring(np + 1, nr, nl)'
  <2>1. ASSUME NEW n \in np + 1 .. np + 1 + NBuf - 1
        PROVE  /\ buf'[Place(n)].state = StateOf(n, nr, nl)
               /\ isEmpty'[Place(n)] <=> ~(n < nr)
    <3>1. CASE n \in np + 1 .. np + NBuf - 1
      <4>1. n \in np .. np + NBuf - 1
        BY <1>2, <3>1, NBufAssumption
      <4>2. buf[Place(n)].state = StateOf(n, nr, nl) /\ (isEmpty[Place(n)] <=> ~(n < nr))
        BY <4>1 DEF Cut, Ring
      <4>3. n \in Nat /\ Place(n) \in Slots /\ Place(n) # i
        BY <3>1, <1>10
      <4> QED BY <4>2, <4>3, <1>7, <1>8
    <3>2. CASE n = np + NBuf
      <4>1. Place(n) = i
        BY <1>2, <1>3, <3>2, PlaceFacts
      <4>2. ~(n < nr) /\ ~(n < nl)
        BY <1>2, <3>2, NBufAssumption
      <4> QED BY <1>3, <1>7, <1>8, <4>1, <4>2 DEF StateOf
    <3> QED BY <1>2, <3>1, <3>2, NBufAssumption
  <2>2. nl <= np + 1 + NBuf
    BY <1>2, NBufAssumption
  <2>3. np + 1 <= nr
    BY <1>2
  <2> QED BY <1>1, <1>2, <1>4, <2>1, <2>2, <2>3 DEF Cut, Ring
<1>12. Loaded'
  BY <1>1, LoadedStays DEF Cut
<1>13. \A n \in np .. nl - 1 : n \in Nat /\ Place(n) \in Slots
  BY <1>2, PlaceFacts
<1>14. Sections(np + 1, nl)'
  <2>1. \A n \in np + 1 .. nl - 1 : buf'[Place(n)].memory = buf[Place(n)].memory
    BY <1>2, <1>7, <1>13
  <2>2. Sections(np, nl) /\ np <= np + 1
    BY <1>2 DEF Cut
  <2> QED BY <1>2, <1>7, <2>1, <2>2, SectionsStay
<1>15. Unread(nr, nl)'
  <2>1. \A n \in nr .. nl - 1 : buf'[Place(n)].memory = buf[Place(n)].memory
    BY <1>2, <1>7, <1>13
  <2> QED BY <1>1, <1>2, <1>7, <2>1, UnreadStays DEF Cut, InRead
<1>16. Tokens(np + 1, nr)'
  <2>1. \A n \in np + 1 .. nr - 1 : n \in np + 1 .. np + NBuf - 1 /\ n < nr
    BY <1>2, NBufAssumption
  <2>2. \A n \in np + 1 .. nr - 1 :
           /\ n < nr
           /\ buf'[Place(n)].memory = buf[Place(n)].memory
           /\ strings'[Place(n)] = strings[Place(n)]
           /\ strPool'[Place(n)] = strPool[Place(n)]
           /\ list'[Place(n)] = list[Place(n)]
    BY <1>1, <1>7, <1>8, <1>10, <2>1
  <2> QED BY <1>2, <1>7, <2>2, TokensStay DEF Cut, Inv
<1>17. Reading(nr, nl)'
  <2>1. ASSUME reader.pc \in {"line", "words"}
        PROVE  buf'[reader.curbuf] = buf[reader.curbuf] /\ list'[reader.curbuf] = list[reader.curbuf]
    <3>1. nr < nl /\ reader.curbuf = Place(nr)
      BY <2>1 DEF Cut, Ring
    <3>2. nr \in np + 1 .. np + NBuf - 1
      BY <1>2, <3>1, NBufAssumption
    <3>3. reader.curbuf \in Slots /\ reader.curbuf # i
      BY <1>10, <3>1, <3>2
    <3> QED BY <1>6, <1>8, <3>3
  <2> QED BY <1>1, <1>2, <1>7, <2>1, ReadingStays DEF Cut
<1>18. Parsing(np + 1, nl)'
  <2>1. m \in Nat /\ parser.line = m + 1
    <3>1. m \in Nat
      BY <1>3, SeqShape
    <3>2. parser.line \in 1 .. m + 1
      BY <1>1 DEF Cut, Parsing
    <3> QED BY <1>1, <3>1, <3>2
  <2>2. e' = e /\ Border' = Border
    BY <1>1, <1>2, <1>7, PosStays, SameLines
  <2>3. ParsePos(np, nl) = IF a < Border THEN e ELSE a
    <3>1. BeginOf(list[i], m + 1, m, e) = e
      BY <2>1 DEF BeginOf
    <3> QED BY <1>1, <2>1, <3>1 DEF ParsePos
  <2>4. SeenTo(parsed, ParsePos(np, nl))
    BY DEF Cut, Parsing
  <2>5. e \in Nat /\ (~(a < Border) => e >= Border)
    BY <1>3
  <2>6. SeenTo(parsed, e)
    BY <1>3, <2>3, <2>4, <2>5, SeenPast
  <2>7. parser'.pc # "lines" /\ ParsePos(np + 1, nl)' = e
    BY <1>4, <2>2 DEF ParsePos
  <2>8. SeenTo(parsed, ParsePos(np + 1, nl))'
    BY <1>1, <2>6, <2>7, SeenToStays
  <2>9. parser'.pc = "done" => e >= Border
    <3>1. ASSUME buf[i].eof
          PROVE  e >= Border
      <4>1. a < Border => e = Border
        BY <1>3, <3>1 DEF Section
      <4> QED BY <1>3, <2>5, <4>1
    <3> QED BY <1>4, <3>1
  <2> QED BY <2>2, <2>7, <2>8, <2>9 DEF Parsing
<1> QED BY <1>9, <1>11, <1>12, <1>14, <1>15, <1>16, <1>17, <1>18 DEF Cut

----------------------------------------------------------------------------
(* The slot of the reader.                                                 *)
LEMMA ReaderSlot ==
  ASSUME NEW np, NEW nr, NEW nl, Cut(np, nr, nl), Inv, nr < nl, reader.curbuf = Place(nr)
  PROVE  /\ np \in Nat /\ nr \in Nat /\ nl \in Nat /\ np <= nr /\ nl <= np + NBuf
         /\ reader.curbuf \in Slots /\ cur \in BufferType
         /\ Section(cur) /\ cur.filePos \in Nat /\ cur.nRead \in Nat
         /\ Pos(nr, nl) = cur.filePos /\ Pos(nr + 1, nl) = cur.filePos + cur.nRead
         /\ IsSeq(list[reader.curbuf]) /\ PoolInv(strPool[reader.curbuf])
         /\ FileOK /\ Border \in Nat
         /\ \A n \in np .. np + NBuf - 1 : n # nr => Place(n) # reader.curbuf
<1>1. /\ np \in Nat /\ nr \in Nat /\ nl \in Nat /\ np <= nr /\ nl <= np + NBuf
  BY DEF Cut, Ring
<1>2. reader.curbuf \in Slots
  BY <1>1, PlaceFacts
<1>3. Section(cur) /\ Pos(nr + 1, nl) = cur.filePos + cur.nRead
  BY <1>1 DEF Cut, Sections, cur
<1>4. Pos(nr, nl) = cur.filePos
  BY <1>1 DEF Pos, cur
<1>5. IsSeq(list[reader.curbuf]) /\ PoolInv(strPool[reader.curbuf]) /\ cur \in BufferType
  BY <1>2 DEF Inv, LinesInv, Cut, Shapes, cur
<1>6. cur.filePos \in Nat /\ cur.nRead \in Nat
  BY <1>3 DEF Section
<1>7. FileOK /\ Border \in Nat
  BY BorderFacts, FileChars DEF Cut, Shapes
<1>8. ASSUME NEW n \in np .. np + NBuf - 1, n # nr
      PROVE  Place(n) # reader.curbuf
  <2>1. n \in Nat
    BY <1>1, NBufAssumption
  <2>2. CASE n < nr
    <3>1. nr < n + NBuf
      BY <1>1, <2>1, NBufAssumption
    <3> QED BY <1>1, <2>1, <2>2, <3>1, PlacesApart
  <2>3. CASE nr < n
    <3>1. n < nr + NBuf
      BY <1>1, <2>1, NBufAssumption
    <3> QED BY <1>1, <2>1, <2>3, <3>1, PlacesApart
  <2> QED BY <1>1, <1>8, <2>1, <2>2, <2>3
<1> QED BY <1>1, <1>2, <1>3, <1>4, <1>5, <1>6, <1>7, <1>8

(* A step of the reader: it changes what belongs to its slot. With the step *)
(* mr buffers have been read.                                              *)
OnlyThis(i) ==
  \A j \in Slots : j # i => /\ buf'[j] = buf[j] /\ isEmpty'[j] = isEmpty[j]
                            /\ strings'[j] = strings[j] /\ strPool'[j] = strPool[j] /\ list'[j] = list[j]
GoesOn(i) ==
  /\ reader'.pc \in {"line", "words"} /\ reader'.curbuf = i
  /\ buf'[i].state = buf[i].state /\ isEmpty'[i] = isEmpty[i]
HandsOver(i) ==
  /\ reader'.pc \in {"begin", "done"} /\ (reader'.pc = "begin" => reader'.curbuf = Slot(i))
  /\ buf'[i].state = "TOKENIZED" /\ isEmpty'[i] = FALSE
  /\ TokensOf(i)'

LEMMA ReaderFrame ==
  ASSUME NEW np, NEW nr, NEW nl, NEW mr, NEW i, Cut(np, nr, nl), Inv, nr < nl,
         i = Place(nr), reader.curbuf = i,
         UNCHANGED <<file, loader, parser, parsed>>, SamePlaces, OnlyThis(i),
         Section(buf'[i]),
         \/ mr = nr /\ GoesOn(i)
         \/ mr = nr + 1 /\ HandsOver(i),
         Shapes', Reading(mr, nl)'
  PROVE  Cut(np, mr, nl)'
<1>1. /\ np \in Nat /\ nr \in Nat /\ nl \in Nat /\ np <= nr /\ nl <= np + NBuf /\ mr \in Nat /\ nr <= mr
      /\ mr <= nl /\ mr \in {nr, nr + 1}
      /\ i \in Slots
      /\ \A n \in np .. np + NBuf - 1 : n # nr => Place(n) # i
  BY ReaderSlot
<1>2. \A n \in np .. np + NBuf - 1 : n \in Nat /\ Place(n) \in Slots
  BY <1>1, NBufAssumption, PlaceFacts
<1>3. ASSUME NEW n \in np .. np + NBuf - 1, n # nr
      PROVE  /\ buf'[Place(n)] = buf[Place(n)] /\ isEmpty'[Place(n)] = isEmpty[Place(n)]
             /\ strings'[Place(n)] = strings[Place(n)] /\ strPool'[Place(n)] = strPool[Place(n)]
             /\ list'[Place(n)] = list[Place(n)]
  BY <1>1, <1>2, <1>3 DEF OnlyThis
<1>4. nr \in np .. np + NBuf - 1 /\ Place(nr) = i
  BY <1>1, NBufAssumption
<1>5. Ring(np, mr, nl)'
  <2>1. ASSUME NEW n \in np .. np + NBuf - 1
        PROVE  /\ buf'[Place(n)].state = StateOf(n, mr, nl)
               /\ isEmpty'[Place(n)] <=> ~(n < mr)
    <3>1. buf[Place(n)].state = StateOf(n, nr, nl) /\ (isEmpty[Place(n)] <=> ~(n < nr))
      BY DEF Cut, Ring
    <3>2. CASE n = nr
      <4>1. CASE mr = nr /\ GoesOn(i)
        BY <1>4, <3>1, <3>2, <4>1 DEF GoesOn
      <4>2. CASE mr = nr + 1 /\ HandsOver(i)
        <5>1. n < mr
          BY <1>1, <3>2, <4>2
        <5> QED BY <1>4, <3>2, <4>2, <5>1 DEF HandsOver, StateOf
      <4> QED BY <4>1, <4>2
    <3>3. CASE n # nr
      <4>1. n < nr <=> n < mr
        BY <1>1, <1>2, <3>3
      <4> QED BY <1>3, <3>1, <3>3, <4>1 DEF StateOf
    <3> QED BY <3>2, <3>3
  <2>2. reader'.pc # "done" => reader'.curbuf = Place(mr)
    <3>1. Slot(i) = Place(nr + 1)
      BY <1>1, <1>4, PlaceFacts
    <3> QED BY <1>4, <3>1 DEF GoesOn, HandsOver
  <2>3. reader'.pc \in {"line", "words"} => mr < nl
    BY DEF GoesOn, HandsOver
  <2>4. parser.pc = "lines" => np < mr
    BY <1>1 DEF Cut, Ring
  <2>5. loader.i = Place(nl) /\ parser.i = Place(np)
    BY DEF Cut, Ring
  <2>6. np <= mr
    BY <1>1
  <2> QED BY <1>1, <2>1, <2>2, <2>3, <2>4, <2>5, <2>6 DEF Ring
<1>6. Loaded'
  BY LoadedStays DEF Cut
<1>7. Sections(np, nl)'
  <2>1. ASSUME NEW n \in np .. nl - 1
        PROVE  buf'[Place(n)].memory = buf[Place(n)].memory \/ Section(buf'[Place(n)])
    <3>1. n \in np .. np + NBuf - 1
      BY <1>1, NBufAssumption
    <3>2. CASE n = nr
      BY <1>4, <3>2
    <3>3. CASE n # nr
      BY <1>3, <3>1, <3>3
    <3> QED BY <3>2, <3>3
  <2> QED BY <1>1, <2>1, SectionsStay DEF Cut
<1>8. Unread(mr, nl)'
  <2>1. ASSUME NEW n \in mr .. nl - 1
        PROVE  InRead(n, mr)' \/ (buf'[Place(n)].memory = buf[Place(n)].memory /\ ~InRead(n, nr))
    <3>1. n \in np .. np + NBuf - 1
      BY <1>1, NBufAssumption
    <3>2. CASE n = nr
      <4>1. mr = nr /\ GoesOn(i)
        BY <1>1, <3>2
      <4> QED BY <3>2, <4>1 DEF InRead, GoesOn
    <3>3. CASE n # nr
      BY <1>3, <3>1, <3>3 DEF InRead
    <3> QED BY <3>2, <3>3
  <2> QED BY <1>1, <2>1, UnreadStays DEF Cut
<1>9. Tokens(np, mr)'
  <2>1. ASSUME NEW n \in np .. mr - 1
        PROVE  \/ /\ n < nr
                  /\ buf'[Place(n)].memory = buf[Place(n)].memory
                  /\ strings'[Place(n)] = strings[Place(n)]
                  /\ strPool'[Place(n)] = strPool[Place(n)]
                  /\ list'[Place(n)] = list[Place(n)]
               \/ TokensOf(Place(n))'
    <3>1. n \in np .. np + NBuf - 1
      BY <1>1, NBufAssumption
    <3>2. CASE n = nr
      <4>1. mr = nr + 1 /\ HandsOver(i)
        BY <1>1, <3>2
      <4>2. TokensOf(Place(nr))'
        BY <1>4, <4>1 DEF HandsOver
      <4> QED BY <3>2, <4>2
    <3>3. CASE n # nr
      <4>1. n < nr
        BY <1>1, <3>3
      <4> QED BY <1>3, <3>1, <3>3, <4>1
    <3> QED BY <3>2, <3>3
  <2>2. np <= np
    BY <1>1
  <2> QED BY <1>1, <2>1, <2>2, TokensStay DEF Cut, Inv
<1>10. Parsing(np, nl)'
  <2>1. ASSUME parser.pc = "lines"
        PROVE  list'[parser.i] = list[parser.i]
    <3>1. np < nr /\ parser.i = Place(np)
      BY <2>1 DEF Cut, Ring
    <3>2. np \in np .. np + NBuf - 1 /\ np # nr
      BY <1>1, <3>1, NBufAssumption
    <3> QED BY <1>3, <3>1, <3>2
  <2> QED BY <1>1, <2>1, ParsingStays DEF Cut
<1> QED BY <1>5, <1>6, <1>7, <1>8, <1>9, <1>10 DEF Cut

----------------------------------------------------------------------------
(* If every read() finds a line end there is something to read.             *)
LEMMA SomethingToRead ==
  ASSUME FileOK, NoEnd = {}
  PROVE  0 < Border
<1>1. 0 % BufSize = 0
  <2>1. BufSize \in Nat \ {0} /\ 0 \in 0 .. BufSize - 1 /\ 0 = BufSize * 0 + 0
    BY BufSizeAssumption
  <2> QED BY <2>1, ModUnique
<1>2. Len(file) \in Nat /\ Border = Len(file)
  BY FileChars, BorderFacts
<1>3. 0 \in Reads
  BY <1>1, <1>2 DEF Reads
<1>4. PICK e \in LineEnds : ~(e <= 0)
  BY <1>3 DEF NoEnd
<1> QED BY <1>2, <1>4, LineEndFacts

LEMMA EmptyChain ==
  ASSUME NEW b, NEW st, NEW po, NEW ls, NEW e, e = b.filePos
  PROVE  Chain(b, st, po, ls, 0, e)
BY DEF Chain, BeginOf

LEMMA ResetInv ==
  ASSUME NEW p, PoolInv(p)
  PROVE  PoolInv(Reset(p))
<1>1. p \in PoolType /\ p.used \in Nat /\ p.memory \in Nat
  BY DEF PoolInv, PoolType
<1>2. PICK q : q = Pointer(p.memory, 0)
  OBVIOUS
<1>3. q \in PointerType /\ {} \in SUBSET Nat /\ 0 \in Nat
  BY <1>1, <1>2 DEF PointerType, Pointer
<1>4. Reset(p) = [p EXCEPT !.exhaustList = {}, !.used = 0, !.next = q]
  BY <1>2 DEF Reset
<1>5. Reset(p) \in PoolType /\ Reset(p).memory = p.memory /\ Reset(p).used = 0 /\ Reset(p).next = q
  BY <1>1, <1>3, <1>4 DEF PoolType
<1> QED BY <1>2, <1>5, PoolSizeAssumption DEF PoolInv

LEMMA StateOnly ==
  ASSUME NEW b \in BufferType, NEW s
  PROVE  SameData(b, [b EXCEPT !.state = s]) /\ [b EXCEPT !.state = s].state = s
BY DEF BufferType, SameData

LEMMA ReaderBeginCut ==
  ASSUME NEW np, NEW nr, NEW nl, Cut(np, nr, nl), Inv, ReaderBegin
  PROVE  \E mr \in Nat : Cut(np, mr, nl)'
<1>1. PICK i : i = Place(nr)
  OBVIOUS
<1>2. /\ reader.pc \in {"first", "begin"} /\ cur.state = "LOADED"
      /\ UNCHANGED <<file, loader, parser, parsed>>
      /\ strPool' = [strPool EXCEPT ![reader.curbuf] = Reset(@)]
      /\ strings' = [strings EXCEPT ![reader.curbuf] = NoStrings]
      /\ list'    = [list EXCEPT ![reader.curbuf] = <<>>]
  BY DEF ReaderBegin, parseVars
<1>3. np \in Nat /\ nr \in Nat /\ nl \in Nat /\ np <= nr /\ nr <= nl /\ nl <= np + NBuf /\ reader.curbuf = i
  BY <1>1, <1>2 DEF Cut, Ring
<1>4. i \in Slots
  BY <1>1, <1>3, PlaceFacts
<1>5. nr < nl
  <2>1. CASE nr = np + NBuf
    <3>1. i = Place(np) /\ np \in np .. np + NBuf - 1 /\ np < nr
      BY <1>1, <1>3, <2>1, PlaceFacts, NBufAssumption
    <3>2. cur.state = "TOKENIZED"
      BY <1>1, <1>3, <3>1 DEF Cut, Ring, StateOf, cur
    <3> QED BY <1>2, <3>2
  <2>2. CASE nr # np + NBuf
    <3>1. nr \in np .. np + NBuf - 1
      BY <1>3, <2>2, NBufAssumption
    <3>2. StateOf(nr, nr, nl) = "LOADED"
      BY <1>1, <1>2, <1>3, <3>1 DEF Cut, Ring, cur
    <3> QED BY <1>3, <3>2 DEF StateOf
  <2> QED BY <2>1, <2>2
<1>6. /\ cur = buf[i] /\ cur \in BufferType /\ Section(cur)
      /\ Pos(nr, nl) = cur.filePos /\ cur.filePos \in Nat /\ cur.nRead \in Nat
      /\ PoolInv(strPool[i]) /\ FileOK /\ Border \in Nat
  BY <1>1, <1>3, <1>5, ReaderSlot DEF cur
<1>7. /\ list'[i] = <<>> /\ strings'[i] = NoStrings /\ strPool'[i] = Reset(strPool[i])
      /\ \A j \in Slots : j # i => strings'[j] = strings[j] /\ strPool'[j] = strPool[j] /\ list'[j] = list[j]
      /\ DOMAIN strPool' = Slots /\ DOMAIN strings' = Slots
  BY <1>2, <1>3, <1>4 DEF Cut, Shapes, Inv, LinesInv
<1>8. PoolInv(Reset(strPool[i]))
  BY <1>6, ResetInv
<1>9. Border' = Border /\ NoEnd' = NoEnd /\ \A p : IsLetter(p)' = IsLetter(p) /\ Fresh(p)' = Fresh(p)
  BY <1>2, SameLetters
<1>10. AtBegin(nr, nl)
  BY <1>2 DEF Cut, Reading
<1>11. /\ reader \in ReaderType
       /\ buf \in [Slots -> BufferType] /\ DOMAIN isEmpty = Slots
  BY DEF Cut, Shapes
<1>12. CASE reader.pc = "begin" /\ cur.eof /\ cur.nRead = 0
  <2>1. /\ EndProduceBuffer(reader.curbuf)
        /\ reader' = [reader EXCEPT !.pc = "done"]
    BY <1>12 DEF ReaderBegin
  <2>2. /\ buf' = [buf EXCEPT ![i].state = "TOKENIZED"]
        /\ isEmpty' = [isEmpty EXCEPT ![i] = FALSE]
    BY <1>3, <2>1 DEF EndProduceBuffer
  <2>3. /\ \A j \in Slots : buf'[j] = IF j = i THEN [buf[j] EXCEPT !.state = "TOKENIZED"] ELSE buf[j]
        /\ buf' \in [Slots -> BufferType]
    BY <1>11, <2>2 DEF BufferType
  <2>4. /\ SamePlaces /\ SameData(buf[i], buf'[i]) /\ buf'[i].state = "TOKENIZED"
    <3>1. \A j \in Slots : SameData(buf[j], buf'[j])
      <4>1. ASSUME NEW j \in Slots
            PROVE  SameData(buf[j], buf'[j])
        <5>1. CASE j = i
          BY <1>11, <2>3, <5>1, StateOnly
        <5>2. CASE j # i
          BY <2>3, <5>2 DEF SameData
        <5> QED BY <5>1, <5>2
      <4> QED BY <4>1
    <3>2. buf'[i].state = "TOKENIZED"
      <4>1. buf[i] \in BufferType
        BY <1>4, <1>11
      <4>2. [buf[i] EXCEPT !.state = "TOKENIZED"].state = "TOKENIZED"
        BY <4>1, StateOnly
      <4> QED BY <1>4, <2>3, <4>2
    <3> QED BY <1>2, <1>4, <3>1, <3>2 DEF SamePlaces, SameData
  <2>5. OnlyThis(i)
    BY <1>7, <1>11, <2>2, <2>3 DEF OnlyThis
  <2>6. Section(buf'[i])
    BY <1>6, <2>4, SectionStays
  <2>7. TokensOf(i)'
    <3>1. ~(cur.filePos < Border)
      BY <1>6, <1>12 DEF Section
    <3>2. buf'[i].filePos = cur.filePos
      BY <1>6, <2>4 DEF SameData
    <3> QED BY <1>7, <1>9, <3>1, <3>2 DEF TokensOf
  <2>8. reader'.pc = "done"
    BY <1>11, <2>1
  <2>9. HandsOver(i)
    BY <1>4, <1>11, <2>2, <2>4, <2>7, <2>8 DEF HandsOver
  <2>10. Shapes'
    <3>1. reader' \in ReaderType'
      BY <1>11, <2>1 DEF ReaderType
    <3>2. DOMAIN isEmpty' = Slots
      BY <1>11, <2>2
    <3> QED BY <1>2, <1>4, <1>7, <1>8, <2>3, <3>1, <3>2 DEF Cut, Shapes, FileOK
  <2>11. Reading(nr + 1, nl)'
    BY <2>8 DEF Reading
  <2>12. PICK mr : mr = nr + 1
    OBVIOUS
  <2>13. Cut(np, mr, nl)'
    BY <1>1, <1>2, <1>3, <1>5, <2>4, <2>5, <2>6, <2>9, <2>10, <2>11, <2>12, ReaderFrame
  <2> QED BY <1>3, <2>12, <2>13
<1>13. CASE ~(reader.pc = "begin" /\ cur.eof /\ cur.nRead = 0)
  <2>1. /\ reader' = [reader EXCEPT !.pc = "line"]
        /\ UNCHANGED <<buf, isEmpty>>
    BY <1>13 DEF ReaderBegin
  <2>2. /\ reader'.pc = "line" /\ reader'.curbuf = i
        /\ reader'.lastPos = reader.lastPos /\ reader'.bufferSwitch = reader.bufferSwitch
        /\ reader' \in ReaderType'
    BY <1>3, <1>11, <2>1 DEF ReaderType
  <2>3. SamePlaces /\ OnlyThis(i)
    BY <1>2, <1>7, <2>1 DEF SamePlaces, OnlyThis
  <2>4. Section(buf'[i]) /\ GoesOn(i)
    BY <1>6, <2>1, <2>2 DEF GoesOn
  <2>5. Shapes'
    BY <1>2, <1>4, <1>7, <1>8, <2>1, <2>2 DEF Cut, Shapes, FileOK
  <2>6. AtLine'
    <3>1. cur' = cur
      BY <1>6, <2>1, <2>2 DEF cur
    <3>2. NoEnd = {} => cur.filePos < Border
      <4>1. ASSUME NoEnd = {}, reader.pc = "first"
            PROVE  cur.filePos < Border
        BY <1>6, <1>10, <4>1, SomethingToRead DEF AtBegin
      <4>2. ASSUME NoEnd = {}, reader.pc = "begin"
            PROVE  cur.filePos < Border
        BY <1>6, <1>13, <4>2 DEF Section
      <4> QED BY <1>2, <4>1, <4>2
    <3>3. ASSUME cur.filePos < Border
          PROVE  InBuffer' /\ Fresh(ReadPos)' /\ CurChain(Len(list[reader.curbuf]), ReadPos)'
      <4>1. reader.lastPos = 0 /\ ~reader.bufferSwitch /\ Fresh(cur.filePos) /\ ~IsLetter(cur.filePos)
        BY <1>6, <1>10, <3>3 DEF AtBegin
      <4>2. ReadPos' = cur.filePos
        <5>1. ReadPos' = cur.filePos + 0
          BY <2>2, <3>1, <4>1 DEF ReadPos
        <5> QED BY <1>6, <5>1
      <4>3. Intact(cur, 0)
        <5>1. nr \in nr .. nl - 1
          BY <1>3, <1>5
        <5>2. ~InRead(nr, nr)
          BY <1>2 DEF InRead
        <5> QED BY <1>1, <1>6, <3>3, <5>1, <5>2 DEF Cut, Unread
      <4>4. 0 \in 0 .. cur.nRead - 1
        BY <1>6, <3>3 DEF Section
      <4>5. ~IsLetter(cur.filePos)' /\ Fresh(cur.filePos)'
        BY <1>9, <3>1, <4>1
      <4>6. InBuffer'
        BY <2>2, <3>1, <4>1, <4>2, <4>3, <4>4, <1>9 DEF InBuffer
      <4>7. CurChain(Len(list[reader.curbuf]), ReadPos)'
        <5>1. Chain(cur, strings'[i], strPool'[i], <<>>, 0, cur.filePos)
          BY EmptyChain
        <5>2. Chain(cur', strings'[i], strPool'[i], list'[i], Len(list'[i]), ReadPos')
          BY <1>7, <3>1, <4>2, <5>1, EmptyIsSeq
        <5> QED BY <1>2, <2>2, <5>2, SameSections DEF CurChain
      <4> QED BY <1>9, <4>1, <4>2, <4>6, <4>7
    <3> QED BY <1>9, <3>1, <3>2, <3>3 DEF AtLine
  <2>7. Reading(nr, nl)'
    BY <2>2, <2>6 DEF Reading
  <2>8. Cut(np, nr, nl)'
    BY <1>1, <1>2, <1>3, <1>5, <2>3, <2>4, <2>5, <2>7, ReaderFrame
  <2> QED BY <1>3, <2>8
<1> QED BY <1>12, <1>13

LEMMA ReadLineCut ==
  ASSUME NEW np, NEW nr, NEW nl, Cut(np, nr, nl), Inv, ReadLine
  PROVE  Cut(np, nr, nl)'
<1>1. PICK i : i = Place(nr)
  OBVIOUS
<1>2. reader.pc = "line"
  BY DEF ReadLine
<1>3. np \in Nat /\ nr \in Nat /\ nl \in Nat /\ nr < nl /\ reader.curbuf = i
  BY <1>1, <1>2 DEF Cut, Ring
<1>4. /\ i \in Slots /\ cur = buf[i] /\ Section(cur) /\ cur.filePos \in Nat
      /\ PoolInv(strPool[i]) /\ FileOK /\ Border \in Nat /\ IsSeq(list[i])
  BY <1>1, <1>3, ReaderSlot DEF cur
<1>5. PICK line : line = [begin |-> cur.filePos + reader.lastPos,
                          strings |-> PreallocN(strPool[i], MaxArgs).ptr, nStrings |-> 0]
  OBVIOUS
<1>6. PICK room : room = PreallocN(strPool[i], MaxArgs)
  OBVIOUS
<1>7. /\ UNCHANGED <<file, loader, parser, parsed, buf, isEmpty, strings>>
      /\ list'    = [list EXCEPT ![i] = Append(list[i], line)]
      /\ strPool' = [strPool EXCEPT ![i] = room.pool]
      /\ reader'  = [reader EXCEPT !.endOfLine = FALSE, !.pc = "words"]
  BY <1>3, <1>5, <1>6 DEF ReadLine, parseVars
<1>8. /\ PoolInv(room.pool) /\ room.ptr = room.pool.next /\ room.pool.used + MaxArgs < PoolSize
      /\ \A e : Holds(strPool[i], e) => Holds(room.pool, e)
  BY <1>4, <1>6, PreallocInv
<1>9. line.begin = cur.filePos + reader.lastPos /\ line.strings = room.pool.next /\ line.nStrings = 0
  BY <1>5, <1>6, <1>8
<1>10. /\ list'[i] = Append(list[i], line) /\ strPool'[i] = room.pool
       /\ \A j \in Slots : j # i => strPool'[j] = strPool[j] /\ list'[j] = list[j]
       /\ DOMAIN strPool' = Slots
  BY <1>4, <1>7 DEF Cut, Shapes, Inv, LinesInv
<1>11. /\ reader \in ReaderType
  BY DEF Cut, Shapes
<1>12. /\ reader'.pc = "words" /\ reader'.curbuf = i /\ reader'.endOfLine = FALSE
       /\ reader'.lastPos = reader.lastPos /\ reader'.bufferSwitch = reader.bufferSwitch
       /\ reader' \in ReaderType'
  BY <1>3, <1>7, <1>11 DEF ReaderType
<1>13. SamePlaces /\ OnlyThis(i)
  BY <1>7, <1>10 DEF SamePlaces, OnlyThis
<1>14. Section(buf'[i]) /\ GoesOn(i)
  BY <1>4, <1>7, <1>12 DEF GoesOn
<1>15. Shapes'
  BY <1>7, <1>8, <1>10, <1>12 DEF Cut, Shapes, FileOK
<1>16. AtLine
  BY <1>2 DEF Cut, Reading
<1>17. Border' = Border /\ NoEnd' = NoEnd /\ \A p : IsLetter(p)' = IsLetter(p) /\ Fresh(p)' = Fresh(p)
  BY <1>7, SameLetters
<1>18. AtWords'
  <2>1. cur' = cur /\ ReadPos' = ReadPos
    BY <1>4, <1>7, <1>12 DEF cur, ReadPos
  <2>2. PICK m : m = Len(list[i])
    OBVIOUS
  <2>3. /\ m \in Nat /\ Len(list'[i]) = m + 1 /\ list'[i][m + 1] = line
        /\ \A k \in 1 .. m : list'[i][k] = list[i][k]
    BY <1>4, <1>10, <2>2, SeqAppend, SeqShape
  <2>4. LastLine(i)' = line /\ Len(list'[i]) - 1 = m
    BY <2>3 DEF LastLine
  <2>5. ASSUME cur.filePos < Border
        PROVE  /\ ~reader.bufferSwitch /\ InBuffer'
               /\ Chain(cur, strings[i], room.pool, list'[i], m, line.begin)
               /\ Partial(cur, strings[i], line, ReadPos, FALSE)
    <3>1. /\ InBuffer /\ Fresh(ReadPos)
          /\ Chain(cur, strings[i], strPool[i], list[i], m, ReadPos)
      BY <1>3, <1>16, <2>2, <2>5 DEF AtLine, CurChain
    <3>2. ~reader.bufferSwitch /\ reader.lastPos \in 0 .. cur.nRead - 1
      BY <3>1 DEF InBuffer
    <3>3. ReadPos = line.begin /\ ReadPos \in Nat
      BY <1>4, <1>9, <3>2 DEF ReadPos
    <3>4. InBuffer'
      BY <1>12, <1>17, <2>1, <3>1 DEF InBuffer
    <3>5. MoreEnded(cur, cur) /\ MoreStrings(strPool[i], strings[i], strings[i])
      BY DEF MoreEnded, MoreStrings
    <3>6. Chain(cur, strings[i], room.pool, list'[i], m, ReadPos)
      BY <1>4, <1>8, <2>3, <3>1, <3>5, ChainStays
    <3>7. Partial(cur, strings[i], line, ReadPos, FALSE)
      BY <1>9, <3>1, <3>3 DEF Partial
    <3> QED BY <3>2, <3>3, <3>4, <3>6, <3>7
  <2>6. Len(list'[i]) >= 1
    BY <2>3
  <2>7. cur.filePos < Border => CurChain(Len(list[reader.curbuf]) - 1, LastLine(i).begin)'
    <3>1. ASSUME cur.filePos < Border
          PROVE  Chain(cur', strings'[i], strPool'[i], list'[i], Len(list'[i]) - 1, LastLine(i)'.begin)
      BY <1>7, <1>10, <2>1, <2>4, <2>5, <3>1
    <3> QED BY <1>7, <1>12, <3>1, SameSections DEF CurChain, LastLine
  <2>8. cur.filePos < Border => Partial(cur, strings[i], LastLine(i), ReadPos, reader.endOfLine)'
    <3>1. ASSUME cur.filePos < Border
          PROVE  Partial(cur', strings'[i], LastLine(i)', ReadPos', reader'.endOfLine)
      BY <1>7, <1>12, <2>1, <2>4, <2>5, <3>1
    <3>2. PICK c, st, l, p, d : /\ c = cur' /\ st = strings'[i] /\ l = LastLine(i)' /\ p = ReadPos'
                               /\ d = reader'.endOfLine
      OBVIOUS
    <3>3. cur.filePos < Border => Partial(c, st, l, p, d)'
      <4>1. file' = file
        BY <1>7
      <4>2. cur.filePos < Border => Partial(c, st, l, p, d)
        BY <3>1, <3>2
      <4>3. Partial(c, st, l, p, d)' = Partial(c, st, l, p, d)
        BY <4>1, SameSections
      <4> QED BY <4>2, <4>3
    <3> QED BY <3>2, <3>3
  <2>9. LastLine(i)'.strings = strPool'[i].next /\ strPool'[i].used + MaxArgs < PoolSize
    BY <1>8, <1>9, <1>10, <2>4
  <2>10. NoEnd = {} => cur.filePos < Border
    BY <1>16 DEF AtLine
  <2> QED BY <1>12, <1>17, <2>1, <2>5, <2>6, <2>7, <2>8, <2>9, <2>10 DEF AtWords, LastLine
<1>19. Reading(nr, nl)'
  BY <1>12, <1>18 DEF Reading
<1> QED BY <1>1, <1>3, <1>7, <1>13, <1>14, <1>15, <1>19, ReaderFrame

----------------------------------------------------------------------------
(* The words up to the end of the next one.                                *)
NextIn(S, v, p, r) == /\ S \subseteq FileWords /\ v \in S /\ p \in Nat /\ NextAfter(v, p)
                      /\ r \in Nat /\ v[1] <= r /\ r <= v[2] + 1
LEMMA UpToNext ==
  ASSUME FileOK, NEW S, NEW v, NEW p, NEW r, NextIn(S, v, p, r)
  PROVE  /\ UpTo(S, r) = UpTo(S, p) \cup {v}
         /\ Cardinality(UpTo(S, p)) \in Nat
         /\ Cardinality(UpTo(S, r)) = Cardinality(UpTo(S, p)) + 1
<1>0. /\ S \subseteq FileWords /\ v \in S /\ p \in Nat /\ NextAfter(v, p)
      /\ r \in Nat /\ v[1] <= r /\ r <= v[2] + 1 /\ v \in FileWords
  BY DEF NextIn
<1>1. p < v[1] /\ \A u \in FileWords : u[1] <= p \/ v[1] <= u[1]
  BY <1>0 DEF NextAfter
<1>2. v[1] \in Nat /\ v[2] \in Nat
  BY <1>0, WordOfFile
<1>3. ASSUME NEW u \in S
      PROVE  u[1] <= r <=> u[1] <= p \/ u = v
  <2>1. u \in FileWords /\ u[1] \in Nat
    BY <1>0, WordOfFile
  <2>2. v[1] < u[1] => v[2] + 1 < u[1]
    BY <1>0, <2>1, WordsApart
  <2>3. v[1] = u[1] => u = v
    BY <1>0, <2>1, WordsEqual
  <2> QED BY <1>0, <1>1, <1>2, <2>1, <2>2, <2>3
<1>4. UpTo(S, r) = UpTo(S, p) \cup {v}
  BY <1>0, <1>3 DEF UpTo
<1>5. v \notin UpTo(S, p) /\ UpTo(S, p) \subseteq FileWords
  BY <1>0, <1>1, <1>2 DEF UpTo
<1> QED BY <1>0, <1>4, <1>5, WordsFinite, OneWordMore

EndsAt(r, ended) == IF ended THEN r \in LineEnds \cup {Len(file)} ELSE r \notin LineEnds /\ r # Len(file)
SameStrings(l, st, su) == \A k \in 1 .. l.nStrings : Address(l, k) \in DOMAIN st =>
                            Address(l, k) \in DOMAIN su /\ su[Address(l, k)] = st[Address(l, k)]
OneMore(l, m) == m.begin = l.begin /\ m.strings = l.strings /\ m.nStrings = l.nStrings + 1
LEMMA PartialGrows ==
  ASSUME FileOK, NEW b, NEW c, MoreEnded(b, c), NEW st, NEW su, NEW l, NEW m, NEW p,
         Partial(b, st, l, p, FALSE),
         NEW v \in FileWords, NextAfter(v, p), SameLine(p + 1, v[1]),
         OneMore(l, m), SameStrings(l, st, su),
         WordIs(c, su, m, m.nStrings, v),
         NEW r \in Nat, v[1] <= r, r <= v[2] + 1, r = Len(file) \/ r = v[2] + 1,
         NEW ended, EndsAt(r, ended)
  PROVE  Partial(c, su, m, r, ended)
<1>1. l.begin \in Nat /\ p \in Nat /\ l.nStrings \in Nat
  BY DEF Partial
<1>0. m.begin = l.begin /\ m.strings = l.strings /\ m.nStrings = l.nStrings + 1
  BY DEF OneMore
<1>2. p < v[1] /\ \A u \in FileWords : u[1] <= p \/ v[1] <= u[1]
  BY DEF NextAfter
<1>3. v[1] \in Nat /\ v[2] \in Nat
  BY WordOfFile
<1>4. \A u \in FileWords : u[1] <= r /\ v[1] <= u[1] => u = v
  <2>1. ASSUME NEW u \in FileWords, u[1] <= r, v[1] <= u[1]
        PROVE  u = v
    <3>1. u[1] \in Nat
      BY WordOfFile
    <3>2. v[1] < u[1] => v[2] + 1 < u[1]
      BY WordsApart
    <3>3. v[1] = u[1] => u = v
      BY WordsEqual
    <3> QED BY <1>3, <2>1, <3>1, <3>2, <3>3
  <2> QED BY <2>1
<1>5. v \in WordsFrom(v)
  BY <1>3, SameLineFacts DEF WordsFrom
(* What is to be shown for the line that begins with w.                     *)
<1> DEFINE Goal(w) ==
       /\ NextAfter(w, m.begin) /\ w[1] <= r
       /\ LineIs(c, su, m, w)
       /\ \A u \in FileWords : w[1] <= u[1] /\ u[1] <= r => u \in WordsFrom(w)
       /\ Cardinality(UpTo(WordsFrom(w), r)) = m.nStrings
       /\ r = Len(file) \/ \E u \in WordsFrom(w) : r = u[2] + 1
<1>6. \E w \in FirstWords : Goal(w)
  <2>1. CASE l.nStrings = 0
    <3>1. l.begin = p /\ Fresh(p)
      BY <2>1 DEF Partial
    <3>2. v \in FirstWords /\ LineBegin(v) = p
      BY <3>1 DEF Fresh
    <3>3. UpTo(WordsFrom(v), p) = {}
      <4>1. ASSUME NEW u \in WordsFrom(v), u[1] <= p
            PROVE  FALSE
        <5>1. u \in FileWords /\ u[1] >= v[1]
          BY <4>1 DEF WordsFrom
        <5>2. u[1] \in Nat
          BY <5>1, WordOfFile
        <5> QED BY <1>1, <1>2, <1>3, <4>1, <5>1, <5>2
      <4> QED BY <4>1 DEF UpTo
    <3>4. Cardinality(UpTo(WordsFrom(v), p)) = 0
      BY <3>3, FS_EmptySet
    <3>5. Cardinality(UpTo(WordsFrom(v), r)) = 0 + 1
      <4>1. PICK S : S = WordsFrom(v)
        OBVIOUS
      <4>2. S \subseteq FileWords /\ v \in S
        BY <1>5, <4>1, WordsFromAreWords
      <4>3. Cardinality(UpTo(S, r)) = Cardinality(UpTo(S, p)) + 1
        <5>1. FileOK /\ p \in Nat /\ NextAfter(v, p) /\ r \in Nat /\ v[1] <= r /\ r <= v[2] + 1
          BY <1>1
        <5>2. NextIn(S, v, p, r)
          BY <4>2, <5>1 DEF NextIn
        <5> QED BY ONLY <5>1, <5>2, UpToNext
      <4> QED BY <3>4, <4>1, <4>3
    <3>6. Ascending(WordsFrom(v))[0 + 1] = v
      <4>1. \A u \in WordsFrom(v) : u[1] <= p \/ v[1] <= u[1]
        BY <1>2, WordsFromAreWords
      <4> QED BY <1>1, <1>2, <1>5, <3>4, <4>1, WordsFromAreWords, NextWord
    <3>7. m.nStrings = 1
      BY <1>0, <2>1
    <3>8. LineIs(c, su, m, v)
      BY <1>0, <3>1, <3>2, <3>6, <3>7 DEF LineIs
    <3>9. \A u \in FileWords : v[1] <= u[1] /\ u[1] <= r => u \in WordsFrom(v)
      BY <1>4, <1>5
    <3> QED BY <1>0, <1>5, <3>1, <3>2, <3>5, <3>7, <3>8, <3>9
  <2>2. CASE l.nStrings # 0
    <3>1. PICK w \in FirstWords :
             /\ NextAfter(w, l.begin) /\ w[1] <= p
             /\ LineIs(b, st, l, w)
             /\ \A u \in FileWords : w[1] <= u[1] /\ u[1] <= p => u \in WordsFrom(w)
             /\ Cardinality(UpTo(WordsFrom(w), p)) = l.nStrings
             /\ p = Len(file) \/ \E u \in WordsFrom(w) : p = u[2] + 1
             /\ p \notin LineEnds /\ p # Len(file)
      BY <2>2 DEF Partial
    <3>2. w \in FileWords
      BY FirstAreWords
    <3>3. v \in WordsFrom(w)
      <4>1. PICK u \in WordsFrom(w) : p = u[2] + 1
        BY <3>1
      <4> QED BY <1>2, <3>1, <3>2, <4>1, LineGoesOn
    <3>4. Cardinality(UpTo(WordsFrom(w), r)) = l.nStrings + 1
      <4>1. PICK S : S = WordsFrom(w)
        OBVIOUS
      <4>2. S \subseteq FileWords /\ v \in S
        BY <3>3, <4>1, WordsFromAreWords
      <4>3. Cardinality(UpTo(S, r)) = Cardinality(UpTo(S, p)) + 1
        <5>1. FileOK /\ p \in Nat /\ NextAfter(v, p) /\ r \in Nat /\ v[1] <= r /\ r <= v[2] + 1
          BY <1>1
        <5>2. NextIn(S, v, p, r)
          BY <4>2, <5>1 DEF NextIn
        <5> QED BY ONLY <5>1, <5>2, UpToNext
      <4> QED BY <3>1, <4>1, <4>3
    <3>5. Ascending(WordsFrom(w))[l.nStrings + 1] = v
      <4>1. \A u \in WordsFrom(w) : u[1] <= p \/ v[1] <= u[1]
        BY <1>2, WordsFromAreWords
      <4> QED BY <1>1, <1>2, <3>1, <3>3, <4>1, WordsFromAreWords, NextWord
    <3>6. LineIs(c, su, m, w)
      <4>1. LineIs(c, su, l, w)
        BY <3>1, LineStays DEF SameStrings
      <4>2. ASSUME NEW k \in 1 .. m.nStrings
            PROVE  WordIs(c, su, m, k, Ascending(WordsFrom(w))[k])
        <5>1. CASE k = l.nStrings + 1
          <6>1. WordIs(c, su, m, k, v)
            BY <1>0, <5>1
          <6> QED BY <3>5, <5>1, <6>1
        <5>2. CASE k # l.nStrings + 1
          <6>1. k \in 1 .. l.nStrings
            BY <1>0, <1>1, <5>2
          <6>2. WordIs(c, su, l, k, Ascending(WordsFrom(w))[k])
            BY <4>1, <6>1 DEF LineIs
          <6>3. Address(m, k) = Address(l, k)
            BY <1>0 DEF Address
          <6> QED BY <6>2, <6>3 DEF WordIs
        <5> QED BY <5>1, <5>2
      <4> QED BY <1>0, <4>1, <4>2 DEF LineIs
    <3>7. ASSUME NEW u \in FileWords, w[1] <= u[1], u[1] <= r
          PROVE  u \in WordsFrom(w)
      <4>1. CASE u[1] <= p
        BY <3>1, <3>7, <4>1
      <4>2. CASE ~(u[1] <= p)
        BY <1>2, <1>4, <3>3, <3>7, <4>2
      <4> QED BY <4>1, <4>2
    <3>8. w[1] <= r
      <4>1. w[1] \in Nat
        BY <3>2, WordOfFile
      <4> QED BY <1>1, <1>2, <1>3, <3>1, <4>1
    <3> QED BY <1>0, <3>1, <3>3, <3>4, <3>6, <3>7, <3>8
  <2> QED BY <2>1, <2>2
<1>7. m.begin \in Nat /\ m.nStrings \in Nat /\ m.nStrings # 0
  BY <1>0, <1>1
<1> QED BY <1>6, <1>7 DEF Partial, EndsAt

----------------------------------------------------------------------------
(* Before the Border the reader is in bytes as they are in the file.        *)
LEMMA ReadsHere ==
  ASSUME FileOK, Border \in Nat, Section(cur), cur.filePos < Border, InBuffer
  PROVE  /\ ReadsFrom(cur.filePos, cur.nRead, reader.lastPos)
         /\ ReadPos = cur.filePos + reader.lastPos /\ ~IsLetter(cur.filePos + reader.lastPos)
         /\ ReadPos \in Nat
<1>1. /\ cur.filePos \in Nat /\ cur.nRead \in Nat /\ cur.filePos + cur.nRead <= Border
      /\ cur.filePos + cur.nRead \in LineEnds \cup {Len(file)}
      /\ cur.buffer \in Nat /\ cur.buffer + cur.nRead <= 2 * BufSize
  BY DEF Section
<1>2. /\ ~reader.bufferSwitch /\ reader.lastPos \in 0 .. cur.nRead - 1
      /\ Intact(cur, reader.lastPos) /\ ~IsLetter(ReadPos)
  BY DEF InBuffer
<1>3. Border <= Len(file) /\ Len(file) \in Nat
  BY BorderFacts, FileChars
<1>4. cur.filePos + cur.nRead <= Len(file)
  BY <1>1, <1>3
<1>5. ReadPos = cur.filePos + reader.lastPos
  BY <1>2 DEF ReadPos
<1>6. ReadPos \in Nat
  BY <1>1, <1>2, <1>5
<1> QED BY <1>1, <1>2, <1>4, <1>5, <1>6 DEF ReadsFrom, Intact

(* The byte that is overwritten to end a word.                             *)
EndsWord(b, x, c) == c = [b EXCEPT !.memory[x] = Nul]
LEMMA EndedWord ==
  ASSUME NEW b \in BufferType, NEW x, NEW c, EndsWord(b, x, c)
  PROVE  /\ c \in BufferType /\ c.state = b.state
         /\ c.filePos = b.filePos /\ c.nRead = b.nRead /\ c.buffer = b.buffer /\ c.eof = b.eof
         /\ x \in Cells => c.memory[x] = Nul
         /\ \A y \in Cells : y # x => c.memory[y] = b.memory[y]
         /\ MoreEnded(b, c)
<1>1. PICK mem : mem = [b.memory EXCEPT ![x] = Nul]
  OBVIOUS
<1>2. b.memory \in [Cells -> Nat]
  BY DEF BufferType
<1>3. /\ mem \in [Cells -> Nat] /\ (x \in Cells => mem[x] = Nul)
      /\ \A y \in Cells : y # x => mem[y] = b.memory[y]
  BY <1>1, <1>2 DEF Nul
<1>4. \A y : b.memory[y] = Nul => mem[y] = Nul
  BY <1>1, <1>2
<1>5. c = [b EXCEPT !.memory = mem]
  BY <1>1 DEF EndsWord
<1>6. /\ c \in BufferType /\ c.memory = mem /\ c.state = b.state
      /\ c.filePos = b.filePos /\ c.nRead = b.nRead /\ c.buffer = b.buffer /\ c.eof = b.eof
  BY <1>3, <1>5 DEF BufferType
<1> QED BY <1>3, <1>4, <1>6 DEF MoreEnded

LEMMA WordEndedSection ==
  ASSUME NEW b, Section(b), NEW c, NEW d,
         c.filePos = b.filePos, c.nRead = b.nRead, c.buffer = b.buffer, c.eof = b.eof,
         b.filePos < Border => /\ d \in Nat
                               /\ \A p \in 0 .. b.nRead - 1 : p # d => c.memory[b.buffer + p] = b.memory[b.buffer + p]
                               /\ ~IsLetter(b.filePos + d + 1) \/ d >= b.nRead
  PROVE  Section(c)
BY DEF Section

LEMMA ReadNextWordCut ==
  ASSUME NEW np, NEW nr, NEW nl, Cut(np, nr, nl), Inv, ReadNextWord
  PROVE  Cut(np, nr, nl)'
<1>1. PICK i : i = Place(nr)
  OBVIOUS
<1>2. reader.pc = "words" /\ MoreWords /\ IsWord
  BY DEF ReadNextWord
<1>3. np \in Nat /\ nr \in Nat /\ nl \in Nat /\ nr < nl /\ reader.curbuf = i
  BY <1>1, <1>2 DEF Cut, Ring
<1>4. /\ i \in Slots /\ cur = buf[i] /\ cur \in BufferType /\ Section(cur)
      /\ cur.filePos \in Nat /\ cur.nRead \in Nat
      /\ PoolInv(strPool[i]) /\ FileOK /\ Border \in Nat /\ IsSeq(list[i])
  BY <1>1, <1>3, ReaderSlot DEF cur
<1>5. AtWords
  BY <1>2 DEF Cut, Reading
<1>6. PICK a, q, wb, we, n, bb :
         /\ a = cur.filePos /\ q = reader.lastPos /\ wb = WordBegin /\ we = WordEnd
         /\ n = cur.nRead /\ bb = cur.buffer
  OBVIOUS
<1>7. PICK l, m : l = LastLine(i) /\ m = Len(list[i])
  OBVIOUS
<1>8. PICK to, word : /\ to = Pointer(l.strings.chunk, l.strings.at + l.nStrings)
                      /\ word = [ptr |-> cur.buffer + wb, len |-> we - wb]
  OBVIOUS
<1>9. /\ UNCHANGED <<file, loader, parser, parsed, isEmpty, strPool>>
      /\ strings' = [strings EXCEPT ![i] = [s \in DOMAIN @ \cup {to} |-> IF s = to THEN word ELSE @[s]]]
      /\ list'    = [list EXCEPT ![i][m].nStrings = @ + 1]
      /\ buf'     = [buf EXCEPT ![i].memory[cur.buffer + we] = Nul]
      /\ reader'  = AtPos(we + 1, we >= n \/ CharAt(we) = Newline)
  BY <1>3, <1>6, <1>7, <1>8 DEF ReadNextWord, LastLine, parseVars
<1>10. /\ reader \in ReaderType /\ buf \in [Slots -> BufferType]
  BY DEF Cut, Shapes
<1>11. /\ reader'.pc = "words" /\ reader'.curbuf = i /\ reader' \in ReaderType'
       /\ IF we + 1 >= n THEN reader'.lastPos = 0 /\ reader'.bufferSwitch /\ reader'.endOfLine
          ELSE /\ reader'.lastPos = we + 1 /\ reader'.bufferSwitch = reader.bufferSwitch
               /\ reader'.endOfLine = (we >= n \/ CharAt(we) = Newline)
  <2>1. PICK e \in BOOLEAN : e = (we >= n \/ CharAt(we) = Newline)
    OBVIOUS
  <2>2. reader' = IF we + 1 >= n
                  THEN [reader EXCEPT !.lastPos = 0, !.bufferSwitch = TRUE, !.endOfLine = TRUE]
                  ELSE [reader EXCEPT !.lastPos = we + 1, !.endOfLine = e]
    BY <1>6, <1>9, <2>1 DEF AtPos
  <2>3. CASE we + 1 >= n
    BY <1>2, <1>3, <1>10, <2>2, <2>3 DEF ReaderType
  <2>4. CASE ~(we + 1 >= n)
    BY <1>2, <1>3, <1>10, <2>1, <2>2, <2>4 DEF ReaderType
  <2> QED BY <2>3, <2>4
<1>12. IsLine(l) /\ m >= 1 /\ m \in Nat /\ l = list[i][m]
  <2>1. m >= 1 /\ m \in Nat
    BY <1>3, <1>4, <1>5, <1>7, SeqShape DEF AtWords
  <2>2. m \in 1 .. Len(list[i])
    BY <1>7, <2>1
  <2> QED BY <1>4, <1>7, <2>1, <2>2 DEF Inv, LinesInv, LastLine
<1>13. PICK ml : ml = [l EXCEPT !.nStrings = @ + 1]
  OBVIOUS
<1>14. ml.begin = l.begin /\ ml.strings = l.strings /\ ml.nStrings = l.nStrings + 1 /\ l.nStrings \in Nat
  BY <1>12, <1>13, MaxArgsAssumption DEF IsLine
<1>15. /\ list'[i] = [list[i] EXCEPT ![m] = ml]
       /\ \A j \in Slots : j # i => list'[j] = list[j] /\ strings'[j] = strings[j]
       /\ DOMAIN strings' = Slots
       /\ strings'[i] = [s \in DOMAIN strings[i] \cup {to} |-> IF s = to THEN word ELSE strings[i][s]]
  BY <1>4, <1>9, <1>12, <1>13 DEF Cut, Shapes, Inv, LinesInv
<1>16. /\ Len(list'[i]) = m /\ list'[i][m] = ml
       /\ \A k \in 1 .. m - 1 : list'[i][k] = list[i][k]
  <2>1. /\ Len(list'[i]) = m
        /\ \A k \in 1 .. m : list'[i][k] = IF k = m THEN ml ELSE list[i][k]
    BY <1>4, <1>7, <1>15, SeqExcept
  <2> QED BY <1>12, <2>1
<1>17. PICK c, x : c = buf'[i] /\ x = bb + we
  OBVIOUS
<1>18. /\ c = [cur EXCEPT !.memory[x] = Nul]
       /\ \A j \in Slots : j # i => buf'[j] = buf[j]
  BY <1>4, <1>6, <1>9, <1>10, <1>17
<1>19. /\ c \in BufferType /\ c.state = cur.state
       /\ c.filePos = a /\ c.nRead = n /\ c.buffer = bb /\ c.eof = cur.eof
       /\ x \in Cells => c.memory[x] = Nul
       /\ \A y \in Cells : y # x => c.memory[y] = cur.memory[y]
       /\ MoreEnded(cur, c)
  <2>1. EndsWord(cur, x, c)
    BY <1>18 DEF EndsWord
  <2> QED BY <1>4, <1>6, <2>1, EndedWord
<1>20. buf' \in [Slots -> BufferType]
  BY <1>9, <1>10, <1>17, <1>18, <1>19
<1>21. SamePlaces
  BY <1>4, <1>6, <1>9, <1>17, <1>18, <1>19 DEF SamePlaces
<1>22. OnlyThis(i) /\ GoesOn(i)
  BY <1>4, <1>9, <1>11, <1>15, <1>17, <1>18, <1>19 DEF OnlyThis, GoesOn
<1>23. Shapes'
  BY <1>9, <1>11, <1>15, <1>20 DEF Cut, Shapes, FileOK
(* The word that is found, where the bytes are those of the file.           *)
<1>24. PICK v : v = ScannedWord(a)
  OBVIOUS
<1>25. ASSUME a < Border
       PROVE  /\ InBuffer /\ ReadPos = a + q /\ ReadPos \in Nat /\ reader.endOfLine = FALSE
              /\ q \in 0 .. n - 1 /\ wb \in q .. n - 1 /\ we \in wb + 1 .. n /\ n \in Nat
              /\ v \in FileWords /\ v[1] = a + wb + 1 /\ v[2] = a + we
              /\ NextAfter(v, a + q) /\ SameLine(a + q + 1, v[1])
              /\ we < n => /\ file[a + we + 1] \in {Space, Newline}
                           /\ CharAt(we) = file[a + we + 1]
              /\ a + n <= Len(file) /\ a + n \in LineEnds \cup {Len(file)}
              /\ bb \in Nat /\ bb + n <= 2 * BufSize /\ a \in Nat
  <2>1. reader.endOfLine = FALSE
    BY <1>2, <1>10 DEF MoreWords, ReaderType
  <2>2. InBuffer
    BY <1>5, <1>6, <1>25, <2>1 DEF AtWords
  <2>3. ReadsFrom(a, n, q) /\ ReadPos = a + q /\ ~IsLetter(a + q) /\ ReadPos \in Nat
    BY <1>4, <1>6, <1>25, <2>2, ReadsHere
  <2>4. /\ wb \in q .. n - 1 /\ we \in wb + 1 .. n
        /\ v \in FileWords /\ NextAfter(v, a + q) /\ SameLine(a + q + 1, a + wb + 1)
        /\ we < n => /\ file[a + we + 1] \in {Space, Newline}
                     /\ CharAt(we) = file[a + we + 1]
    BY <1>2, <1>4, <1>6, <1>24, <2>3, WordFound
  <2>5. v[1] = a + wb + 1 /\ v[2] = a + we
    BY <1>6, <1>24 DEF ScannedWord
  <2> QED BY <1>4, <1>6, <2>1, <2>2, <2>3, <2>4, <2>5 DEF ReadsFrom
<1>28. ASSUME a < Border
       PROVE  /\ a \in Nat /\ n \in Nat /\ bb \in Nat /\ we \in Nat /\ wb \in Nat /\ q \in Nat
              /\ bb + n <= 2 * BufSize
              /\ q <= wb /\ wb < we /\ we <= n /\ v[1] = a + wb + 1 /\ v[2] = a + we
  <2>1. a \in Nat /\ n \in Nat /\ bb \in Nat /\ bb + n <= 2 * BufSize /\ v[1] = a + wb + 1 /\ v[2] = a + we
    BY <1>25, <1>28
  <2>2. q \in 0 .. n - 1 /\ wb \in q .. n - 1 /\ we \in wb + 1 .. n
    BY <1>25, <1>28
  <2> QED BY <2>1, <2>2
<1>29. ASSUME a < Border, NEW p \in 0 .. n
       PROVE  bb + p \in Cells
  <2>1. bb \in Nat /\ n \in Nat /\ bb + n <= 2 * BufSize
    BY <1>28, <1>29
  <2>2. p \in Nat /\ p <= n
    BY <2>1
  <2>3. PICK s : s = 2 * BufSize
    OBVIOUS
  <2>4. s \in Nat
    BY <2>3, BufSizeAssumption
  <2>5. bb + p \in 0 .. s
    BY ONLY <2>1, <2>2, <2>3, <2>4
  <2> QED BY <2>3, <2>5 DEF Cells
<1>26. Section(c)
  <2>1. ASSUME a < Border
        PROVE  /\ we \in Nat
               /\ \A p \in 0 .. n - 1 : p # we => c.memory[bb + p] = cur.memory[bb + p]
               /\ ~IsLetter(a + we + 1) \/ we >= n
    <3>1. we \in Nat
      BY <1>28, <2>1
    <3>2. ASSUME NEW p \in 0 .. n - 1, p # we
          PROVE  c.memory[bb + p] = cur.memory[bb + p]
      <4>1. bb + p \in Cells
        <5>1. p \in 0 .. n
          <6>1. n \in Nat
            BY <1>28, <2>1
          <6> QED BY <6>1
        <5> QED BY <1>29, <2>1, <5>1
      <4>2. bb + p # x
        BY <1>17, <1>28, <2>1, <3>2
      <4> QED BY <1>19, <4>1, <4>2
    <3>3. we < n => ~IsLetter(a + we + 1)
      BY <1>25, <2>1, CharsDiffer DEF IsLetter
    <3> QED BY <1>25, <2>1, <3>1, <3>2, <3>3
  <2> QED BY <1>4, <1>6, <1>19, <2>1, WordEndedSection
<1>27. ASSUME a < Border
       PROVE  /\ IF reader'.bufferSwitch THEN reader'.endOfLine = TRUE /\ reader'.lastPos = 0 ELSE InBuffer'
              /\ ReadPos' \in Nat /\ v[1] <= ReadPos' /\ ReadPos' <= v[2] + 1
              /\ ReadPos' = Len(file) \/ ReadPos' = v[2] + 1
              /\ IF reader'.endOfLine THEN ReadPos' \in LineEnds \cup {Len(file)}
                 ELSE ReadPos' \notin LineEnds /\ ReadPos' # Len(file)
  <2>1. cur' = c
    BY <1>11, <1>17 DEF cur
  <2>5. /\ a \in Nat /\ n \in Nat /\ we \in Nat /\ wb \in Nat
        /\ wb < we /\ we <= n /\ v[1] = a + wb + 1 /\ v[2] = a + we /\ a + n <= Len(file)
    BY <1>25, <1>27, <1>28
  <2>2. Len(file) \in Nat
    BY <1>4, FileChars
  <2>3. CASE we + 1 >= n
    <3>1. ReadPos' = a + n /\ reader'.bufferSwitch /\ reader'.endOfLine = TRUE /\ reader'.lastPos = 0
      BY <1>11, <1>19, <2>1, <2>3 DEF ReadPos, ReaderType
    <3>2. a + n = v[2] + 1 \/ a + n = v[2]
      BY ONLY <2>3, <2>5
    <3>3. a + n = v[2] => a + n = Len(file)
      <4>1. ASSUME a + n = v[2]
            PROVE  a + n \notin LineEnds
        <5>1. IsLetter(a + n)
          <6>1. v \in FileWords
            BY <1>25, <1>27
          <6>2. /\ v[1] \in Nat /\ v[2] \in Nat /\ v[1] <= v[2]
                /\ \A p \in v[1] .. v[2] : IsLetter(p)
            BY <1>4, <6>1, WordOfFile
          <6>3. v[2] \in v[1] .. v[2]
            BY <6>2
          <6> QED BY <4>1, <6>2, <6>3
        <5> QED BY <1>4, <5>1, LineEndFacts
      <4> QED BY <1>25, <1>27, <4>1
    <3>4. a + n \in Nat /\ v[1] <= a + n /\ a + n <= v[2] + 1
      BY ONLY <2>5, <3>2
    <3> QED BY <1>25, <1>27, <3>1, <3>2, <3>3, <3>4
  <2>4. CASE ~(we + 1 >= n)
    <3>1. we < n /\ we + 1 \in 0 .. n - 1 /\ ~(we >= n)
      BY ONLY <2>4, <2>5
    <3>2. /\ reader'.lastPos = we + 1 /\ ~reader'.bufferSwitch
          /\ reader'.endOfLine <=> CharAt(we) = Newline
      BY <1>11, <1>25, <1>27, <2>4, <3>1 DEF InBuffer
    <3>3. ReadPos' = v[2] + 1 /\ v[2] + 1 = a + we + 1
      <4>1. ReadPos' = a + (we + 1)
        BY <1>19, <2>1, <3>2 DEF ReadPos
      <4> QED BY <2>5, <4>1
    <3>4. v[2] + 1 \in Nat /\ v[1] <= v[2] + 1 /\ v[2] + 1 # Len(file) /\ v[2] + 1 \in Bytes
      <4>1. v[2] + 1 \in 1 .. Len(file)
        BY ONLY <2>2, <2>5, <3>1
      <4> QED BY <2>2, <2>5, <3>1, <4>1 DEF Bytes
    <3>5. v[2] + 1 \in LineEnds <=> CharAt(we) = Newline
      BY <1>25, <1>27, <3>1, <3>3, <3>4 DEF LineEnds
    <3>6. InBuffer'
      <4>1. ~IsLetter(v[2] + 1)
        BY <1>4, <1>25, <1>27, WordOfFile
      <4>2. Intact(cur, q) /\ a = cur.filePos /\ n = cur.nRead
        BY <1>6, <1>25, <1>27 DEF InBuffer
      <4>3. Intact(c, we + 1)
        <5>1. ASSUME NEW p \in we + 1 .. n - 1
              PROVE  c.memory[bb + p] = a + p + 1
          <6>1. p \in q .. n - 1
            BY <1>27, <1>28
          <6>2. cur.memory[bb + p] = a + p + 1
            BY <1>6, <4>2, <6>1 DEF Intact
          <6>3. bb + p \in Cells
            <7>1. p \in 0 .. n
              BY ONLY <2>5, <3>1
            <7> QED BY <1>27, <1>29, <7>1
          <6>4. bb + p # x
            <7>1. bb \in Nat
              BY <1>27, <1>28
            <7> QED BY <1>17, <2>5, <7>1
          <6> QED BY <1>19, <6>2, <6>3, <6>4
        <5> QED BY <1>19, <5>1 DEF Intact
      <4>4. ~IsLetter(ReadPos)'
        BY <1>9, <3>3, <4>1, SameLetters
      <4> QED BY <1>19, <2>1, <3>1, <3>2, <4>3, <4>4 DEF InBuffer
    <3> QED BY <3>2, <3>3, <3>4, <3>5, <3>6
  <2> QED BY <2>3, <2>4
<1>30. AtWords'
  <2>1. cur' = c /\ reader'.curbuf = i /\ LastLine(i)' = ml /\ Len(list'[i]) = m
    BY <1>11, <1>16, <1>17 DEF cur, LastLine
  <2>2. Border' = Border /\ NoEnd' = NoEnd /\ file' = file
    BY <1>9, SameLetters
  <2>3. /\ ml.strings = strPool'[i].next /\ strPool'[i].used + MaxArgs < PoolSize
        /\ l.strings = strPool[i].next
    BY <1>3, <1>5, <1>7, <1>9, <1>14 DEF AtWords
  <2>4. NoEnd = {} => a < Border
    BY <1>5, <1>6 DEF AtWords
  <2>5. PICK st, su, po, ls, lt : /\ st = strings[i] /\ su = strings'[i] /\ po = strPool[i]
                                 /\ ls = list[i] /\ lt = list'[i]
    OBVIOUS
  <2>6. su = [s \in DOMAIN st \cup {to} |-> IF s = to THEN word ELSE st[s]]
    BY <1>15, <2>5
  <2>7. /\ po.used \in Nat /\ po.memory \in Nat /\ PoolInv(po) /\ l.nStrings \in Nat
        /\ to = Pointer(po.memory, po.used + l.nStrings)
        /\ l.strings = Pointer(po.memory, po.used)
    <3>1. PoolInv(po)
      BY <1>4, <2>5
    <3>2. l.strings = Pointer(po.memory, po.used)
      BY <2>3, <2>5, <3>1 DEF PoolInv
    <3> QED BY <1>8, <1>14, <3>1, <3>2 DEF PoolInv, PoolType, Pointer
  <2>8. MoreStrings(po, st, su)
    <3>1. ~HeldAddress(po, to)
      BY <2>7 DEF HeldAddress, Pointer
    <3> QED BY <2>6, <3>1 DEF MoreStrings
  <2>9. \A k \in 1 .. l.nStrings : Address(l, k) \in DOMAIN st =>
           Address(l, k) \in DOMAIN su /\ su[Address(l, k)] = st[Address(l, k)]
    <3>1. ASSUME NEW k \in 1 .. l.nStrings
          PROVE  Address(l, k) # to
      <4>1. Address(l, k).at = po.used + k - 1 /\ to.at = po.used + l.nStrings
        BY <2>7 DEF Address, Pointer
      <4> QED BY <2>7, <4>1
    <3> QED BY <2>6, <3>1
  <2>10. ASSUME a < Border
         PROVE  /\ Chain(c, su, po, lt, m - 1, ml.begin)
                /\ Partial(c, su, ml, ReadPos', reader'.endOfLine)
    <3>1. /\ Chain(cur, st, po, ls, m - 1, l.begin)
          /\ Partial(cur, st, l, ReadPos, FALSE)
      BY <1>3, <1>5, <1>6, <1>7, <1>25, <2>5, <2>10 DEF AtWords, CurChain
    <3>2. Chain(c, su, po, lt, m - 1, ml.begin)
      <4>1. m - 1 \in Nat /\ \A k \in 1 .. m - 1 : lt[k] = ls[k]
        BY <1>12, <1>16, <2>5
      <4>2. \A e : Holds(po, e) => Holds(po, e)
        OBVIOUS
      <4>3. Chain(c, su, po, lt, m - 1, l.begin)
        BY <1>19, <2>7, <2>8, <3>1, <4>1, <4>2, ChainStays
      <4> QED BY <1>14, <4>3
    <3>3. Partial(c, su, ml, ReadPos', reader'.endOfLine)
      <4>1. WordIs(c, su, ml, ml.nStrings, v)
        <5>1. Address(ml, ml.nStrings) = to
          BY <1>8, <1>14 DEF Address
        <5>2. to \in DOMAIN su /\ su[to] = word
          BY <2>6
        <5>3. word = [ptr |-> bb + (v[1] - 1 - a), len |-> v[2] - v[1] + 1]
          <6>1. bb + wb = bb + (v[1] - 1 - a) /\ we - wb = v[2] - v[1] + 1
            BY <1>28, <2>10
          <6> QED BY <1>6, <1>8, <6>1
        <5>4. c.memory[bb + (v[2] - a)] = Nul
          <6>1. bb + (v[2] - a) = x
            BY <1>17, <1>28, <2>10
          <6>2. x \in Cells
            <7>1. we \in 0 .. n
              BY <1>28, <2>10
            <7> QED BY <1>17, <1>29, <2>10, <7>1
          <6> QED BY <1>19, <6>1, <6>2
        <5>5. a < v[1] /\ v[2] <= a + n
          BY <1>28, <2>10
        <5>6. v \in FileWords
          BY <1>25, <2>10
        <5> QED BY <1>19, <5>1, <5>2, <5>3, <5>4, <5>5, <5>6 DEF WordIs
      <4>2. PICK p, r, ended : p = ReadPos /\ r = ReadPos' /\ ended = reader'.endOfLine
        OBVIOUS
      <4>3. /\ v \in FileWords /\ NextAfter(v, p) /\ SameLine(p + 1, v[1])
        BY <1>25, <2>10, <4>2
      <4>4. /\ r \in Nat /\ v[1] <= r /\ r <= v[2] + 1 /\ (r = Len(file) \/ r = v[2] + 1)
            /\ IF ended THEN r \in LineEnds \cup {Len(file)} ELSE r \notin LineEnds /\ r # Len(file)
        BY <1>27, <2>10, <4>2
      <4>5. Partial(cur, st, l, p, FALSE)
        BY <3>1, <4>2
      <4>6. Partial(c, su, ml, r, ended)
        <5>1. OneMore(l, ml) /\ SameStrings(l, st, su) /\ EndsAt(r, ended)
          BY <1>14, <2>9, <4>4 DEF OneMore, SameStrings, EndsAt
        <5>2. FileOK /\ MoreEnded(cur, c)
          BY <1>4, <1>19
        <5> QED BY ONLY <4>1, <4>3, <4>4, <4>5, <5>1, <5>2, PartialGrows
      <4> QED BY <4>2, <4>6
    <3> QED BY <3>2, <3>3
  <2>11. a < Border => CurChain(Len(list[reader.curbuf]) - 1, LastLine(i).begin)'
    <3>1. a < Border => Chain(cur', strings'[i], strPool'[i], list'[i], Len(list'[i]) - 1, LastLine(i)'.begin)
      BY <1>9, <2>1, <2>5, <2>10
    <3>2. reader'.curbuf = i /\ file' = file
      BY <2>1, <2>2
    <3> QED BY <3>1, <3>2, SameSections DEF CurChain, LastLine
  <2>12. a < Border => Partial(cur, strings[i], LastLine(i), ReadPos, reader.endOfLine)'
    <3>1. PICK d, tt, k, p, ended : /\ d = cur' /\ tt = strings'[i] /\ k = LastLine(i)' /\ p = ReadPos'
                                   /\ ended = reader'.endOfLine
      OBVIOUS
    <3>2. a < Border => Partial(d, tt, k, p, ended)
      BY <2>1, <2>5, <2>10, <3>1
    <3>3. Partial(d, tt, k, p, ended)' = Partial(d, tt, k, p, ended)
      BY <2>2, SameSections
    <3>4. a < Border => Partial(d, tt, k, p, ended)'
      BY <3>2, <3>3
    <3> QED BY <3>1, <3>4
  <2>13. a < Border => IF reader'.bufferSwitch THEN reader'.endOfLine /\ reader'.lastPos = 0 ELSE InBuffer'
    BY <1>27
  <2>14. cur'.filePos = a
    BY <1>19, <2>1
  <2>15. Len(list'[i]) >= 1
    BY <1>12, <2>1
  <2> QED BY <2>1, <2>2, <2>3, <2>4, <2>11, <2>12, <2>13, <2>14, <2>15 DEF AtWords, LastLine
<1>31. Reading(nr, nl)'
  BY <1>11, <1>30 DEF Reading
<1>32. UNCHANGED <<file, loader, parser, parsed>> /\ Section(buf'[i])
  BY <1>9, <1>17, <1>26
<1> QED BY <1>1, <1>3, <1>21, <1>22, <1>23, <1>31, <1>32, ReaderFrame

----------------------------------------------------------------------------
(* A line ends at the end of a line of the file, behind its words, or with   *)
(* as many words as a line can have.                                       *)
LineOver(l, p, ended, e) ==
  /\ l.nStrings <= MaxArgs /\ p <= e
  /\ \/ e \in LineEnds \cup {Len(file)} /\ NoWordIn(p, e)
     \/ e = p /\ ~ended /\ l.nStrings = MaxArgs

LEMMA LineDone ==
  ASSUME FileOK, NEW b, NEW st, NEW l, NEW p, NEW ended, Partial(b, st, l, p, ended),
         NEW e \in Nat, LineOver(l, p, ended, e)
  PROVE  Complete(b, st, l, e) /\ Fresh(e)
<1>1. l.begin \in Nat /\ p \in Nat /\ l.nStrings \in Nat /\ p <= e /\ l.nStrings <= MaxArgs
  BY DEF Partial, LineOver
<1>2. MaxArgs \in Nat \ {0} /\ Len(file) \in Nat
  BY MaxArgsAssumption, FileChars
<1>3. e \in LineEnds \cup {Len(file)} => Fresh(e)
  BY FreshAfterLine, FreshAtEnd
<1>4. CASE l.nStrings = 0
  <2>1. l.begin = p
    BY <1>4 DEF Partial
  <2>2. e \in LineEnds \cup {Len(file)} /\ NoWordIn(p, e)
    BY <1>2, <1>4 DEF LineOver
  <2>3. Between(FirstWords, p, e) = {}
    <3>1. ASSUME NEW u \in FirstWords, p < u[1], u[1] <= e
          PROVE  FALSE
      <4>1. u \in FileWords
        BY FirstAreWords
      <4>2. u[1] \in Nat
        BY <4>1, WordOfFile
      <4> QED BY <1>1, <2>2, <3>1, <4>1, <4>2 DEF NoWordIn
    <3> QED BY <3>1 DEF Between
  <2> QED BY <1>1, <1>3, <1>4, <2>1, <2>2, <2>3 DEF Complete
<1>5. CASE l.nStrings # 0
  <2>1. PICK w \in FirstWords :
          /\ NextAfter(w, l.begin) /\ w[1] <= p
          /\ LineIs(b, st, l, w)
          /\ \A u \in FileWords : w[1] <= u[1] /\ u[1] <= p => u \in WordsFrom(w)
          /\ Cardinality(UpTo(WordsFrom(w), p)) = l.nStrings
          /\ p = Len(file) \/ \E v \in WordsFrom(w) : p = v[2] + 1
          /\ IF ended THEN p \in LineEnds \cup {Len(file)} ELSE p \notin LineEnds /\ p # Len(file)
    BY <1>5 DEF Partial
  <2>2. /\ w \in FileWords /\ w[1] \in Nat /\ w \in WordsFrom(w)
        /\ WordsFrom(w) \subseteq FileWords /\ UpTo(WordsFrom(w), p) \subseteq FileWords
    <3>1. w \in FileWords
      BY FirstAreWords
    <3>2. w[1] \in Nat
      BY <3>1, WordOfFile
    <3> QED BY <3>1, <3>2, SameLineFacts, WordsFromAreWords DEF WordsFrom, UpTo
  <2>3. l.begin < w[1] /\ \A u \in FileWords : u[1] <= l.begin \/ w[1] <= u[1]
    BY <2>1 DEF NextAfter
  <2>4. Between(FirstWords, l.begin, e) = {w}
    <3>1. w \in Between(FirstWords, l.begin, e)
      BY <1>1, <2>1, <2>2, <2>3 DEF Between
    <3>2. ASSUME NEW u \in FirstWords, l.begin < u[1], u[1] <= e, u # w
          PROVE  FALSE
      <4>1. u \in FileWords
        BY FirstAreWords
      <4>2. u[1] \in Nat
        BY <4>1, WordOfFile
      <4>3. w[1] <= u[1]
        BY <1>1, <2>3, <3>2, <4>1, <4>2
      <4>4. u[1] <= p
        <5>1. CASE e \in LineEnds \cup {Len(file)} /\ NoWordIn(p, e)
          BY <3>2, <4>1, <4>2, <5>1 DEF NoWordIn
        <5>2. CASE e = p
          BY <3>2, <5>2
        <5> QED BY <5>1, <5>2 DEF LineOver
      <4>5. u \in WordsFrom(w)
        BY <2>1, <4>1, <4>3, <4>4
      <4>6. w[1] < u[1]
        BY <2>2, <3>2, <4>1, <4>2, <4>3, WordsEqual
      <4>7. PICK B, U : B = Below(WordsFrom(w), u) /\ U = UpTo(WordsFrom(w), p)
        OBVIOUS
      <4>8. B \subseteq FileWords /\ U \subseteq FileWords /\ B \subseteq U /\ u \in U /\ u \notin B /\ w \in B
        <5>1. u \in U /\ u \notin B /\ w \in B
          BY <2>2, <4>2, <4>4, <4>5, <4>6, <4>7 DEF Below, UpTo
        <5>2. ASSUME NEW v \in B
              PROVE  v \in U
          <6>1. v \in WordsFrom(w) /\ v[1] < u[1]
            BY <4>7 DEF Below
          <6>2. v[1] \in Nat
            BY <2>2, <6>1, WordOfFile
          <6>3. v[1] <= p
            BY <1>1, <4>2, <4>4, <6>1, <6>2
          <6> QED BY <4>7, <6>1, <6>3 DEF UpTo
        <5>3. U \subseteq FileWords
          BY <2>2, <4>7
        <5> QED BY <5>1, <5>2, <5>3
      <4>9. Cardinality(B) < Cardinality(U) /\ Cardinality(B) \in Nat
        BY <4>8, FewerWords, WordsFinite
      <4>10. Cardinality(B) # 0
        <5>1. IsFiniteSet(B)
          BY <4>8, WordsFinite
        <5> QED BY <4>8, <5>1, FS_EmptySet
      <4>11. Cardinality(B) \in 1 .. MaxArgs - 1
        BY <1>1, <1>2, <2>1, <4>7, <4>9, <4>10
      <4>12. Cardinality(Below(WordsFrom(w), u)) \in 1 .. MaxArgs - 1
        BY <4>7, <4>11
      <4> QED BY <4>5, <4>12, NotFirst
    <3> QED BY <3>1, <3>2 DEF Between
  <2>5. l.nStrings = NrWords(w) /\ Fresh(e)
    <3>1. CASE e \in LineEnds \cup {Len(file)} /\ NoWordIn(p, e)
      <4>1. ASSUME NEW u \in WordsFrom(w)
            PROVE  u[1] <= p
        <5>1. u \in FileWords /\ SameLine(u[1], w[1])
          BY DEF WordsFrom
        <5>2. u[1] \in Nat /\ u[1] <= Len(file)
          <6>1. u[1] \in Nat /\ u[2] \in Nat /\ u[1] <= u[2] /\ u[2] <= Len(file)
            BY <5>1, WordOfFile
          <6> QED BY <1>2, <6>1
        <5>3. SUFFICES ASSUME ~(u[1] <= p) PROVE FALSE
          OBVIOUS
        <5>4. e < u[1]
          BY <3>1, <5>1, <5>3 DEF NoWordIn
        <5>5. e \in LineEnds
          BY <1>2, <3>1, <5>2, <5>4
        <5>6. e < w[1]
          BY <5>1, <5>4, <5>5 DEF SameLine
        <5> QED BY <1>1, <2>1, <2>2, <5>6
      <4>2. UpTo(WordsFrom(w), p) = WordsFrom(w)
        BY <4>1 DEF UpTo
      <4>3. Cardinality(WordsFrom(w)) = l.nStrings
        BY <2>1, <4>2
      <4> QED BY <1>1, <1>2, <1>3, <3>1, <4>3 DEF NrWords
    <3>2. CASE e = p /\ ~ended /\ l.nStrings = MaxArgs
      <4>1. Cardinality(UpTo(WordsFrom(w), p)) <= Cardinality(WordsFrom(w))
        BY <2>2, FewerWords DEF UpTo
      <4>2. Cardinality(WordsFrom(w)) \in Nat
        BY <2>2, WordsFinite
      <4>3. NrWords(w) = MaxArgs
        BY <1>2, <2>1, <3>2, <4>1, <4>2 DEF NrWords
      <4>4. PICK v \in WordsFrom(w) : p = v[2] + 1
        BY <2>1, <3>2
      <4>5. Fresh(p)
        BY <2>1, <3>2, <4>4, FreshAfterWords
      <4> QED BY <3>2, <4>3, <4>5
    <3> QED BY <3>1, <3>2 DEF LineOver
  <2>6. l.begin <= e
    BY <1>1, <2>1, <2>2, <2>3
  <2>7. Complete(b, st, l, e)
    BY <1>1, <1>5, <2>1, <2>4, <2>5, <2>6 DEF Complete
  <2> QED BY <2>5, <2>7
<1> QED BY <1>4, <1>5

----------------------------------------------------------------------------
(* Committing the strings of a line makes them the property of the line.    *)
LEMMA LineHeld ==
  ASSUME NEW po, PoolInv(po), po.used + MaxArgs < PoolSize, NEW l, IsLine(l), l.strings = po.next,
         NEW qo, qo = IF l.nStrings > 0 THEN CommitN(po, l.nStrings) ELSE po
  PROVE  PoolInv(qo) /\ Holds(qo, Held(l)) /\ \A e : Holds(po, e) => Holds(qo, e)
<1>1. /\ po.used \in Nat /\ po.memory \in Nat /\ po.next = Pointer(po.memory, po.used) /\ po.next \in PointerType
  BY DEF PoolInv, PoolType
<1>2. l.nStrings \in 0 .. MaxArgs /\ l.nStrings \in Nat
  BY MaxArgsAssumption DEF IsLine
<1>3. PICK n : n = l.nStrings
  OBVIOUS
<1>4. PoolInv(qo) /\ qo.memory = po.memory /\ qo.used = po.used + n /\ \A e : Holds(po, e) => Holds(qo, e)
  <2>1. CASE n > 0
    <3>1. qo = CommitN(po, n) /\ n \in 0 .. MaxArgs
      BY <1>2, <1>3, <2>1
    <3> QED BY <3>1, CommitInv
  <2>2. CASE ~(n > 0)
    <3>1. qo = po /\ n = 0
      BY <1>2, <1>3, <2>2
    <3> QED BY <1>1, <3>1
  <2> QED BY <2>1, <2>2
<1>5. Held(l).argv = po.next /\ Held(l).argc = n
  BY <1>3 DEF Held
<1>6. po.next.chunk = po.memory /\ po.next.at = po.used
  BY <1>1 DEF Pointer
<1>7. Holds(qo, Held(l))
  BY <1>1, <1>2, <1>3, <1>4, <1>5, <1>6 DEF Holds
<1> QED BY <1>4, <1>7

(* Where ReadLine() stops.                                                 *)
EndPos(r) == cur.filePos + (IF r.bufferSwitch THEN cur.nRead ELSE r.lastPos)

LEMMA WhereLineEnds ==
  ASSUME NEW i, reader.curbuf = i, FileOK, Border \in Nat, Section(cur), cur.filePos < Border,
         reader \in ReaderType, AtWords, IsLine(LastLine(i)), ~(MoreWords /\ IsWord),
         NEW r, r = NoMoreWords
  PROVE  /\ EndPos(r) \in Nat
         /\ LineOver(LastLine(i), ReadPos, reader.endOfLine, EndPos(r))
         /\ IF r.bufferSwitch THEN r.lastPos = 0
            ELSE /\ r.lastPos \in 0 .. cur.nRead - 1
                 /\ Intact(cur, r.lastPos)
                 /\ ~IsLetter(EndPos(r))
<1>1. PICK l, a, n, q : l = LastLine(i) /\ a = cur.filePos /\ n = cur.nRead /\ q = reader.lastPos
  OBVIOUS
<1>2. /\ a \in Nat /\ n \in Nat /\ a + n <= Border /\ a + n \in LineEnds \cup {Len(file)}
  BY <1>1 DEF Section
<1>3. Len(file) \in Nat /\ Border <= Len(file)
  BY FileChars, BorderFacts
<1>4. l.nStrings \in 0 .. MaxArgs /\ l.nStrings <= MaxArgs
  BY <1>1, MaxArgsAssumption DEF IsLine
<1>5. /\ IF reader.bufferSwitch THEN reader.endOfLine /\ reader.lastPos = 0 ELSE InBuffer
      /\ Partial(cur, strings[i], l, ReadPos, reader.endOfLine)
  BY <1>1 DEF AtWords
<1>6. ReadPos \in Nat
  BY <1>5 DEF Partial
<1>7. CASE ~MoreWords
  <2>1. r = reader
    BY <1>7 DEF NoMoreWords
  <2>2. EndPos(r) = ReadPos
    BY <2>1 DEF EndPos, ReadPos
  <2>3. LineOver(l, ReadPos, reader.endOfLine, ReadPos)
    <3>1. CASE reader.endOfLine
      <4>1. ReadPos \in LineEnds \cup {Len(file)}
        <5>1. l.nStrings # 0
          BY <1>5, <3>1 DEF Partial
        <5> QED BY <1>5, <3>1, <5>1 DEF Partial
      <4>2. NoWordIn(ReadPos, ReadPos)
        <5>1. ASSUME NEW w \in FileWords
              PROVE  w[1] <= ReadPos \/ ReadPos < w[1]
          <6>1. w[1] \in Nat
            BY WordOfFile
          <6> QED BY <1>6, <6>1
        <5> QED BY <5>1 DEF NoWordIn
      <4> QED BY <1>4, <1>6, <4>1, <4>2 DEF LineOver
    <3>2. CASE ~reader.endOfLine
      <4>1. ~(l.nStrings < MaxArgs)
        BY <1>1, <1>7, <3>2 DEF MoreWords
      <4>2. l.nStrings = MaxArgs
        BY <1>4, <4>1, MaxArgsAssumption
      <4> QED BY <1>4, <1>6, <3>2, <4>2 DEF LineOver
    <3> QED BY <3>1, <3>2
  <2>4. ~r.bufferSwitch => /\ r.lastPos \in 0 .. cur.nRead - 1 /\ Intact(cur, r.lastPos)
                           /\ ~IsLetter(ReadPos)
    BY <1>5, <2>1 DEF InBuffer
  <2> QED BY <1>1, <1>5, <1>6, <2>1, <2>2, <2>3, <2>4
<1>8. CASE MoreWords
  <2>1. ~IsWord /\ reader.endOfLine = FALSE
    BY <1>8 DEF MoreWords, ReaderType
  <2>2. InBuffer
    BY <1>5, <2>1
  <2>3. ReadsFrom(a, n, q) /\ ReadPos = a + q /\ ~reader.bufferSwitch /\ q \in 0 .. n - 1 /\ Intact(cur, q)
    BY <1>1, <2>2, ReadsHere DEF InBuffer
  <2>4. CASE /\ OnlySpace
             /\ WordBegin = n /\ a + n = Len(file)
             /\ NoWordIn(a + q, a + n)
    <3>1. r = AtPos(WordBegin, TRUE)
      BY <1>8, <2>4 DEF NoMoreWords
    <3>2. WordBegin >= cur.nRead
      BY <1>1, <1>2, <2>4
    <3>3. r.bufferSwitch /\ r.lastPos = 0
      BY <3>1, <3>2 DEF AtPos, ReaderType
    <3>4. EndPos(r) = a + n
      BY <1>1, <3>3 DEF EndPos
    <3>5. a + n \in Nat /\ a + q <= a + n
      BY <1>2, <2>3
    <3>6. LineOver(l, a + q, reader.endOfLine, a + n)
      BY <1>2, <1>4, <2>4, <3>5 DEF LineOver
    <3> QED BY <1>1, <2>3, <3>3, <3>4, <3>5, <3>6
  <2>5. CASE /\ ~OnlySpace
             /\ WordBegin \in q .. n - 1
             /\ a + WordBegin + 1 \in LineEnds
             /\ NoWordIn(a + q, a + WordBegin + 1)
    <3>1. PICK wb : wb = WordBegin
      OBVIOUS
    <3>2. r = AtPos(wb + 1, FALSE)
      BY <1>8, <2>1, <2>5, <3>1 DEF NoMoreWords
    <3>3. wb \in Nat /\ q <= wb /\ wb < n /\ q \in Nat
      BY <1>2, <2>3, <2>5, <3>1
    <3>4. /\ r.bufferSwitch <=> wb + 1 >= n
          /\ r.lastPos = IF wb + 1 >= n THEN 0 ELSE wb + 1
      <4>1. CASE wb + 1 >= n
        BY <1>1, <3>2, <4>1 DEF AtPos, ReaderType
      <4>2. CASE ~(wb + 1 >= n)
        BY <1>1, <2>3, <3>2, <4>2 DEF AtPos, ReaderType
      <4> QED BY <4>1, <4>2
    <3>5. EndPos(r) = a + wb + 1
      <4>1. CASE wb + 1 >= n
        <5>1. EndPos(r) = a + n
          BY <1>1, <3>4, <4>1 DEF EndPos
        <5> QED BY <1>2, <3>3, <4>1, <5>1
      <4>2. CASE ~(wb + 1 >= n)
        <5>1. EndPos(r) = a + (wb + 1)
          BY <1>1, <3>4, <4>2 DEF EndPos
        <5> QED BY <1>2, <3>3, <5>1
      <4> QED BY <4>1, <4>2
    <3>6. a + wb + 1 \in LineEnds /\ NoWordIn(a + q, a + wb + 1) /\ a + wb + 1 \in Nat /\ a + q <= a + wb + 1
      BY <1>2, <2>5, <3>1, <3>3
    <3>7. LineOver(l, a + q, reader.endOfLine, a + wb + 1)
      BY <1>4, <3>6 DEF LineOver
    <3>8. ~IsLetter(a + wb + 1)
      BY <3>6, LineEndFacts
    <3>9. ASSUME ~(wb + 1 >= n)
          PROVE  wb + 1 \in 0 .. cur.nRead - 1 /\ Intact(cur, wb + 1)
      <4>1. wb + 1 \in 0 .. n - 1
        BY <1>2, <3>3, <3>9
      <4>2. \A p \in wb + 1 .. n - 1 : p \in q .. n - 1
        BY <3>3
      <4> QED BY <1>1, <2>3, <4>1, <4>2 DEF Intact
    <3> QED BY <1>1, <2>3, <3>4, <3>5, <3>6, <3>7, <3>8, <3>9
  <2> QED BY <2>1, <2>3, <2>4, <2>5, NoWordFound
<1> QED BY <1>7, <1>8

----------------------------------------------------------------------------
LEMMA NoMoreWordsType ==
  ASSUME reader \in ReaderType, reader.pc = "words", NEW r, r = NoMoreWords
  PROVE  /\ r = [reader EXCEPT !.lastPos = r.lastPos, !.bufferSwitch = r.bufferSwitch, !.endOfLine = r.endOfLine]
         /\ r.bufferSwitch \in BOOLEAN /\ r.endOfLine \in BOOLEAN
         /\ r.pc = "words" /\ r.curbuf = reader.curbuf
<1>1. CASE r = reader
  BY <1>1 DEF ReaderType
<1>2. ASSUME NEW p, NEW e \in BOOLEAN, r = AtPos(p, e)
      PROVE  /\ r = [reader EXCEPT !.lastPos = r.lastPos, !.bufferSwitch = r.bufferSwitch, !.endOfLine = r.endOfLine]
             /\ r.bufferSwitch \in BOOLEAN /\ r.endOfLine \in BOOLEAN
             /\ r.pc = "words" /\ r.curbuf = reader.curbuf
  <2>1. CASE r = [reader EXCEPT !.lastPos = 0, !.bufferSwitch = TRUE, !.endOfLine = TRUE]
    BY <2>1 DEF ReaderType
  <2>2. CASE r = [reader EXCEPT !.lastPos = p, !.endOfLine = e]
    BY <1>2, <2>2 DEF ReaderType
  <2> QED BY <1>2, <2>1, <2>2 DEF AtPos
<1>3. r = reader \/ r = AtPos(WordBegin, TRUE) \/ r = AtPos(WordBegin + 1, FALSE)
  BY DEF NoMoreWords
<1> QED BY <1>1, <1>2, <1>3

LEMMA EndLineCut ==
  ASSUME NEW np, NEW nr, NEW nl, Cut(np, nr, nl), Inv, EndLine
  PROVE  \E mr \in Nat : Cut(np, mr, nl)'
<1>1. PICK i : i = Place(nr)
  OBVIOUS
<1>2. reader.pc = "words" /\ ~(MoreWords /\ IsWord)
  BY DEF EndLine
<1>3. np \in Nat /\ nr \in Nat /\ nl \in Nat /\ nr < nl /\ reader.curbuf = i
  BY <1>1, <1>2 DEF Cut, Ring
<1>4. /\ i \in Slots /\ cur = buf[i] /\ cur \in BufferType /\ Section(cur)
      /\ cur.filePos \in Nat /\ cur.nRead \in Nat
      /\ Pos(nr + 1, nl) = cur.filePos + cur.nRead
      /\ PoolInv(strPool[i]) /\ FileOK /\ Border \in Nat /\ IsSeq(list[i])
  BY <1>1, <1>3, ReaderSlot DEF cur
<1>5. AtWords
  BY <1>2 DEF Cut, Reading
<1>6. PICK l, r, a, n, m : /\ l = LastLine(i) /\ r = NoMoreWords /\ a = cur.filePos /\ n = cur.nRead
                          /\ m = Len(list[i])
  OBVIOUS
<1>7. PICK qo : qo = IF l.nStrings > 0 THEN CommitN(strPool[i], l.nStrings) ELSE strPool[i]
  OBVIOUS
<1>8. /\ UNCHANGED <<file, loader, parser, parsed, list, strings>>
      /\ strPool' = [strPool EXCEPT ![i] = qo]
      /\ IF r.bufferSwitch
         THEN /\ EndProduceBuffer(i)
              /\ reader' = IF cur.eof THEN [r EXCEPT !.pc = "done"]
                           ELSE [r EXCEPT !.curbuf = Slot(i), !.bufferSwitch = FALSE, !.pc = "begin"]
         ELSE /\ reader' = [r EXCEPT !.pc = "line"]
              /\ UNCHANGED <<buf, isEmpty>>
  BY <1>3, <1>6, <1>7 DEF EndLine, parseVars
<1>9. /\ reader \in ReaderType /\ buf \in [Slots -> BufferType] /\ DOMAIN isEmpty = Slots
      /\ DOMAIN strPool = Slots
  BY DEF Cut, Shapes
<1>10. /\ r = [reader EXCEPT !.lastPos = r.lastPos, !.bufferSwitch = r.bufferSwitch, !.endOfLine = r.endOfLine]
       /\ r.bufferSwitch \in BOOLEAN /\ r.endOfLine \in BOOLEAN
       /\ r.pc = "words" /\ r.curbuf = i
  BY <1>2, <1>3, <1>6, <1>9, NoMoreWordsType
<1>11. /\ IsLine(l) /\ m \in Nat /\ m >= 1 /\ l = list[i][m]
       /\ l.strings = strPool[i].next /\ strPool[i].used + MaxArgs < PoolSize
  <2>1. m \in Nat /\ m >= 1
    BY <1>3, <1>4, <1>5, <1>6, SeqShape DEF AtWords
  <2>2. m \in 1 .. Len(list[i])
    BY <1>6, <2>1
  <2>3. l.strings = strPool[i].next /\ strPool[i].used + MaxArgs < PoolSize
    BY <1>3, <1>5, <1>6 DEF AtWords
  <2> QED BY <1>4, <1>6, <2>1, <2>2, <2>3 DEF Inv, LinesInv, LastLine
<1>12. PoolInv(qo) /\ Holds(qo, Held(l)) /\ \A e : Holds(strPool[i], e) => Holds(qo, e)
  BY <1>4, <1>7, <1>11, LineHeld
<1>13. /\ strPool'[i] = qo /\ DOMAIN strPool' = Slots
       /\ \A j \in Slots : j # i => strPool'[j] = strPool[j]
  BY <1>4, <1>8, <1>9
<1>14. PICK e : e = EndPos(r)
  OBVIOUS
<1>15. ASSUME a < Border
       PROVE  /\ e \in Nat /\ Fresh(e)
              /\ Chain(cur, strings[i], qo, list[i], m, e)
              /\ IF r.bufferSwitch THEN r.lastPos = 0 /\ e = a + n
                 ELSE /\ r.lastPos \in 0 .. n - 1 /\ Intact(cur, r.lastPos)
                      /\ ~IsLetter(e) /\ e = a + r.lastPos
  <2>1. /\ e \in Nat /\ LineOver(l, ReadPos, reader.endOfLine, e)
        /\ IF r.bufferSwitch THEN r.lastPos = 0
           ELSE /\ r.lastPos \in 0 .. n - 1 /\ Intact(cur, r.lastPos)
                /\ ~IsLetter(e)
    BY <1>2, <1>3, <1>4, <1>5, <1>6, <1>9, <1>11, <1>14, <1>15, WhereLineEnds
  <2>2. /\ Chain(cur, strings[i], strPool[i], list[i], m - 1, l.begin)
        /\ Partial(cur, strings[i], l, ReadPos, reader.endOfLine)
    BY <1>3, <1>5, <1>6, <1>15 DEF AtWords, CurChain
  <2>3. Complete(cur, strings[i], l, e) /\ Fresh(e)
    BY <1>4, <2>1, <2>2, LineDone
  <2>4. Chain(cur, strings[i], qo, list[i], m, e)
    <3>1. PICK k, ls : k = m - 1 /\ ls = list[i]
      OBVIOUS
    <3>2. k \in Nat /\ k + 1 = m /\ l = ls[k + 1]
      BY <1>11, <3>1
    <3>3. MoreEnded(cur, cur) /\ MoreStrings(strPool[i], strings[i], strings[i])
      BY DEF MoreEnded, MoreStrings
    <3>4. Chain(cur, strings[i], qo, ls, k, l.begin)
      BY <1>4, <1>12, <2>2, <3>1, <3>2, <3>3, ChainStays
    <3>5. Chain(cur, strings[i], qo, ls, k + 1, e)
      <4>1. PICK b, st : b = cur /\ st = strings[i]
        OBVIOUS
      <4>2. /\ Chain(b, st, qo, ls, k, ls[k + 1].begin) /\ Complete(b, st, ls[k + 1], e)
            /\ Holds(qo, Held(ls[k + 1])) /\ k \in Nat /\ e \in Nat
        BY <1>12, <2>1, <2>3, <3>2, <3>4, <4>1
      <4>3. Chain(b, st, qo, ls, k + 1, e)
        BY ONLY <4>2, ChainGrows
      <4> QED BY <4>1, <4>3
    <3> QED BY <3>1, <3>2, <3>5
  <2>5. e = a + (IF r.bufferSwitch THEN n ELSE r.lastPos)
    BY <1>6, <1>14 DEF EndPos
  <2> QED BY <2>1, <2>3, <2>4, <2>5
<1>16. Border' = Border /\ NoEnd' = NoEnd /\ \A p : IsLetter(p)' = IsLetter(p) /\ Fresh(p)' = Fresh(p)
  BY <1>8, SameLetters
<1>17. NoEnd = {} => a < Border
  BY <1>5, <1>6 DEF AtWords
<1>18. CASE r.bufferSwitch
  <2>1. /\ buf' = [buf EXCEPT ![i].state = "TOKENIZED"]
        /\ isEmpty' = [isEmpty EXCEPT ![i] = FALSE]
    BY <1>8, <1>18 DEF EndProduceBuffer
  <2>2. /\ \A j \in Slots : buf'[j] = IF j = i THEN [buf[j] EXCEPT !.state = "TOKENIZED"] ELSE buf[j]
        /\ buf' \in [Slots -> BufferType]
    BY <1>9, <2>1 DEF BufferType
  <2>3. buf'[i].state = "TOKENIZED" /\ SameData(cur, buf'[i])
    <3>1. buf'[i] = [cur EXCEPT !.state = "TOKENIZED"]
      BY <1>4, <2>2
    <3> QED BY <1>4, <3>1, StateOnly
  <2>4. SamePlaces
    BY <1>4, <1>8, <2>2, <2>3 DEF SamePlaces, SameData
  <2>5. OnlyThis(i)
    BY <1>8, <1>9, <1>13, <2>1, <2>2 DEF OnlyThis
  <2>6. Section(buf'[i])
    BY <1>4, <2>3, SectionStays
  <2>7. TokensOf(i)'
    <3>1. buf'[i].filePos = a /\ buf'[i].nRead = n
      BY <1>6, <2>3 DEF SameData
    <3>2. ASSUME a < Border
          PROVE  Chain(buf[i], strings[i], strPool[i], list[i], Len(list[i]), buf[i].filePos + buf[i].nRead)'
      <4>1. Chain(cur, strings[i], qo, list[i], m, a + n)
        BY <1>15, <1>18, <3>2
      <4>2. MoreEnded(cur, buf'[i]) /\ MoreStrings(qo, strings[i], strings[i])
        BY <2>3, SectionStays DEF MoreStrings
      <4>3. \A d : Holds(qo, d) => Holds(qo, d)
        OBVIOUS
      <4>4. Chain(buf'[i], strings[i], qo, list[i], m, a + n)
        BY <1>11, <1>12, <4>1, <4>2, <4>3, ChainStays
      <4>5. Chain(buf'[i], strings'[i], strPool'[i], list'[i], Len(list'[i]), buf'[i].filePos + buf'[i].nRead)
        BY <1>6, <1>8, <1>13, <3>1, <4>4
      <4> QED BY <1>8, <4>5, SameSections
    <3>3. (buf[i].filePos < Border)' => a < Border
      BY <1>16, <3>1
    <3>4. (NoEnd = {} /\ buf[i].filePos >= Border)' => FALSE
      BY <1>4, <1>6, <1>16, <1>17, <3>1
    <3> QED BY <3>2, <3>3, <3>4 DEF TokensOf
  <2>8. /\ reader' \in ReaderType'
        /\ reader'.pc = IF cur.eof THEN "done" ELSE "begin"
        /\ reader'.pc = "begin" => /\ reader'.curbuf = Slot(i) /\ reader'.lastPos = r.lastPos
                                   /\ reader'.bufferSwitch = FALSE
    <3>1. Slot(i) \in Slots
      BY <1>1, <1>3, PlaceFacts
    <3>2. CASE cur.eof
      BY <1>8, <1>9, <1>10, <1>18, <3>2 DEF ReaderType
    <3>3. CASE ~cur.eof
      BY <1>8, <1>9, <1>10, <1>18, <3>1, <3>3 DEF ReaderType
    <3> QED BY <3>2, <3>3
  <2>9. HandsOver(i)
    <3>1. isEmpty'[i] = FALSE
      BY <1>4, <1>9, <2>1
    <3> QED BY <2>3, <2>7, <2>8, <3>1 DEF HandsOver
  <2>10. Shapes'
    <3>1. DOMAIN isEmpty' = Slots
      BY <1>9, <2>1
    <3> QED BY <1>8, <1>12, <1>13, <2>2, <2>8, <3>1 DEF Cut, Shapes, FileOK
  <2>11. PICK mr : mr = nr + 1
    OBVIOUS
  <2>12. Reading(mr, nl)'
    <3>1. Pos(mr, nl)' = a + n
      <4>1. mr \in Nat
        BY <1>3, <2>11
      <4>2. Pos(mr, nl)' = Pos(mr, nl)
        BY <2>4, <4>1, PosStays
      <4> QED BY <1>4, <1>6, <2>11, <4>2
    <3>2. ASSUME reader'.pc = "begin", a + n < Border
          PROVE  reader'.lastPos = 0 /\ ~reader'.bufferSwitch /\ Fresh(a + n) /\ ~IsLetter(a + n)
      <4>1. a < Border /\ a + n \in Nat
        BY <1>4, <1>6, <3>2
      <4>2. r.lastPos = 0 /\ Fresh(a + n)
        BY <1>15, <1>18, <4>1
      <4>3. a + n \in LineEnds
        <5>1. a + n \in LineEnds \cup {Len(file)}
          BY <1>4, <1>6, <4>1 DEF Section
        <5>2. Border <= Len(file) /\ Len(file) \in Nat
          BY <1>4, BorderFacts, FileChars
        <5> QED BY <1>4, <3>2, <4>1, <5>1, <5>2
      <4> QED BY <1>4, <2>8, <3>2, <4>2, <4>3, LineEndFacts
    <3>3. ASSUME reader'.pc = "begin"
          PROVE  AtBegin(mr, nl)'
      BY <1>16, <3>1, <3>2, <3>3 DEF AtBegin
    <3> QED BY <2>8, <3>3 DEF Reading
  <2>13. Cut(np, mr, nl)'
    BY <1>1, <1>3, <1>8, <2>4, <2>5, <2>6, <2>9, <2>10, <2>11, <2>12, ReaderFrame
  <2> QED BY <1>3, <2>11, <2>13
<1>19. CASE ~r.bufferSwitch
  <2>1. reader' = [r EXCEPT !.pc = "line"] /\ UNCHANGED <<buf, isEmpty>>
    BY <1>8, <1>19
  <2>2. /\ reader' \in ReaderType' /\ reader'.pc = "line" /\ reader'.curbuf = i
        /\ reader'.lastPos = r.lastPos /\ reader'.bufferSwitch = r.bufferSwitch
    BY <1>9, <1>10, <2>1 DEF ReaderType
  <2>3. SamePlaces /\ OnlyThis(i)
    BY <1>8, <1>13, <2>1 DEF SamePlaces, OnlyThis
  <2>4. Section(buf'[i]) /\ GoesOn(i)
    BY <1>4, <2>1, <2>2 DEF GoesOn
  <2>5. Shapes'
    BY <1>8, <1>12, <1>13, <2>1, <2>2 DEF Cut, Shapes, FileOK
  <2>6. AtLine'
    <3>1. cur' = cur
      BY <1>4, <2>1, <2>2 DEF cur
    <3>2. ASSUME a < Border
          PROVE  InBuffer' /\ Fresh(ReadPos)' /\ CurChain(Len(list[reader.curbuf]), ReadPos)'
      <4>1. /\ e \in Nat /\ Fresh(e) /\ Chain(cur, strings[i], qo, list[i], m, e)
            /\ r.lastPos \in 0 .. n - 1 /\ Intact(cur, r.lastPos)
            /\ ~IsLetter(e) /\ e = a + r.lastPos
        BY <1>15, <1>19, <3>2
      <4>2. ReadPos' = e
        BY <1>6, <1>19, <2>2, <3>1, <4>1 DEF ReadPos
      <4>3. InBuffer'
        BY <1>6, <1>16, <1>19, <2>2, <3>1, <4>1, <4>2 DEF InBuffer
      <4>4. CurChain(Len(list[reader.curbuf]), ReadPos)'
        <5>1. Chain(cur', strings'[i], strPool'[i], list'[i], Len(list'[i]), ReadPos')
          BY <1>6, <1>8, <1>13, <3>1, <4>1, <4>2
        <5> QED BY <1>8, <2>2, <5>1, SameSections DEF CurChain
      <4> QED BY <1>16, <4>1, <4>2, <4>3, <4>4
    <3> QED BY <1>6, <1>16, <1>17, <3>1, <3>2 DEF AtLine
  <2>7. Reading(nr, nl)'
    BY <2>2, <2>6 DEF Reading
  <2>8. Cut(np, nr, nl)'
    BY <1>1, <1>3, <1>8, <2>3, <2>4, <2>5, <2>7, ReaderFrame
  <2> QED BY <1>3, <2>8
<1> QED BY <1>18, <1>19

----------------------------------------------------------------------------
(* A read() of n bytes: the last line end among them is the byte last.      *)
ReadBytes(n, last) ==
  /\ n \in Nat /\ n <= BufSize /\ loader.fd + n <= Len(file)
  /\ n < BufSize => loader.fd + n = Len(file)
  /\ RawBytes = [k \in 1 .. n |-> loader.fd + k]
  /\ last \in 0 .. n
  /\ last = 0 \/ loader.fd + last \in LineEnds
  /\ \A e \in LineEnds : ~(loader.fd + last < e /\ e <= loader.fd + n)
  /\ UnfinishedLine(RawBytes) = [k \in 1 .. n - last |-> loader.fd + last + k]

LEMMA WhatIsRead ==
  ASSUME FileOK, loader.fd \in Nat, loader.fd <= Len(file)
  PROVE  \E n, last \in Nat : ReadBytes(n, last)
<1> DEFINE rest == IF Len(file) - loader.fd < BufSize THEN Len(file) - loader.fd ELSE BufSize
<1>1. PICK fd : fd = loader.fd
  OBVIOUS
<1>2. Len(file) \in Nat /\ fd \in Nat /\ fd <= Len(file) /\ BufSize \in Nat /\ BufSize > 0
  BY <1>1, FileChars, BufSizeAssumption
<1>3. PICK n : n = rest
  OBVIOUS
<1>4. /\ n \in Nat /\ n <= BufSize /\ fd + n <= Len(file) /\ (n < BufSize => fd + n = Len(file))
  BY <1>1, <1>2, <1>3
<1>5. RawBytes = [k \in 1 .. n |-> fd + k]
  BY <1>1, <1>3 DEF RawBytes
<1> HIDE DEF rest
<1>6. PICK raw : raw = RawBytes
  OBVIOUS
<1>7. Len(raw) = n /\ \A k \in 1 .. n : raw[k] = fd + k
  BY <1>4, <1>5, <1>6
<1> DEFINE ends == {k \in 0 .. Len(raw) : k = 0 \/ file[raw[k]] = Newline}
<1>8. 0 \in ends /\ ends \subseteq Int /\ \A x \in ends : x <= n
  BY <1>4, <1>7
<1>9. \A k \in 1 .. n : k \in ends <=> fd + k \in LineEnds
  BY <1>2, <1>4, <1>7 DEF LineEnds, Bytes
<1>10. UnfinishedLine(raw) = SubSeq(raw, (CHOOSE k \in ends : \A j \in ends : j <= k) + 1, Len(raw))
  BY DEF UnfinishedLine
<1>11. ends \subseteq 0 .. n
  BY <1>7
<1> HIDE DEF ends
<1>12. PICK last : last = CHOOSE k \in ends : \A j \in ends : j <= k
  OBVIOUS
<1>13. last \in ends /\ \A j \in ends : j <= last
  <2>1. \E u \in ends : \A v \in ends : v <= u
    <3>1. n \in Int
      BY <1>4
    <3> QED BY <1>8, <3>1, Greatest
  <2> QED BY <1>12, <2>1
<1>14. last \in 0 .. n /\ (last = 0 \/ fd + last \in LineEnds)
  BY <1>9, <1>11, <1>13
<1>15. ASSUME NEW e \in LineEnds, fd + last < e, e <= fd + n
       PROVE  FALSE
  <2>1. e \in Nat
    BY LineEndFacts
  <2>2. PICK k : k = e - fd
    OBVIOUS
  <2>3. k \in 1 .. n /\ fd + k = e /\ ~(k <= last)
    BY <1>2, <1>4, <1>14, <1>15, <2>1, <2>2
  <2> QED BY <1>9, <1>13, <2>3
<1>16. UnfinishedLine(raw) = [k \in 1 .. n - last |-> fd + last + k]
  <2>1. UnfinishedLine(raw) = SubSeq(raw, last + 1, n)
    BY <1>7, <1>10, <1>12
  <2>2. raw = [k \in 1 .. n |-> fd + k]
    BY <1>5, <1>6
  <2>3. SubSeq(raw, last + 1, n) = [k \in 1 .. n - last |-> raw[last + k]]
    <3>1. PICK m : m = last + 1
      OBVIOUS
    <3>2. m \in Int /\ n \in Int /\ \A i \in m .. n : raw[i] \in Nat
      BY <1>2, <1>4, <1>7, <1>14, <3>1
    <3>3. PICK t : t = SubSeq(raw, m, n)
      OBVIOUS
    <3>4. /\ t \in Seq(Nat)
          /\ Len(t) = IF m <= n THEN n - m + 1 ELSE 0
          /\ \A i \in 1 .. n - m + 1 : t[i] = raw[m + i - 1]
      BY <3>2, <3>3, SubSeqProperties
    <3>5. n - m + 1 = n - last /\ \A k \in 1 .. n - last : m + k - 1 = last + k
      BY <1>4, <1>14, <3>1
    <3>6. Len(t) = n - last /\ \A k \in 1 .. n - last : t[k] = raw[last + k]
      BY <1>4, <1>14, <3>1, <3>4, <3>5
    <3>7. t = [k \in 1 .. Len(t) |-> t[k]]
      BY <3>4
    <3> QED BY <3>1, <3>3, <3>6, <3>7
  <2>4. \A k \in 1 .. n - last : raw[last + k] = fd + last + k
    BY <1>2, <1>4, <1>7, <1>14
  <2> QED BY <2>1, <2>3, <2>4
<1>17. ReadBytes(n, last)
  BY <1>1, <1>2, <1>4, <1>5, <1>6, <1>14, <1>15, <1>16 DEF ReadBytes
<1> QED BY <1>4, <1>14, <1>17

(* A read() without a line end, and those after the one with the last.      *)
LEMMA NoEndIs ==
  ASSUME FileOK, loader.fd \in Nat, loader.fd < Len(file), loader.fd % BufSize = 0,
         NEW n, NEW last, ReadBytes(n, last)
  PROVE  /\ loader.fd \in NoEnd => last = 0
         /\ loader.fd \notin NoEnd => /\ last > 0
                                      /\ \A p \in NoEnd : loader.fd <= p => loader.fd + BufSize <= p
<1>1. PICK fd : fd = loader.fd
  OBVIOUS
<1>2. /\ Len(file) \in Nat /\ fd \in Nat /\ BufSize \in Nat \ {0} /\ fd < Len(file)
      /\ n \in Nat /\ last \in 0 .. n /\ n <= BufSize /\ (n < BufSize => fd + n = Len(file))
  BY <1>1, FileChars, BufSizeAssumption DEF ReadBytes
<1>3. fd \in Reads
  BY <1>1, <1>2 DEF Reads
<1>4. /\ last = 0 \/ fd + last \in LineEnds
      /\ \A e \in LineEnds : ~(fd + last < e /\ e <= fd + n)
  BY <1>1 DEF ReadBytes
<1>5. \A e \in LineEnds : e \in Nat /\ e <= Len(file)
  BY LineEndFacts
<1>6. ASSUME fd \in NoEnd
      PROVE  last = 0
  <2>1. \A e \in LineEnds : e <= fd \/ e > fd + BufSize
    BY <1>6 DEF NoEnd
  <2> QED BY <1>2, <1>4, <2>1
<1>7. ASSUME fd \notin NoEnd
      PROVE  last > 0
  <2>1. PICK e \in LineEnds : ~(e <= fd \/ e > fd + BufSize)
    BY <1>3, <1>7 DEF NoEnd
  <2>2. e > fd /\ e <= fd + n
    BY <1>2, <1>5, <2>1
  <2> QED BY <1>2, <1>4, <1>5, <2>2
<1>8. ASSUME fd \notin NoEnd, NEW p \in NoEnd, fd <= p
      PROVE  fd + BufSize <= p
  <2>1. p \in Nat /\ p % BufSize = 0
    BY <1>2 DEF NoEnd, Reads
  <2>2. fd < p
    BY <1>2, <1>8, <2>1
  <2>3. fd % BufSize = 0
    BY <1>1
  <2> QED BY <1>2, <2>1, <2>2, <2>3, ModApart
<1> QED BY <1>1, <1>6, <1>7, <1>8

----------------------------------------------------------------------------
(* The buffer b that a read() of n bytes fills.                            *)
Filled(b, n, last) ==
  LET d == Len(loader.lineBegin) IN
  /\ b.buffer = BufSize - d /\ b.nRead = d + last
  /\ b.filePos = loader.filePos /\ (b.eof <=> n = 0)
  /\ \A p \in 0 .. d - 1 : b.memory[BufSize - d + p] = loader.lineBegin[p + 1]
  /\ \A p \in d .. d + n - 1 : b.memory[BufSize - d + p] = loader.fd + (p - d) + 1

LoaderType == [i: Slots, fd: Nat, filePos: Nat, lineBegin: Seq(Nat), pc: {"run", "done", "abort"}]

LEMMA ProduceBufferSteps ==
  ASSUME NEW np, NEW nr, NEW nl, Cut(np, nr, nl), ProduceBuffer
  PROVE  \E n, last \in Nat :
           /\ ReadBytes(n, last)
           /\ \E b \in BufferType : /\ buf' = [buf EXCEPT ![loader.i] = b]
                                    /\ b.state = "LOADED" /\ Filled(b, n, last)
           /\ loader' = [i |-> Slot(loader.i), fd |-> loader.fd + n,
                         filePos |-> loader.filePos + Len(loader.lineBegin) + last,
                         lineBegin |-> [k \in 1 .. n - last |-> loader.fd + last + k],
                         pc |-> IF n = 0 THEN "done" ELSE "run"]
<1>1. /\ FileOK /\ loader \in LoaderType /\ buf \in [Slots -> BufferType]
      /\ loader.fd <= Len(file) /\ BufSize \in Nat \ {0}
  BY BufSizeAssumption DEF Cut, Shapes, Loaded, LoaderType
<1>2. /\ loader.fd \in Nat /\ loader.i \in Slots /\ loader.filePos \in Nat /\ IsSeq(loader.lineBegin)
      /\ \A k \in 1 .. Len(loader.lineBegin) : loader.lineBegin[k] \in Nat
      /\ Len(loader.lineBegin) \in Nat
  BY <1>1 DEF LoaderType, IsSeq
<1>3. PICK n \in Nat, last \in Nat : ReadBytes(n, last)
  BY <1>1, <1>2, WhatIsRead
<1>4. PICK raw, rest, d : raw = RawBytes /\ rest = UnfinishedLine(RawBytes) /\ d = Len(loader.lineBegin)
  OBVIOUS
<1>5. /\ raw = [k \in 1 .. n |-> loader.fd + k] /\ rest = [k \in 1 .. n - last |-> loader.fd + last + k]
      /\ last <= n /\ n <= BufSize
  BY <1>4, <1>3 DEF ReadBytes
<1>6. Len(raw) = n /\ Len(rest) = n - last /\ (raw = <<>> <=> n = 0)
  BY <1>3, <1>5
<1>7. PICK b : b = [memory  |-> [p \in Cells |-> IF p \in BufSize - d .. BufSize - 1
                                                THEN loader.lineBegin[p - (BufSize - d) + 1]
                                                ELSE IF p \in BufSize .. BufSize + Len(raw) - 1
                                                     THEN raw[p - BufSize + 1]
                                                ELSE buf[loader.i].memory[p]],
                   buffer  |-> BufSize - d,
                   nRead   |-> d + Len(raw) - Len(rest),
                   filePos |-> loader.filePos,
                   eof     |-> raw = <<>>,
                   state   |-> "LOADED"]
  OBVIOUS
<1>8. buf' = [buf EXCEPT ![loader.i] = b] /\ d < BufSize
  BY <1>4, <1>7 DEF ProduceBuffer
<1>9. loader' = [i |-> Slot(loader.i), fd |-> loader.fd + n,
                 filePos |-> loader.filePos + d + last,
                 lineBegin |-> rest, pc |-> IF n = 0 THEN "done" ELSE "run"]
  <2>1. loader' = [i |-> Slot(loader.i), fd |-> loader.fd + Len(raw),
                   filePos |-> loader.filePos + (d + Len(raw) - Len(rest)),
                   lineBegin |-> rest, pc |-> IF raw = <<>> THEN "done" ELSE "run"]
    BY <1>4 DEF ProduceBuffer
  <2>2. loader.filePos + (d + Len(raw) - Len(rest)) = loader.filePos + d + last
    BY <1>2, <1>3, <1>4, <1>5, <1>6
  <2> QED BY <1>6, <2>1, <2>2
<1>10. d \in Nat /\ d < BufSize
  BY <1>2, <1>4, <1>8
<1>11. \A p \in Cells : b.memory[p] = IF p \in BufSize - d .. BufSize - 1
                                     THEN loader.lineBegin[p - (BufSize - d) + 1]
                                     ELSE IF p \in BufSize .. BufSize + n - 1
                                          THEN loader.fd + (p - BufSize + 1)
                                     ELSE buf[loader.i].memory[p]
  <2>1. ASSUME NEW p \in Cells, p \in BufSize .. BufSize + n - 1
        PROVE  raw[p - BufSize + 1] = loader.fd + (p - BufSize + 1)
    BY <1>1, <1>3, <1>5, <2>1
  <2> QED BY <1>6, <1>7, <2>1
<1>12. b.memory \in [Cells -> Nat]
  <2>1. \A p \in Cells : buf[loader.i].memory[p] \in Nat
    BY <1>1, <1>2 DEF BufferType
  <2>2. ASSUME NEW p \in Cells, p \in BufSize - d .. BufSize - 1
        PROVE  loader.lineBegin[p - (BufSize - d) + 1] \in Nat
    <3>1. p - (BufSize - d) + 1 \in 1 .. d
      BY <1>1, <1>10, <2>2
    <3> QED BY <1>2, <1>4, <3>1
  <2>3. ASSUME NEW p \in Cells, p \in BufSize .. BufSize + n - 1
        PROVE  loader.fd + (p - BufSize + 1) \in Nat
    BY <1>1, <1>2, <1>3, <2>3
  <2>4. \A p \in Cells : b.memory[p] \in Nat
    BY <1>11, <2>1, <2>2, <2>3
  <2>5. b.memory = [p \in Cells |-> b.memory[p]]
    BY <1>7
  <2> QED BY <2>4, <2>5
<1>13. b \in BufferType /\ b.state = "LOADED"
  <2>1. b.buffer \in Int /\ b.nRead \in Int /\ b.filePos \in Int /\ b.eof \in BOOLEAN /\ b.state = "LOADED"
    BY <1>1, <1>2, <1>3, <1>5, <1>6, <1>7, <1>10
  <2>2. b = [memory |-> b.memory, buffer |-> b.buffer, nRead |-> b.nRead, filePos |-> b.filePos,
             eof |-> b.eof, state |-> b.state]
    BY <1>7
  <2> QED BY <1>12, <2>1, <2>2 DEF BufferType
<1>14. Filled(b, n, last)
  <2>1. b.buffer = BufSize - d /\ b.nRead = d + last /\ b.filePos = loader.filePos /\ (b.eof <=> n = 0)
    <3>1. /\ b.buffer = BufSize - d /\ b.nRead = d + Len(raw) - Len(rest)
          /\ b.filePos = loader.filePos /\ (b.eof <=> raw = <<>>)
      BY <1>7
    <3>2. d + Len(raw) - Len(rest) = d + last
      BY <1>3, <1>5, <1>6, <1>10
    <3> QED BY <1>6, <3>1, <3>2
  <2>2. ASSUME NEW p \in 0 .. d - 1
        PROVE  b.memory[BufSize - d + p] = loader.lineBegin[p + 1]
    <3>1. PICK x : x = BufSize - d + p
      OBVIOUS
    <3>2. x \in Cells /\ x \in BufSize - d .. BufSize - 1 /\ x - (BufSize - d) + 1 = p + 1
      BY <1>1, <1>10, <3>1 DEF Cells
    <3> QED BY <1>11, <3>1, <3>2
  <2>3. ASSUME NEW p \in d .. d + n - 1
        PROVE  b.memory[BufSize - d + p] = loader.fd + (p - d) + 1
    <3>1. PICK x : x = BufSize - d + p
      OBVIOUS
    <3>2. /\ x \in Cells /\ x \in BufSize .. BufSize + n - 1 /\ x \notin BufSize - d .. BufSize - 1
          /\ loader.fd + (x - BufSize + 1) = loader.fd + (p - d) + 1
      <4>1. PICK q : q = p - d
        OBVIOUS
      <4>2. q \in 0 .. n - 1 /\ x = BufSize + q
        BY <1>1, <1>3, <1>10, <3>1, <4>1
      <4>3. x \in BufSize .. BufSize + n - 1 /\ x \notin BufSize - d .. BufSize - 1
        BY <1>1, <1>3, <1>10, <4>2
      <4>4. x \in Cells
        BY <1>1, <1>3, <1>5, <4>2 DEF Cells
      <4>5. loader.fd + (x - BufSize + 1) = loader.fd + q + 1
        <5>1. x - BufSize + 1 = q + 1 /\ q \in Nat
          BY <1>1, <1>3, <4>2
        <5>2. loader.fd + (q + 1) = loader.fd + q + 1
          <6>1. PICK fd : fd = loader.fd
            OBVIOUS
          <6>2. fd \in Nat /\ q \in Nat
            BY <1>2, <5>1, <6>1
          <6> QED BY ONLY <6>1, <6>2
        <5> QED BY ONLY <5>1, <5>2
      <4> QED BY <4>1, <4>3, <4>4, <4>5
    <3> QED BY <1>11, <3>1, <3>2
  <2> QED BY <1>4, <2>1, <2>2, <2>3 DEF Filled
<1> QED BY <1>3, <1>4, <1>5, <1>8, <1>9, <1>13, <1>14

----------------------------------------------------------------------------
(* The loader after a read() of n bytes.                                    *)
LoaderReads(n, last) ==
  /\ file' = file
  /\ loader' = [i |-> Slot(loader.i), fd |-> loader.fd + n,
                filePos |-> loader.filePos + Len(loader.lineBegin) + last,
                lineBegin |-> [k \in 1 .. n - last |-> loader.fd + last + k],
                pc |-> IF n = 0 THEN "done" ELSE "run"]

LEMMA ReadMore ==
  ASSUME FileOK, Loaded, loader \in LoaderType,
         NEW n \in Nat, NEW last \in Nat, ReadBytes(n, last), LoaderReads(n, last),
         NEW b, Filled(b, n, last)
  PROVE  /\ Loaded' /\ loader' \in LoaderType
         /\ Section(b) /\ (b.filePos < Border => Intact(b, 0))
         /\ loader'.filePos = b.filePos + b.nRead
<1>1. PICK fd, a, d, size, end : /\ fd = loader.fd /\ a = loader.filePos /\ d = Len(loader.lineBegin)
                                 /\ size = BufSize /\ end = Len(file)
  OBVIOUS
<1>2. /\ fd \in Nat /\ a \in Nat /\ d \in Nat /\ size \in Nat \ {0} /\ end \in Nat /\ fd <= end
      /\ loader.i \in Slots
  BY <1>1, FileChars, BufSizeAssumption DEF LoaderType, Loaded
<1>3. /\ n <= size /\ fd + n <= end /\ (n < size => fd + n = end) /\ last <= n
      /\ last = 0 \/ fd + last \in LineEnds
      /\ \A e \in LineEnds : ~(fd + last < e /\ e <= fd + n)
  BY <1>1 DEF ReadBytes
<1>4. /\ b.buffer = size - d /\ b.nRead = d + last /\ b.filePos = a /\ (b.eof <=> n = 0)
      /\ \A p \in 0 .. d - 1 : b.memory[size - d + p] = loader.lineBegin[p + 1]
      /\ \A p \in d .. d + n - 1 : b.memory[size - d + p] = fd + (p - d) + 1
  BY <1>1 DEF Filled
<1>5. /\ file' = file /\ loader'.fd = fd + n /\ loader'.filePos = a + d + last
      /\ loader'.lineBegin = [k \in 1 .. n - last |-> fd + last + k]
      /\ loader'.pc = IF n = 0 THEN "done" ELSE "run"
  BY <1>1 DEF LoaderReads
<1>6. loader' \in LoaderType
  <2>1. [k \in 1 .. n - last |-> fd + last + k] \in Seq(Nat)
    BY <1>2, <1>3
  <2>2. Slot(loader.i) \in Slots
    BY <1>2, NBufAssumption DEF Slot, Slots
  <2>3. fd + n \in Nat /\ a + d + last \in Nat
    BY <1>2
  <2> QED BY <1>1, <2>1, <2>2, <2>3 DEF LoaderReads, LoaderType
<1>7. /\ \A e \in LineEnds : e \in Nat /\ 1 <= e /\ e <= end
      /\ Border \in 0 .. end
      /\ NoEnd = {} => Border = end
      /\ NoEnd # {} => /\ Border \in {0} \cup LineEnds
                       /\ \A p \in NoEnd : Border <= p
                       /\ \A e \in LineEnds : (\A p \in NoEnd : e <= p) => e <= Border
  BY <1>1, LineEndFacts, BorderFacts
<1>8. \A p \in NoEnd : p \in Nat /\ p <= end /\ (p = 0 \/ p < end)
  BY <1>1, <1>2 DEF NoEnd, Reads
<1>9. /\ Border' = Border /\ NoEnd' = NoEnd /\ LineEnds' = LineEnds /\ Len(file)' = end
      /\ Clean' <=> \A p \in NoEnd : fd + n <= p
  <2>1. Border' = Border /\ NoEnd' = NoEnd /\ LineEnds' = LineEnds /\ Len(file)' = end
    BY <1>1, <1>5, SameWords, SameLines
  <2> QED BY <1>5, <2>1 DEF Clean
<1>10. b.filePos + b.nRead = a + d + last /\ b.filePos \in Nat /\ b.nRead \in Nat
  BY <1>2, <1>4
<1>11. CASE ~Clean
  <2>1. PICK p \in NoEnd : ~(fd <= p)
    BY <1>1, <1>11 DEF Clean
  <2>2. ~Clean'
    BY <1>2, <1>8, <1>9, <2>1
  <2>3. a >= Border
    BY <1>1, <1>11 DEF Loaded
  <2>4. Loaded'
    <3>1. a + d + last >= Border
      BY <1>2, <1>7, <2>3
    <3> QED BY <1>3, <1>5, <1>9, <2>1, <2>2, <3>1 DEF Loaded
  <2>5. Section(b)
    BY <1>2, <1>4, <1>7, <1>10, <2>1, <2>3 DEF Section
  <2> QED BY <1>2, <1>4, <1>5, <1>6, <1>7, <1>10, <2>3, <2>4, <2>5
<1>12. CASE Clean
  <2>1. /\ fd = end \/ fd % size = 0
        /\ a <= fd /\ fd < a + size
        /\ loader.lineBegin = [k \in 1 .. fd - a |-> a + k]
        /\ \A e \in LineEnds : ~(a < e /\ e <= fd)
        /\ \A p \in NoEnd : fd <= p
    BY <1>1, <1>12 DEF Loaded, Clean
  <2>2. d = fd - a /\ \A k \in 1 .. d : loader.lineBegin[k] = a + k
    BY <1>1, <1>2, <2>1
  <2>3. a + d = fd /\ d < size
    BY <1>2, <2>1, <2>2
  <2>4. b.filePos + b.nRead = fd + last /\ loader'.filePos = fd + last
    BY <1>2, <1>5, <1>10, <2>3
  <2>5. Intact(b, 0)
    <3>1. ASSUME NEW p \in 0 .. d + last - 1
          PROVE  b.memory[size - d + p] = a + p + 1
      <4>1. CASE p < d
        <5>1. p \in 0 .. d - 1 /\ p + 1 \in 1 .. d
          BY <1>2, <4>1
        <5>2. a + (p + 1) = a + p + 1
          BY <1>2, <5>1
        <5> QED BY <1>4, <2>2, <5>1, <5>2
      <4>2. CASE ~(p < d)
        <5>1. p \in d .. d + n - 1 /\ fd + (p - d) + 1 = a + p + 1
          BY <1>2, <1>3, <2>3, <4>2
        <5> QED BY <1>4, <5>1
      <4> QED BY <4>1, <4>2
    <3>2. b.nRead = d + last /\ b.buffer = size - d /\ b.filePos = a
      BY <1>4
    <3>3. ASSUME NEW p \in 0 .. b.nRead - 1
          PROVE  b.memory[b.buffer + p] = b.filePos + p + 1
      <4>1. p \in 0 .. d + last - 1
        BY <1>2, <3>2
      <4> QED BY <3>1, <3>2, <4>1
    <3> QED BY <3>3 DEF Intact
  <2>6. b.buffer \in Nat /\ b.buffer + b.nRead <= 2 * BufSize
    <3>1. b.nRead = d + last /\ b.buffer = size - d
      BY <1>4
    <3>2. size - d \in Nat /\ (size - d) + (d + last) = size + last
      BY <1>2, <2>3
    <3>3. size + last <= 2 * size
      BY <1>2, <1>3
    <3> QED BY <1>1, <3>1, <3>2, <3>3
  <2>7. CASE fd = end
    <3>1. n = 0 /\ last = 0
      BY <1>2, <1>3, <2>7
    <3>2. a < Border => Border = end
      <4>1. SUFFICES ASSUME a < Border, NoEnd # {} PROVE FALSE
        BY <1>7
      <4>2. PICK p \in NoEnd : TRUE
        BY <4>1
      <4>3. p = end /\ end = 0
        BY <1>2, <1>8, <2>1, <2>7
      <4> QED BY <1>2, <1>7, <4>1, <4>3
    <3>3. Section(b)
      <4>1. a < Border => /\ b.nRead # 0 /\ b.filePos + b.nRead = Border
                          /\ b.filePos + b.nRead = Len(file)
        BY <1>1, <1>2, <1>4, <1>10, <2>3, <2>4, <2>7, <3>1, <3>2
      <4>2. NoEnd = {} /\ a >= Border => b.nRead = 0 /\ b.eof
        BY <1>2, <1>4, <1>7, <2>1, <2>2, <2>7, <3>1
      <4>3. \A p \in 0 .. b.nRead - 1 : b.memory[b.buffer + p] = b.filePos + p + 1
        BY <2>5 DEF Intact
      <4>4. Border <= Border
        BY <1>2, <1>7
      <4> QED BY <1>4, <1>10, <2>6, <4>1, <4>2, <4>3, <4>4 DEF Section
    <3>4. Loaded'
      <4>1. /\ loader'.fd = end /\ loader'.filePos = end /\ loader'.pc = "done"
            /\ loader'.lineBegin = [k \in 1 .. 0 |-> end + k]
        <5>1. /\ fd + n = end /\ fd + last = end /\ n - last = 0
          BY <1>2, <2>7, <3>1
        <5> QED BY <1>5, <2>4, <3>1, <5>1
      <4>2. Clean'
        BY <1>2, <1>9, <2>1, <3>1
      <4>3. end - end = 0 /\ end <= end /\ end < end + size
        BY <1>2
      <4>4. \A e \in LineEnds : ~(end < e /\ e <= end)
        BY <1>2, <1>7
      <4> QED BY <1>1, <1>9, <4>1, <4>2, <4>3, <4>4 DEF Loaded
    <3> QED BY <1>4, <1>6, <1>10, <2>4, <2>5, <3>3, <3>4
  <2>8. CASE fd # end /\ fd \in NoEnd
    <3>1. fd < end /\ fd % size = 0 /\ n > 0
      BY <1>2, <1>3, <2>1, <2>8
    <3>2. last = 0
      BY <1>1, <1>2, <2>8, <3>1, NoEndIs
    <3>3. Border <= a
      <4>1. Border <= fd /\ Border \in {0} \cup LineEnds
        BY <1>7, <2>8
      <4> QED BY <1>2, <1>7, <2>1, <4>1
    <3>4. Section(b)
      BY <1>2, <1>4, <1>7, <1>10, <2>8, <3>3 DEF Section
    <3>5. ~Clean'
      BY <1>2, <1>9, <2>8, <3>1
    <3>6. Loaded'
      <4>1. fd + last >= Border
        BY <1>2, <1>7, <2>1, <3>3
      <4>2. loader'.pc # "abort"
        BY <1>5
      <4> QED BY <1>3, <1>5, <1>9, <2>4, <3>5, <4>1, <4>2 DEF Loaded
    <3> QED BY <1>6, <2>4, <2>5, <3>4, <3>6
  <2>9. CASE fd # end /\ fd \notin NoEnd
    <3>1. fd < end /\ fd % size = 0 /\ n > 0
      BY <1>2, <1>3, <2>1, <2>9
    <3>2. last > 0 /\ \A p \in NoEnd : fd + size <= p
      BY <1>1, <1>2, <2>1, <2>9, <3>1, NoEndIs
    <3>3. fd + last \in LineEnds /\ fd + last <= Border
      <4>1. fd + last \in LineEnds /\ fd + last <= end
        BY <1>2, <1>3, <3>2
      <4>2. \A p \in NoEnd : fd + last <= p
        BY <1>2, <1>3, <1>8, <3>2
      <4> QED BY <1>7, <4>1, <4>2
    <3>4. Section(b)
      <4>1. b.nRead # 0 /\ ~b.eof
        BY <1>2, <1>4, <3>1, <3>2
      <4>2. ~(NoEnd = {} /\ a >= Border)
        BY <1>2, <1>7, <2>1, <3>1
      <4>3. \A p \in 0 .. b.nRead - 1 : b.memory[b.buffer + p] = b.filePos + p + 1
        BY <2>5 DEF Intact
      <4> QED BY <1>4, <1>10, <2>4, <2>6, <3>3, <4>1, <4>2, <4>3 DEF Section
    <3>5. Clean'
      BY <1>2, <1>3, <1>8, <1>9, <3>2
    <3>6. Loaded'
      <4>1. fd + n = end \/ (fd + n) % size = 0
        <5>1. CASE n < size
          BY <1>3, <5>1
        <5>2. CASE n = size
          BY <1>2, <3>1, <5>2, ModAround
        <5> QED BY <1>2, <1>3, <5>1, <5>2
      <4>2. fd + last <= fd + n /\ fd + n < fd + last + size
        BY <1>2, <1>3, <3>2
      <4>3. (fd + n) - (fd + last) = n - last
        BY <1>2
      <4>4. loader'.pc = "run"
        BY <1>5, <3>1
      <4> QED BY <1>1, <1>3, <1>5, <1>9, <2>4, <3>3, <3>5, <4>1, <4>2, <4>3, <4>4 DEF Loaded
    <3> QED BY <1>6, <2>4, <2>5, <3>4, <3>6
  <2> QED BY <2>7, <2>8, <2>9
<1> QED BY <1>11, <1>12

LEMMA TokensOfSame ==
  ASSUME NEW i, TokensOf(i), file' = file, buf'[i] = buf[i],
         strings'[i] = strings[i], strPool'[i] = strPool[i], list'[i] = list[i]
  PROVE  TokensOf(i)'
<1>1. file' = file
  OBVIOUS
<1>2. Border' = Border /\ NoEnd' = NoEnd
  BY <1>1, SameLines
<1>3. Chain(buf[i], strings[i], strPool[i], list[i], Len(list[i]), buf[i].filePos + buf[i].nRead)' =
        Chain(buf[i], strings[i], strPool[i], list[i], Len(list[i]), buf[i].filePos + buf[i].nRead)
  BY <1>1, SameSections
<1> QED BY <1>2, <1>3 DEF TokensOf

LEMMA ProduceBufferCut ==
  ASSUME NEW np, NEW nr, NEW nl, Cut(np, nr, nl), Inv, ProduceBuffer
  PROVE  \E ml \in Nat : Cut(np, nr, ml)'
<1>1. /\ np \in Nat /\ nr \in Nat /\ nl \in Nat /\ np <= nr /\ nr <= nl /\ nl <= np + NBuf
      /\ loader.i = Place(nl) /\ NBuf \in Nat \ {0}
  BY NBufAssumption DEF Cut, Ring
<1>2. /\ FileOK /\ Loaded /\ loader \in LoaderType /\ buf \in [Slots -> BufferType]
      /\ buf[loader.i].state = "EMPTY"
  BY DEF Cut, Shapes, LoaderType, ProduceBuffer
<1>3. PICK n \in Nat, last \in Nat, b \in BufferType :
        /\ ReadBytes(n, last)
        /\ buf' = [buf EXCEPT ![loader.i] = b] /\ b.state = "LOADED" /\ Filled(b, n, last)
        /\ loader' = [i |-> Slot(loader.i), fd |-> loader.fd + n,
                      filePos |-> loader.filePos + Len(loader.lineBegin) + last,
                      lineBegin |-> [k \in 1 .. n - last |-> loader.fd + last + k],
                      pc |-> IF n = 0 THEN "done" ELSE "run"]
  BY ProduceBufferSteps
<1>4. /\ file' = file
      /\ UNCHANGED <<reader, list, strPool, strings, isEmpty, parser, parsed>>
  BY DEF ProduceBuffer, readVars, parseVars
<1>5. LoaderReads(n, last)
  BY <1>3, <1>4 DEF LoaderReads
<1>6. /\ Loaded' /\ loader' \in LoaderType
      /\ Section(b) /\ (b.filePos < Border => Intact(b, 0))
      /\ loader'.filePos = b.filePos + b.nRead /\ b.filePos = loader.filePos
      /\ loader'.i = Slot(loader.i)
  <2>1. b.filePos = loader.filePos
    BY <1>3 DEF Filled
  <2>2. loader'.i = Slot(loader.i)
    BY <1>3
  <2> QED BY <1>2, <1>3, <1>5, <2>1, <2>2, ReadMore
(* There is a slot for it.                                                 *)
<1>7. nl < np + NBuf
  <2>1. SUFFICES ASSUME nl = np + NBuf PROVE FALSE
    BY <1>1
  <2>2. Place(nl) = Place(np)
    BY <1>1, <2>1, PlaceFacts
  <2>3. np \in np .. np + NBuf - 1
    BY <1>1
  <2>4. buf[Place(np)].state = StateOf(np, nr, nl)
    BY <2>3 DEF Cut, Ring
  <2>5. np < nl
    BY <1>1, <2>1
  <2> QED BY <1>1, <1>2, <2>2, <2>4, <2>5 DEF StateOf
<1>8. PICK i : i = Place(nl)
  OBVIOUS
<1>9. i \in Slots /\ i = loader.i /\ Slot(i) = Place(nl + 1) /\ nl \in np .. np + NBuf - 1
  BY <1>1, <1>7, <1>8, PlaceFacts
<1>10. buf' \in [Slots -> BufferType] /\ buf'[i] = b /\ \A j \in Slots : j # i => buf'[j] = buf[j]
  BY <1>2, <1>3, <1>9
<1>11. ASSUME NEW m \in np .. np + NBuf - 1, m # nl
       PROVE  m \in Nat /\ Place(m) \in Slots /\ Place(m) # i /\ buf'[Place(m)] = buf[Place(m)]
  <2>1. m \in Nat /\ Place(m) \in Slots
    BY <1>1, PlaceFacts
  <2>2. Place(m) # i
    <3>1. CASE m < nl
      BY <1>1, <1>7, <1>8, <2>1, <3>1, PlacesApart
    <3>2. CASE nl < m
      <4>1. m < nl + NBuf
        BY <1>1, <2>1
      <4> QED BY <1>1, <1>8, <2>1, <3>2, <4>1, PlacesApart
    <3> QED BY <1>1, <1>11, <2>1, <3>1, <3>2
  <2> QED BY <1>10, <2>1, <2>2
<1>12. PICK ml : ml = nl + 1
  OBVIOUS
<1>13. ml \in Nat /\ ml <= np + NBuf /\ nr <= ml /\ nl < ml
  BY <1>1, <1>7, <1>12
<1>14. ASSUME NEW m \in np .. nl
       PROVE  Pos(m, ml)' = Pos(m, nl)
  <2>1. m \in np .. np + NBuf - 1 /\ m < ml
    BY <1>1, <1>7, <1>13
  <2>2. Pos(m, ml)' = buf'[Place(m)].filePos
    BY <2>1 DEF Pos
  <2>3. CASE m = nl
    BY <1>6, <1>8, <1>10, <2>2, <2>3 DEF Pos
  <2>4. CASE m # nl
    <3>1. m < nl
      BY <1>1, <2>4
    <3> QED BY <1>11, <2>1, <2>2, <2>4, <3>1 DEF Pos
  <2> QED BY <2>3, <2>4
<1>15. Pos(ml, ml)' = b.filePos + b.nRead
  BY <1>6, <1>13 DEF Pos
<1>16. Shapes'
  BY <1>4, <1>6, <1>10 DEF Cut, Shapes, FileOK, LoaderType, ReaderType
<1>17. Ring(np, nr, ml)'
  <2>1. ASSUME NEW m \in np .. np + NBuf - 1
        PROVE  buf'[Place(m)].state = StateOf(m, nr, ml) /\ (isEmpty'[Place(m)] <=> ~(m < nr))
    <3>1. buf[Place(m)].state = StateOf(m, nr, nl) /\ (isEmpty[Place(m)] <=> ~(m < nr))
      BY DEF Cut, Ring
    <3>2. CASE m = nl
      BY <1>1, <1>3, <1>4, <1>8, <1>10, <1>13, <3>1, <3>2 DEF StateOf
    <3>3. CASE m # nl
      <4>1. m < nl <=> m < ml
        BY <1>1, <1>12, <3>3
      <4> QED BY <1>4, <1>11, <3>1, <3>3, <4>1 DEF StateOf
    <3> QED BY <3>2, <3>3
  <2>2. loader'.i = Place(ml)
    BY <1>6, <1>9, <1>12
  <2>3. nr < nl => nr < ml
    BY <1>1, <1>13
  <2> QED BY <1>1, <1>4, <1>13, <2>1, <2>2, <2>3 DEF Cut, Ring
<1>18. Sections(np, ml)'
  <2>1. SUFFICES ASSUME NEW m \in np .. ml - 1
                 PROVE  Section(buf[Place(m)])' /\ Pos(m + 1, ml)' = buf'[Place(m)].filePos + buf'[Place(m)].nRead
    BY DEF Sections
  <2>2. m \in np .. np + NBuf - 1
    BY <1>1, <1>13
  <2>3. CASE m = nl
    <3>1. Section(buf[Place(m)])'
      BY <1>4, <1>6, <1>8, <1>10, <2>3, SameSections
    <3> QED BY <1>8, <1>10, <1>12, <1>15, <2>3, <3>1
  <2>4. CASE m # nl
    <3>1. m \in np .. nl - 1 /\ m + 1 \in np .. nl
      BY <1>1, <1>12, <2>4
    <3>2. Section(buf[Place(m)]) /\ Pos(m + 1, nl) = buf[Place(m)].filePos + buf[Place(m)].nRead
      BY <3>1 DEF Cut, Sections
    <3>3. buf'[Place(m)] = buf[Place(m)]
      BY <1>11, <2>2, <2>4
    <3>4. Section(buf[Place(m)])'
      BY <1>4, <3>2, <3>3, SameSections
    <3> QED BY <1>14, <3>1, <3>2, <3>3, <3>4
  <2> QED BY <2>3, <2>4
<1>19. Unread(nr, ml)'
  <2>1. Border' = Border
    BY <1>4, SameLines
  <2>2. SUFFICES ASSUME NEW m \in nr .. ml - 1, ~InRead(m, nr)', buf'[Place(m)].filePos < Border
                 PROVE  Intact(buf'[Place(m)], 0)
    BY <2>1 DEF Unread, Intact
  <2>3. CASE m = nl
    BY <1>6, <1>8, <1>10, <2>2, <2>3
  <2>4. CASE m # nl
    <3>1. m \in nr .. nl - 1 /\ m \in np .. np + NBuf - 1
      BY <1>1, <1>12, <2>4
    <3>2. buf'[Place(m)] = buf[Place(m)] /\ ~InRead(m, nr)
      BY <1>4, <1>11, <2>2, <2>4, <3>1 DEF InRead
    <3> QED BY <2>2, <3>1, <3>2 DEF Cut, Unread
  <2> QED BY <2>3, <2>4
<1>20. Tokens(np, nr)'
  <2>1. SUFFICES ASSUME NEW m \in np .. nr - 1
                 PROVE  TokensOf(Place(m))'
    BY DEF Tokens
  <2>2. m \in np .. np + NBuf - 1 /\ m # nl
    BY <1>1
  <2>3. PICK j : j = Place(m)
    OBVIOUS
  <2>4. TokensOf(j) /\ buf'[j] = buf[j]
    BY <1>11, <2>2, <2>3 DEF Cut, Tokens
  <2>5. TokensOf(j)'
    BY <1>4, <2>4, TokensOfSame
  <2> QED BY <2>3, <2>5
<1>21. Reading(nr, ml)'
  <2>1. Pos(nr, ml)' = Pos(nr, nl)
    BY <1>1, <1>14
  <2>2. ASSUME reader.pc \in {"line", "words"}
        PROVE  buf'[reader.curbuf] = buf[reader.curbuf]
    <3>1. reader.curbuf = Place(nr) /\ nr < nl
      BY <2>2 DEF Cut, Ring
    <3>2. nr \in np .. np + NBuf - 1 /\ nr # nl
      BY <1>1, <3>1
    <3> QED BY <1>11, <3>1, <3>2
  <2> QED BY <1>4, <2>1, <2>2, ReadingKept DEF Cut
<1>22. Parsing(np, ml)'
  <2>1. Pos(np, ml)' = Pos(np, nl)
    BY <1>1, <1>14
  <2>2. ASSUME parser.pc = "lines"
        PROVE  Pos(np + 1, ml)' = Pos(np + 1, nl)
    <3>1. np < nr
      BY <2>2 DEF Cut, Ring
    <3>2. np + 1 \in np .. nl
      BY <1>1, <3>1
    <3> QED BY <1>14, <3>2
  <2> QED BY <1>4, <2>1, <2>2, ParsingKept DEF Cut
<1> QED BY <1>6, <1>13, <1>16, <1>17, <1>18, <1>19, <1>20, <1>21, <1>22 DEF Cut

----------------------------------------------------------------------------
(* The invariant is kept.                                                  *)
LEMMA InitCut ==
  ASSUME Init
  PROVE  Cut(0, 0, 0)
<1>1. FileOK
  BY FilesAssumption DEF Init, FileOK
<1>2. NBuf \in Nat \ {0} /\ BufSize \in Nat \ {0} /\ Len(file) \in Nat /\ Border \in 0 .. Len(file)
  BY <1>1, NBufAssumption, BufSizeAssumption, FileChars, BorderFacts
<1>3. /\ loader = [i |-> 0, fd |-> 0, filePos |-> 0, lineBegin |-> <<>>, pc |-> "run"]
      /\ reader = [curbuf |-> 0, lastPos |-> 0, bufferSwitch |-> FALSE, endOfLine |-> FALSE, pc |-> "first"]
      /\ buf = [i \in Slots |-> EmptyBuffer] /\ isEmpty = [i \in Slots |-> TRUE]
      /\ strPool = [i \in Slots |-> NewPool] /\ strings = [i \in Slots |-> NoStrings]
      /\ parser = [i |-> 0, line |-> 0, argv |-> NullPointer, pc |-> "begin"] /\ parsed = <<>>
  BY DEF Init
<1>4. 0 \in Slots /\ Place(0) = 0
  BY <1>2, PlaceFacts DEF Slots, Place
<1>5. Shapes
  <2>1. loader \in [i: Slots, fd: Nat, filePos: Nat, lineBegin: Seq(Nat), pc: {"run", "done", "abort"}]
    BY <1>3, <1>4
  <2>2. buf \in [Slots -> BufferType]
    <3>1. EmptyBuffer \in BufferType
      BY <1>2 DEF EmptyBuffer, BufferType, Nul
    <3> QED BY <1>3, <3>1
  <2>3. reader \in ReaderType
    BY <1>3, <1>4 DEF ReaderType
  <2>4. PoolInv(NewPool)
    BY NewPoolInv
  <2>5. IsSeq(parsed)
    BY <1>3 DEF IsSeq
  <2> QED BY <1>1, <1>3, <2>1, <2>2, <2>3, <2>4, <2>5 DEF Shapes
<1>6. Ring(0, 0, 0)
  <2>1. ASSUME NEW n \in 0 .. 0 + NBuf - 1
        PROVE  buf[Place(n)].state = StateOf(n, 0, 0) /\ isEmpty[Place(n)] /\ ~(n < 0)
    <3>1. n \in Nat /\ Place(n) \in Slots
      BY <1>2, PlaceFacts
    <3> QED BY <1>3, <3>1 DEF StateOf, EmptyBuffer
  <2>2. loader.i = Place(0) /\ parser.i = Place(0) /\ reader.curbuf = Place(0)
    BY <1>3, <1>4
  <2>3. reader.pc = "first" /\ parser.pc = "begin"
    BY <1>3
  <2> QED BY <1>2, <2>1, <2>2, <2>3 DEF Ring
<1>7. Loaded
  <2>1. \A p \in NoEnd : 0 <= p
    BY <1>2 DEF NoEnd, Reads
  <2>2. Clean
    BY <1>3, <2>1 DEF Clean
  <2>3. 0 % BufSize = 0
    BY <1>2
  <2>4. \A e \in LineEnds : ~(0 < e /\ e <= 0)
    BY <1>1, LineEndFacts
  <2>5. <<>> = [k \in 1 .. 0 - 0 |-> 0 + k]
    OBVIOUS
  <2> QED BY <1>2, <1>3, <2>2, <2>3, <2>4, <2>5 DEF Loaded
<1>8. Sections(0, 0) /\ Unread(0, 0) /\ Tokens(0, 0)
  BY DEF Sections, Unread, Tokens
<1>9. Pos(0, 0) = 0
  BY <1>3 DEF Pos
<1>10. Reading(0, 0)
  <2>1. Fresh(0)
    BY <1>1, FreshAfterLine
  <2>2. ~IsLetter(0)
    BY <1>2 DEF IsLetter, Bytes
  <2>3. AtBegin(0, 0)
    BY <1>3, <1>9, <2>1, <2>2 DEF AtBegin
  <2> QED BY <1>3, <2>3 DEF Reading
<1>11. Parsing(0, 0)
  <2>1. NrStarts(0) = 0
    <3>1. UpTo(FirstWords, 0) = {}
      BY <1>1, FirstAreWords, WordOfFile DEF UpTo
    <3> QED BY <3>1, FS_EmptySet DEF NrStarts
  <2>2. SeenTo(parsed, 0)
    <3>1. Len(parsed) = 0
      BY <1>3
    <3>2. 0 >= Border => Border = 0
      BY <1>2
    <3>3. 0 >= Border => NrStarts(Border) = 0
      BY <2>1, <3>2
    <3> QED BY <2>1, <3>1, <3>3 DEF SeenTo
  <2>3. ParsePos(0, 0) = 0
    BY <1>3, <1>9 DEF ParsePos
  <2> QED BY <1>3, <2>2, <2>3 DEF Parsing
<1> QED BY <1>5, <1>6, <1>7, <1>8, <1>10, <1>11 DEF Cut

LEMMA NextCut ==
  ASSUME CutInv, Inv, [Next]_vars
  PROVE  CutInv'
<1>1. PICK np \in Nat, nr \in Nat, nl \in Nat : Cut(np, nr, nl)
  BY DEF CutInv
<1>2. (\E mp \in Nat, mr \in Nat, ml \in Nat : Cut(mp, mr, ml)') => CutInv'
  BY DEF CutInv
<1>3. CASE ProduceBuffer
  BY <1>1, <1>2, <1>3, ProduceBufferCut
<1>4. CASE Abort
  BY <1>1, <1>2, <1>4, AbortCut
<1>5. CASE ReaderBegin
  BY <1>1, <1>2, <1>5, ReaderBeginCut
<1>6. CASE ReadLine
  BY <1>1, <1>2, <1>6, ReadLineCut
<1>7. CASE ReadNextWord
  BY <1>1, <1>2, <1>7, ReadNextWordCut
<1>8. CASE EndLine
  BY <1>1, <1>2, <1>8, EndLineCut
<1>9. CASE ParserBegin
  BY <1>1, <1>2, <1>9, ParserBeginCut
<1>10. CASE ParseLine
  BY <1>1, <1>2, <1>10, ParseLineCut
<1>11. CASE ParserEnd
  <2>1. Cut(np + 1, nr, nl)' /\ np + 1 \in Nat
    BY <1>1, <1>11, ParserEndCut
  <2> QED BY <1>1, <1>2, <2>1
<1>12. CASE Finished \/ UNCHANGED vars
  <2>1. UNCHANGED vars
    BY <1>12 DEF Finished
  <2> QED BY <1>1, <1>2, <2>1, StutterCut
<1> QED BY <1>3, <1>4, <1>5, <1>6, <1>7, <1>8, <1>9, <1>10, <1>11, <1>12 DEF Next, Loader, Reader, Parser

(* The parser is somewhere in the file, or past its Border.                 *)
LEMMA ParsePosType ==
  ASSUME NEW np, NEW nr, NEW nl, Cut(np, nr, nl), Inv
  PROVE  ParsePos(np, nl) \in Nat
<1>1. np \in Nat /\ nr \in Nat /\ nl \in Nat /\ np <= nr /\ nr <= nl /\ loader.filePos \in Nat
  BY DEF Cut, Ring, Shapes
<1>2. Pos(np, nl) \in Nat
  <2>1. CASE np < nl
    <3>1. Section(buf[Place(np)])
      BY <1>1, <2>1 DEF Cut, Sections
    <3> QED BY <2>1, <3>1 DEF Section, Pos
  <2>2. CASE ~(np < nl)
    BY <1>1, <2>2 DEF Pos
  <2> QED BY <2>1, <2>2
<1>3. ASSUME parser.pc = "lines", Pos(np, nl) < Border
      PROVE  BeginOf(list[parser.i], parser.line, Len(list[parser.i]), Pos(np + 1, nl)) \in Nat
  <2>1. np < nr
    BY <1>3 DEF Cut, Ring
  <2>2. PICK i : i = parser.i
    OBVIOUS
  <2>3. /\ Pos(np, nl) = buf[i].filePos /\ Pos(np + 1, nl) = Pos(np, nl) + buf[i].nRead
        /\ buf[i].nRead \in Nat /\ TokensOf(i) /\ IsSeq(list[i])
    BY <2>1, <2>2, ParserSlot
  <2>4. Pos(np + 1, nl) \in Nat
    BY <1>2, <2>3
  <2>5. PICK m : m = Len(list[i])
    OBVIOUS
  <2>6. Chain(buf[i], strings[i], strPool[i], list[i], m, buf[i].filePos + buf[i].nRead)
    BY <1>3, <2>3, <2>5 DEF TokensOf
  <2>7. \A k \in 1 .. m : list[i][k].begin \in Nat
    BY <2>6 DEF Chain, Complete
  <2>8. parser.line \in 1 .. m + 1 /\ m \in Nat
    BY <1>3, <2>2, <2>3, <2>5, SeqShape DEF Cut, Parsing
  <2>9. parser.line <= m => list[i][parser.line].begin \in Nat
    BY <2>7, <2>8
  <2> QED BY <2>2, <2>4, <2>5, <2>9 DEF BeginOf
<1> QED BY <1>2, <1>3 DEF ParsePos

LEMMA CutLines ==
  ASSUME CutInv, Inv
  PROVE  LinesOfFile
<1>1. PICK np \in Nat, nr \in Nat, nl \in Nat : Cut(np, nr, nl)
  BY DEF CutInv
<1>2. FileOK /\ IsSeq(parsed) /\ Loaded /\ Parsing(np, nl)
  BY <1>1 DEF Cut, Shapes
<1>3. PICK p : p = ParsePos(np, nl)
  OBVIOUS
<1>4. p \in Nat /\ SeenTo(parsed, p)
  BY <1>1, <1>2, <1>3, ParsePosType DEF Parsing
<1>5. /\ DOMAIN Whole = 1 .. NrStarts(Border) /\ Len(Whole) = NrStarts(Border)
      /\ NrStarts(Border) \in Nat /\ Border \in Nat /\ Len(parsed) \in Nat
      /\ DOMAIN parsed = 1 .. Len(parsed)
  BY <1>2, WholeLines, StartsType, BorderFacts, FileChars, SeqShape
<1>6. \A k \in DOMAIN parsed \cap DOMAIN Whole : parsed[k] = Whole[k]
  BY <1>4, <1>5 DEF SeenTo
<1>7. NoEnd = {} => Len(parsed) <= Len(Whole)
  <2>1. CASE p < Border
    <3>1. Len(parsed) = NrStarts(p)
      BY <1>4, <2>1 DEF SeenTo
    <3>2. NrStarts(p) <= NrStarts(Border)
      BY <1>2, <1>4, <1>5, <2>1, StartsGrow
    <3> QED BY <1>5, <3>1, <3>2
  <2>2. CASE p >= Border
    BY <1>4, <1>5, <2>2 DEF SeenTo
  <2> QED BY <1>4, <1>5, <2>1, <2>2
<1>8. parser.pc = "done" => Len(parsed) >= Len(Whole)
  <2>1. SUFFICES ASSUME parser.pc = "done" PROVE Len(parsed) >= Len(Whole)
    OBVIOUS
  <2>2. p >= Border
    BY <1>2, <1>3, <2>1 DEF Parsing, ParsePos
  <2> QED BY <1>4, <1>5, <2>2 DEF SeenTo
<1>9. Aborted => NoEnd # {}
  BY <1>2 DEF Loaded, Aborted
<1> QED BY <1>6, <1>7, <1>8, <1>9 DEF LinesOfFile

(* The parser gets all lines of any file, once, in order, with their words   *)
(* and where they begin, except from a read() without a line end on, and    *)
(* only such a read() ends the program: for buffers, pools and lines of any *)
(* size, and any number of buffers.                                        *)
THEOREM LinesOfFileCorrect == Spec => []LinesOfFile
<1>1. Init => Inv /\ CutInv
  BY InitInv, InitCut DEF CutInv
<1>2. Inv /\ CutInv /\ [Next]_vars => (Inv /\ CutInv)'
  BY NextInv, NextCut
<1>3. Inv /\ CutInv => LinesOfFile
  BY CutLines
<1> QED BY <1>1, <1>2, <1>3, PTL DEF Spec
=============================================================================
