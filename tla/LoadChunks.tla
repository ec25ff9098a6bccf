----------------------------- MODULE LoadChunks -----------------------------
(***************************************************************************)
(* The bytes below LoadPipeline: how LoadBuffer::produceBuffer() cuts a    *)
(* file into buffers at its line ends, how TraceFile::ReadLine() and       *)
(* ReadNextWord() cut a buffer into lines and words in place, and how the  *)
(* parser gets the words from the pool of the ThreadBuffer and keeps the   *)
(* arguments of events in a pool of its own (TraceParser::ptrPool).        *)
(*                                                                         *)
(* A byte is known by where it is in the file: a cell of a buffer holds    *)
(* the number of the byte (from 1), or Nul.  What the byte is is file[n].  *)
(* So two equal letters are still told apart.  The three threads take      *)
(* turns on a slot as LoadPipeline has it; here a thread has a slot from   *)
(* its begin to its end action, and a step is a read(), a word or a line.  *)
(*                                                                         *)
(* read() fills the buffer unless the file ends, as it does for a regular  *)
(* file.  A file holds no zero bytes.  Which lines are events is the       *)
(* subject of EventLines: here a line of at least two words is one, and    *)
(* its arguments are its words.                                            *)
(***************************************************************************)
EXTENDS Integers, Sequences, MemPool

CONSTANTS
  Files,      (* the files that are read: sequences of Chars                 *)
  BufSize,    (* bufSize, 1 MiB in the program                               *)
  NBuf,       (* NR_BUFFERS                                                  *)
  MaxArgs     (* EVENT_MAX_NR_ARGS                                           *)

Letter  == "x"
Space   == " "
Newline == "nl"
Chars   == {Letter, Space, Newline}

ASSUME FilesAssumption   == Files \subseteq Seq(Chars)
ASSUME BufSizeAssumption == BufSize \in Nat \ {0}
ASSUME NBufAssumption    == NBuf \in Nat \ {0}
ASSUME MaxArgsAssumption == MaxArgs \in Nat \ {0} /\ MaxArgs < PoolSize

Slots == 0 .. NBuf - 1
Cells == 0 .. 2 * BufSize          (* memory of a LoadBuffer, with the spare *)
Nul   == 0
Slot(i) == (i + 1) % NBuf

VARIABLES
  file,      (* the file                                                     *)
  loader,    (* LoadThread::run: i, the position of fd, filePos, lineBegin   *)
  buf,       (* LoadBuffer: memory, buffer, nRead, filePos, eof, state       *)
  reader,    (* threadReader: curbuf, and of TraceFile: lastPos,             *)
             (* bufferSwitch, endOfLine                                      *)
  list,      (* ThreadBuffer: list                                           *)
  isEmpty,   (* ThreadBuffer: isEmpty                                        *)
  strPool,   (* ThreadBuffer: strPool                                        *)
  strings,   (* what is in strPool: the TStrings by their address            *)
  parser,    (* threadParser: i, the line it is at, argv                     *)
  ptrPool,   (* TraceParser: ptrPool                                         *)
  args,      (* what is in ptrPool: arguments by their address               *)
  events,    (* the events, with where their argv points and how many        *)
  parsed     (* history: the lines with words as the parser saw them         *)

readVars  == <<reader, list, strPool, strings>>
parseVars == <<parser, ptrPool, args, events, parsed>>
vars == <<file, loader, buf, readVars, isEmpty, parseVars>>

EmptyBuffer == [memory |-> [p \in Cells |-> Nul], buffer |-> BufSize, nRead |-> 0,
                filePos |-> 0, eof |-> FALSE, state |-> "EMPTY"]
NoStrings   == [a \in {} |-> Nul]

Init ==
  /\ file \in Files
  /\ loader  = [i |-> 0, fd |-> 0, filePos |-> 0, lineBegin |-> <<>>, pc |-> "run"]
  /\ buf     = [i \in Slots |-> EmptyBuffer]
  /\ reader  = [curbuf |-> 0, lastPos |-> 0, bufferSwitch |-> FALSE, endOfLine |-> FALSE,
                pc |-> "first"]
  /\ list    = [i \in Slots |-> <<>>]
  /\ isEmpty = [i \in Slots |-> TRUE]
  /\ strPool = [i \in Slots |-> NewPool]
  /\ strings = [i \in Slots |-> NoStrings]
  /\ parser  = [i |-> 0, line |-> 0, argv |-> NullPointer, pc |-> "begin"]
  /\ ptrPool = NewPool
  /\ args    = NoStrings
  /\ events  = <<>>
  /\ parsed  = <<>>

Aborted == loader.pc = "abort"

----------------------------------------------------------------------------
(* LoadBuffer::produceBuffer()                                             *)

(* The cells of one read().                                                *)
RawBytes == LET n == IF Len(file) - loader.fd < BufSize THEN Len(file) - loader.fd ELSE BufSize
            IN [k \in 1 .. n |-> loader.fd + k]

(* Mutant: the search for the last line end stops before the first byte.   *)
UnfinishedLineMissesFirst(raw) ==
  LET ends == {k \in 0 .. Len(raw) : k = 0 \/ (k > 1 /\ file[raw[k]] = Newline)}
      last == CHOOSE k \in ends : \A j \in ends : j <= k
  IN SubSeq(raw, last + 1, Len(raw))

(* The bytes after the last line end of raw: they wait for the next read(). *)
UnfinishedLine(raw) ==
  LET ends == {k \in 0 .. Len(raw) : k = 0 \/ file[raw[k]] = Newline}
      last == CHOOSE k \in ends : \A j \in ends : j <= k
  IN SubSeq(raw, last + 1, Len(raw))

(* The unfinished line of the last read() goes in front of readBegin, the  *)
(* new bytes behind it; the unfinished line at the end is not counted.     *)
ProduceBuffer ==
  LET b     == buf[loader.i]
      begun == loader.lineBegin
      start == BufSize - Len(begun)
      rest  == UnfinishedLine(RawBytes)
      nRead == Len(begun) + Len(RawBytes) - Len(rest)
  IN
  /\ loader.pc = "run"
  /\ b.state = "EMPTY"
  /\ Len(begun) < BufSize
  /\ buf' = [buf EXCEPT ![loader.i] =
       [memory  |-> [p \in Cells |-> IF p \in start .. BufSize - 1 THEN begun[p - start + 1]
                                     ELSE IF p \in BufSize .. BufSize + Len(RawBytes) - 1
                                          THEN RawBytes[p - BufSize + 1]
                                     ELSE b.memory[p]],
        buffer  |-> start,
        nRead   |-> nRead,
        filePos |-> loader.filePos,
        eof     |-> RawBytes = <<>>,
        state   |-> "LOADED"]]
  /\ loader' = [i |-> Slot(loader.i), fd |-> loader.fd + Len(RawBytes),
                filePos |-> loader.filePos + nRead, lineBegin |-> rest,
                pc |-> IF RawBytes = <<>> THEN "done" ELSE "run"]
  /\ UNCHANGED <<file, readVars, isEmpty, parseVars>>

(* A line that fills a whole buffer ends the program.                      *)
Abort ==
  /\ loader.pc = "run"
  /\ buf[loader.i].state = "EMPTY"
  /\ Len(loader.lineBegin) >= BufSize
  /\ loader' = [loader EXCEPT !.pc = "abort"]
  /\ UNCHANGED <<file, buf, readVars, isEmpty, parseVars>>

----------------------------------------------------------------------------
(* TraceParser::threadReader() and TraceFile::ReadLine()                   *)

cur  == buf[reader.curbuf]
CharAt(p) == LET c == cur.memory[cur.buffer + p] IN IF c = Nul THEN "nul" ELSE file[c]

EndProduceBuffer(i) ==
  /\ buf'     = [buf EXCEPT ![i].state = "TOKENIZED"]
  /\ isEmpty' = [isEmpty EXCEPT ![i] = FALSE]

(* ThreadBuffer::beginProduceBuffer().  A buffer without bytes at the end  *)
(* of the file has no lines, except that the first one is not asked.       *)
ReaderBegin ==
  LET i == reader.curbuf IN
  /\ ~Aborted
  /\ reader.pc \in {"first", "begin"}
  /\ isEmpty[i]
  /\ cur.state = "LOADED"
  /\ strPool' = [strPool EXCEPT ![i] = Reset(@)]
  /\ strings' = [strings EXCEPT ![i] = NoStrings]
  /\ list'    = [list EXCEPT ![i] = <<>>]
  /\ IF reader.pc = "begin" /\ cur.eof /\ cur.nRead = 0
     THEN /\ EndProduceBuffer(i)
          /\ reader' = [reader EXCEPT !.pc = "done"]
     ELSE /\ reader' = [reader EXCEPT !.pc = "line"]
          /\ UNCHANGED <<buf, isEmpty>>
  /\ UNCHANGED <<file, loader, parseVars>>

(* ReadLine() up to its loop: room for the words of a line.                *)
ReadLine ==
  LET i    == reader.curbuf
      room == PreallocN(strPool[i], MaxArgs)
  IN
  /\ ~Aborted
  /\ reader.pc = "line"
  /\ list'    = [list EXCEPT ![i] = Append(@,
                   [begin |-> cur.filePos + reader.lastPos, strings |-> room.ptr, nStrings |-> 0])]
  /\ strPool' = [strPool EXCEPT ![i] = room.pool]
  /\ reader'  = [reader EXCEPT !.endOfLine = FALSE, !.pc = "words"]
  /\ UNCHANGED <<file, loader, buf, isEmpty, strings, parseVars>>

(* lastPos after a position was reached, or the change to the next buffer. *)
AtPos(p, ended) ==
  IF p >= cur.nRead
  THEN [reader EXCEPT !.lastPos = 0, !.bufferSwitch = TRUE, !.endOfLine = TRUE]
  ELSE [reader EXCEPT !.lastPos = p, !.endOfLine = ended]

(* Where the spaces from lastPos on end: the first character is looked at  *)
(* even if the buffer has none.                                            *)
WordBegin ==
  CHOOSE p \in Cells :
    /\ p >= reader.lastPos
    /\ CharAt(p) # Space \/ (p > reader.lastPos /\ p >= cur.nRead)
    /\ \A q \in reader.lastPos .. p - 1 :
         CharAt(q) = Space /\ (q = reader.lastPos \/ q < cur.nRead)
WordEnd ==
  CHOOSE p \in Cells :
    /\ p > WordBegin
    /\ p >= cur.nRead \/ CharAt(p) \in {Space, Newline}
    /\ \A q \in WordBegin + 1 .. p - 1 : q < cur.nRead /\ CharAt(q) = Letter

LastLine(i) == list[i][Len(list[i])]
MoreWords == LastLine(reader.curbuf).nStrings < MaxArgs /\ ~reader.endOfLine
OnlySpace == WordBegin > reader.lastPos /\ WordBegin >= cur.nRead
IsWord    == ~OnlySpace /\ CharAt(WordBegin) # Newline

(* ReadNextWord() finds a word: it is ended by a zero byte in the buffer.  *)
ReadNextWord ==
  LET i    == reader.curbuf
      n    == Len(list[i])
      line == list[i][n]
      to   == Pointer(line.strings.chunk, line.strings.at + line.nStrings)
      word == [ptr |-> cur.buffer + WordBegin, len |-> WordEnd - WordBegin]
  IN
  /\ ~Aborted
  /\ reader.pc = "words"
  /\ MoreWords
  /\ IsWord
  /\ strings' = [strings EXCEPT ![i] = [a \in DOMAIN @ \cup {to} |-> IF a = to THEN word ELSE @[a]]]
  /\ list'    = [list EXCEPT ![i][n].nStrings = @ + 1]
  /\ buf'     = [buf EXCEPT ![i].memory[cur.buffer + WordEnd] = Nul]
  /\ reader'  = AtPos(WordEnd + 1, WordEnd >= cur.nRead \/ CharAt(WordEnd) = Newline)
  /\ UNCHANGED <<file, loader, isEmpty, strPool, parseVars>>

(* What ReadNextWord() does when it finds none.                            *)
NoMoreWords ==
  IF ~MoreWords THEN reader
  ELSE IF OnlySpace THEN AtPos(WordBegin, TRUE)
  ELSE AtPos(WordBegin + 1, FALSE)

(* The end of ReadLine(), and of the buffer if its last byte was read.     *)
EndLine ==
  LET i    == reader.curbuf
      line == LastLine(i)
      r    == NoMoreWords
  IN
  /\ ~Aborted
  /\ reader.pc = "words"
  /\ ~(MoreWords /\ IsWord)
  /\ strPool' = [strPool EXCEPT ![i] = IF line.nStrings > 0 THEN CommitN(@, line.nStrings) ELSE @]
  /\ IF r.bufferSwitch
     THEN /\ EndProduceBuffer(i)
          /\ reader' = IF cur.eof THEN [r EXCEPT !.pc = "done"]
                       ELSE [r EXCEPT !.curbuf = Slot(i), !.bufferSwitch = FALSE, !.pc = "begin"]
     ELSE /\ reader' = [r EXCEPT !.pc = "line"]
          /\ UNCHANGED <<buf, isEmpty>>
  /\ UNCHANGED <<file, loader, list, strings, parseVars>>

----------------------------------------------------------------------------
(* TraceParser::parseBuffer_()                                             *)

ParserBegin ==
  LET i    == parser.i
      room == PreallocN(ptrPool, MaxArgs)
  IN
  /\ ~Aborted
  /\ parser.pc = "begin"
  /\ ~isEmpty[i]
  /\ buf[i].state = "TOKENIZED"
  /\ ptrPool' = room.pool
  /\ parser'  = [parser EXCEPT !.line = 1, !.argv = room.ptr, !.pc = "lines"]
  /\ UNCHANGED <<file, loader, buf, readVars, isEmpty, args, events, parsed>>

(* The words of a line as the parser reads them, with their zero bytes.    *)
WordsOf(i, line) ==
  [k \in 1 .. line.nStrings |->
     LET s == strings[i][Pointer(line.strings.chunk, line.strings.at + k - 1)]
     IN [j \in 1 .. s.len + 1 |-> buf[i].memory[s.ptr + j - 1]]]

IsEvent(words) == Len(words) >= 2

(* The arguments are written where argv points before it is known whether  *)
(* the line is an event; only then they are committed.                     *)
ParseLine ==
  LET i     == parser.i
      line  == list[i][parser.line]
      words == WordsOf(i, line)
      argv  == parser.argv
      Taken == {Pointer(argv.chunk, argv.at + k - 1) : k \in 1 .. Len(words)}
      room  == PreallocN(CommitN(ptrPool, Len(words)), MaxArgs)
  IN
  /\ ~Aborted
  /\ parser.pc = "lines"
  /\ parser.line <= Len(list[i])
  /\ args' = [a \in DOMAIN args \cup Taken |-> IF a \in Taken THEN words[a.at - argv.at + 1] ELSE args[a]]
  /\ parsed' = IF words = <<>> THEN parsed ELSE Append(parsed, [begin |-> line.begin, words |-> words])
  /\ IF IsEvent(words)
     THEN /\ events'  = Append(events, [argv |-> argv, argc |-> Len(words), words |-> words])
          /\ ptrPool' = room.pool
          /\ parser'  = [parser EXCEPT !.line = @ + 1, !.argv = room.ptr]
     ELSE /\ parser'  = [parser EXCEPT !.line = @ + 1]
          /\ UNCHANGED <<events, ptrPool>>
  /\ UNCHANGED <<file, loader, buf, readVars, isEmpty>>

ParserEnd ==
  LET i == parser.i IN
  /\ ~Aborted
  /\ parser.pc = "lines"
  /\ parser.line > Len(list[i])
  /\ buf'     = [buf EXCEPT ![i].state = "EMPTY"]
  /\ isEmpty' = [isEmpty EXCEPT ![i] = TRUE]
  /\ list'    = [list EXCEPT ![i] = <<>>]
  /\ parser'  = [parser EXCEPT !.i = Slot(i), !.pc = IF buf[i].eof THEN "done" ELSE "begin"]
  /\ UNCHANGED <<file, loader, reader, strPool, strings, ptrPool, args, events, parsed>>

(* All is read, or the program has ended.                                  *)
Finished ==
  /\ parser.pc = "done" \/ Aborted
  /\ UNCHANGED vars

Loader == ProduceBuffer \/ Abort
Reader == ReaderBegin \/ ReadLine \/ ReadNextWord \/ EndLine
Parser == ParserBegin \/ ParseLine \/ ParserEnd
Next == Loader \/ Reader \/ Parser \/ Finished

Spec == Init /\ [][Next]_vars

----------------------------------------------------------------------------
(* The arguments of an event stay what they were when the event was        *)
(* parsed: room that is only reserved for the next line, lines that turn   *)
(* out not to be events, and chunks that are used up never reach them.     *)
ArgumentsStay ==
  \A k \in 1 .. Len(events) : \A j \in 1 .. events[k].argc :
    LET a == Pointer(events[k].argv.chunk, events[k].argv.at + j - 1)
    IN a \in DOMAIN args /\ args[a] = events[k].words[j]
=============================================================================
