------------------------------ MODULE FileLines ------------------------------
(***************************************************************************)
(* What the lines and words of a file are by definition, and that the      *)
(* parser of LoadChunks gets them. Nothing here is code of the program.    *)
(***************************************************************************)
EXTENDS LoadChunks, FiniteSetsExt

Bytes == 1 .. Len(file)
IsLetter(p) == p \in Bytes /\ file[p] = Letter

(* A word is where its first and its last letter are.                      *)
FileWords == {w \in Bytes \X Bytes :
                /\ w[1] <= w[2]
                /\ \A p \in w[1] .. w[2] : IsLetter(p)
                /\ ~IsLetter(w[1] - 1) /\ ~IsLetter(w[2] + 1)}
LineEnds  == {p \in Bytes : file[p] = Newline}
SameLine(p, q) == \A e \in LineEnds : (e < p) = (e < q)
WordsBefore(w) == {v \in FileWords : v[1] < w[1] /\ SameLine(v[1], w[1])}
WordsFrom(w)   == {v \in FileWords : v[1] >= w[1] /\ SameLine(v[1], w[1])}

(* The word of S that k - 1 words of S precede, for every k.               *)
Ascending(S) ==
  [k \in 1 .. Cardinality(S) |-> CHOOSE w \in S : Cardinality({v \in S : v[1] < w[1]}) = k - 1]

(* A line with more than MaxArgs words goes on as another one.             *)
FirstWords == {w \in FileWords : Cardinality(WordsBefore(w)) % MaxArgs = 0}
NrWords(w) == IF Cardinality(WordsFrom(w)) < MaxArgs THEN Cardinality(WordsFrom(w)) ELSE MaxArgs
LineBegin(w) ==
  Max(IF WordsBefore(w) = {} THEN {0} \cup {e \in LineEnds : e < w[1]}
                             ELSE {v[2] + 1 : v \in WordsBefore(w)})
(* The bytes of a word, and the zero byte that ends it.                    *)
BytesOf(w) == [j \in 1 .. w[2] - w[1] + 2 |-> IF w[1] + j - 1 <= w[2] THEN w[1] + j - 1 ELSE Nul]
LineFrom(w) == [begin |-> LineBegin(w),
                words |-> [k \in 1 .. NrWords(w) |-> BytesOf(Ascending(WordsFrom(w))[k])]]

(* Where the reads begin that find no line end.                            *)
Reads == {p \in 0 .. Len(file) : p % BufSize = 0 /\ (p = 0 \/ p < Len(file))}
NoEnd == {p \in Reads : \A e \in LineEnds : e <= p \/ e > p + BufSize}

(* A word of a line that ends before the first of them begins.             *)
Uncut(w) == \E e \in LineEnds : e > w[2] /\ \A p \in NoEnd : e <= p
SeenWords == IF NoEnd = {} THEN FileWords ELSE {w \in FileWords : Uncut(w)}

Whole == LET first == Ascending(FirstWords \cap SeenWords)
         IN [k \in DOMAIN first |-> LineFrom(first[k])]

(* However the lines of a file lie across its buffers, the parser sees all *)
(* of them, once, in order, with their own words and with where they begin *)
(* in the file, although the words are cut in the buffers and the buffers  *)
(* are used again.  The exception: a read() whose bytes hold no line end - *)
(* a line longer than a buffer, or a last line without an end that crosses *)
(* the border of two - cuts the line it belongs to; all before it is seen.  *)
(* Only such a read() can end the program.                                 *)
LinesOfFile ==
  /\ \A k \in DOMAIN parsed \cap DOMAIN Whole : parsed[k] = Whole[k]
  /\ NoEnd = {} => Len(parsed) <= Len(Whole)
  /\ parser.pc = "done" => Len(parsed) >= Len(Whole)
  /\ Aborted => NoEnd # {}
=============================================================================
