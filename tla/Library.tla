------------------------------- MODULE Library -------------------------------
(***************************************************************************)
(* The algorithms of user space and of the boot loader that keep no state  *)
(* between calls: matching and copying of strings (grep.c, wc.c, sh.c,     *)
(* string.c, fs.c), numbers (printf.c, sysfile.c), the heap (umalloc.c),   *)
(* the refill of the random numbers (rand.c) and bootmain.c, each beside   *)
(* what it is for.  A string is a sequence of characters; NUL, which ends  *)
(* a C string in an array, is "".                                          *)
(***************************************************************************)
EXTENDS Integers, Sequences, SequencesExt, FiniteSetsExt, Bitwise

CONSTANTS MaxText,   \* characters in a text
          BUFSIZE,   \* sizeof(buf) in grep.c
          DIRSIZ,    \* characters in a name of a directory entry
          WORD,      \* bits of an int
          MORECORE,  \* units that morecore() asks for at least
          HEAPMAX,   \* units that sbrk() can give
          SECTSIZE,  \* bytes in a sector
          MTN, MTM   \* N and M of rand.c

ASSUME LibraryAssumption ==
    /\ {MaxText, BUFSIZE, DIRSIZ, WORD, MORECORE, HEAPMAX, SECTSIZE, MTN, MTM} \subseteq Nat \ {0}
    /\ MTM < MTN /\ BUFSIZE > 1

From(s, i) == SubSeq(s, i, Len(s))
-----------------------------------------------------------------------------
(* grep.c.                                                                 *)

RECURSIVE matchhere(_, _), matchstar(_, _, _)
matchhere(re, text) ==
    IF re = <<>> THEN TRUE
    ELSE IF Len(re) > 1 /\ re[2] = "*" THEN matchstar(re[1], From(re, 3), text)
    ELSE IF re = <<"$">> THEN text = <<>>
    ELSE text # <<>> /\ re[1] \in {".", text[1]} /\ matchhere(Tail(re), Tail(text))

\* Mutant of matchstar: a * matches one or more.
M_matchstar(c, re, text) ==
    /\ text # <<>> /\ c \in {".", text[1]}
    /\ matchhere(re, Tail(text)) \/ matchstar(c, re, Tail(text))

matchstar(c, re, text) ==
    \/ matchhere(re, text)
    \/ text # <<>> /\ c \in {".", text[1]} /\ matchstar(c, re, Tail(text))

match(re, text) ==
    IF re # <<>> /\ re[1] = "^" THEN matchhere(Tail(re), text)
    ELSE \E i \in 1 .. Len(text) + 1 : matchhere(re, From(text, i))

\* What a pattern means: its items match consecutive pieces of the text.
RECURSIVE Items(_)
Items(re) ==
    IF re = <<>> THEN <<>>
    ELSE IF Len(re) > 1 /\ re[2] = "*" THEN <<[c |-> re[1], star |-> TRUE]>> \o Items(From(re, 3))
    ELSE <<[c |-> re[1], star |-> FALSE]>> \o Items(Tail(re))
End == [c |-> "$", star |-> FALSE]
Fits(item, s) == /\ \A i \in DOMAIN s : item.c \in {".", s[i]}
                 /\ item.star \/ Len(s) = 1

Matches(re, text) ==
    LET front == re # <<>> /\ re[1] = "^"
        all == Items(IF front THEN Tail(re) ELSE re)
        end == all # <<>> /\ Last(all) = End
        items == IF end THEN SubSeq(all, 1, Len(all) - 1) ELSE all
    IN  \E cut \in [0 .. Len(items) -> 0 .. Len(text)] :
          /\ \A i \in DOMAIN items : /\ cut[i - 1] <= cut[i]
                                     /\ Fits(items[i], SubSeq(text, cut[i - 1] + 1, cut[i]))
          /\ front => cut[0] = 0
          /\ end => cut[Len(items)] = Len(text)

\* grep() of a file: the buffer is filled by each read, complete lines are
\* printed or not, what follows them is kept; without a newline nothing is.
RECURSIVE PrintLines(_, _)
PrintLines(re, buf) ==
    LET k == SelectInSeq(buf, LAMBDA ch : ch = "\n")
    IN  IF k = 0 THEN <<>>
        ELSE (IF match(re, SubSeq(buf, 1, k - 1)) THEN SubSeq(buf, 1, k) ELSE <<>>)
             \o PrintLines(re, From(buf, k + 1))

Kept(buf) == IF \A i \in DOMAIN buf : buf[i] # "\n" THEN <<>>
             ELSE From(buf, SelectLastInSeq(buf, LAMBDA ch : ch = "\n") + 1)

RECURSIVE grep(_, _, _)
grep(re, file, m) ==
    LET n == Min({BUFSIZE - Len(m) - 1, Len(file)})
        buf == m \o SubSeq(file, 1, n)
    IN  IF n = 0 THEN <<>> ELSE PrintLines(re, buf) \o grep(re, From(file, n + 1), Kept(buf))

\* wc(): a word that goes on in the next buffer is one word.
Blank == {" ", "\n"}
wcwords(chunks) ==
    LET Char(s, ch) == IF ch \in Blank THEN [s EXCEPT !.inword = FALSE]
                       ELSE [w |-> IF s.inword THEN s.w ELSE s.w + 1, inword |-> TRUE]
        Chunk(s, data) == FoldLeft(Char, s, data)
    IN  FoldLeft(Chunk, [w |-> 0, inword |-> FALSE], chunks).w
-----------------------------------------------------------------------------
(* The tokens of sh.c.  Positions count from 1; es is Len(s) + 1.          *)
Whitespace == {" ", "\t"}
SymbolChars == {"<", "|", ">", "&", ";", "(", ")"}
CharAt(s, i) == IF i > Len(s) THEN "" ELSE s[i]
SkipWhile(s, i, S) == Min({j \in i .. Len(s) + 1 : CharAt(s, j) \notin S})
Word(s, i) == Min({j \in i .. Len(s) + 1 : CharAt(s, j) \in Whitespace \cup SymbolChars \cup {""}})

\* gettoken(): its kind, the token [q, eq), and where to go on.
gettoken(s, i) ==
    LET q == SkipWhile(s, i, Whitespace)
        ch == CharAt(s, q)
        tok == CASE ch = "" -> "" [] ch = ">" /\ CharAt(s, q + 1) = ">" -> "+"
                 [] ch \in SymbolChars -> ch [] OTHER -> "a"
        eq == CASE tok = "" -> q [] tok = "+" -> q + 2 [] tok = "a" -> Word(s, q) [] OTHER -> q + 1
    IN  [tok |-> tok, q |-> q, eq |-> eq, next |-> SkipWhile(s, eq, Whitespace)]

RECURSIVE TokensFrom(_, _)
TokensFrom(s, i) == LET t == gettoken(s, i) IN
                    IF t.tok = "" THEN <<>> ELSE <<t>> \o TokensFrom(s, t.next)

\* nulterminate(): NULs after the words, once the whole line is parsed.
Words(s) == SelectSeq(TokensFrom(s, 1), LAMBDA t : t.tok = "a")
nulterminate(s) == LET Put(b, t) == [b EXCEPT ![t.eq] = ""]
                   IN  FoldLeft(Put, Append(s, ""), Words(s))

CString(b, q) == SubSeq(b, q, Min({j \in q .. Len(b) : b[j] = ""}) - 1)
-----------------------------------------------------------------------------
(* Names and paths (string.c, fs.c), numbers (printf.c, sysfile.c).        *)

\* Copying n characters of the array a from src to dst, in one order.
Move(a, dst, src, order) ==
    LET Put(b, i) == [b EXCEPT ![dst + i] = b[src + i]] IN FoldLeft(Put, a, order)
Upwards(n) == [i \in 1 .. n |-> i - 1]
memmove(a, dst, src, n) ==
    Move(a, dst, src, IF src < dst /\ src + n > dst THEN Reverse(Upwards(n)) ELSE Upwards(n))

strncpy(t, n) == [i \in 1 .. n |-> CharAt(t, i)]

\* Whether strncmp() returns 0.
SameName(p, q, n) ==
    LET stop == {i \in 1 .. n : CharAt(p, i) = "" \/ CharAt(p, i) # CharAt(q, i)}
    IN  stop = {} \/ CharAt(p, Min(stop)) = CharAt(q, Min(stop))
namecmp(s, t) == SameName(s, t, DIRSIZ)

\* skipelem(): name keeps what follows the NUL of a short element.
skipelem(path, name) ==
    LET a == SkipWhile(path, 1, {"/"})
        e == Min({j \in a .. Len(path) + 1 : CharAt(path, j) \in {"/", ""}})
    IN  [found |-> a <= Len(path), rest |-> From(path, SkipWhile(path, e, {"/"})),
         name |-> [i \in 1 .. DIRSIZ |-> IF i <= e - a THEN path[a + i - 1]
                                         ELSE IF i = e - a + 1 THEN "" ELSE name[i]]]

RECURSIVE Elements(_, _)
Elements(path, name) == LET e == skipelem(path, name) IN
                        IF e.found THEN <<e.name>> \o Elements(e.rest, e.name) ELSE <<>>

RECURSIVE Digits(_, _)
Digits(x, base) == IF x < base THEN <<x>> ELSE Append(Digits(x \div base, base), x % base)

\* printint(): -xx is taken of an int and read as an unsigned.
printint(xx, base, sgn) ==
    LET neg == sgn /\ xx < 0
    IN  [neg |-> neg, digits |-> Digits((IF neg THEN -xx ELSE xx) % 2^WORD, base)]

atoi(digits) == FoldLeft(LAMBDA n, d : n * 10 + d, 0, digits)

\* itoa() of the kernel: the digits stay in the order they are found in.
RECURSIVE itoa(_)
itoa(num) == IF num <= 0 THEN <<>> ELSE <<num % 10>> \o itoa(num \div 10)
-----------------------------------------------------------------------------
(* kbd.c: one letter, the keys that shift it and the two Enter keys.  The  *)
(* code of a key released is the code plus 128.                            *)
E0 == 224
shiftcode(d) == CASE d \in {42, 54} -> {"SHIFT"} [] d \in {29, 157} -> {"CTL"} [] OTHER -> {}
togglecode(d) == IF d = 58 THEN {"CAPSLOCK"} ELSE {}
charcode(shift, d) ==
    CASE d = 30 -> IF "CTL" \in shift THEN "^A" ELSE IF "SHIFT" \in shift THEN "A" ELSE "a"
      [] d \in {28, 156} -> IF "CTL" \in shift THEN "\r" ELSE "\n"
      [] OTHER -> ""
Swap(c) == CASE c = "a" -> "A" [] c = "A" -> "a" [] OTHER -> c

kbdgetc(shift, data) ==
    LET Down(d) ==
            LET keys == (shift \ {"E0ESC"}) \cup shiftcode(d)
                now == (keys \ togglecode(d)) \cup (togglecode(d) \ keys)
            IN  [shift |-> now, c |-> IF "CAPSLOCK" \in now THEN Swap(charcode(now, d))
                                      ELSE charcode(now, d)]
    IN  CASE data = E0 -> [shift |-> shift \cup {"E0ESC"}, c |-> ""]
          [] data # E0 /\ data >= 128 ->
               [shift |-> shift \ (shiftcode(IF "E0ESC" \in shift THEN data ELSE data - 128)
                                    \cup {"E0ESC"}), c |-> ""]
          [] OTHER -> Down(IF "E0ESC" \in shift THEN data + 128 ELSE data)
-----------------------------------------------------------------------------
(* The heap of umalloc.c: sizes and addresses in units of a header.  base  *)
(* is at 0, what sbrk() gives starts at 1.  live are the blocks handed out.*)

Heap0 == [ptr |-> [a \in 0 .. HEAPMAX |-> 0], size |-> [a \in 0 .. HEAPMAX |-> 0],
          freep |-> 0, brk |-> 1, live |-> {}]

\* Where in the ring of free blocks bp belongs.
RECURSIVE Place(_, _, _)
Place(h, p, bp) ==
    LET q == h.ptr[p]
    IN  IF (p < bp /\ bp < q) \/ (p >= q /\ (p < bp \/ bp < q)) THEN p ELSE Place(h, q, bp)

free(h, bp) ==
    LET p == Place(h, h.freep, bp)
        q == h.ptr[p]
        Up == IF bp + h.size[bp] = q
              THEN [h EXCEPT !.size[bp] = @ + h.size[q], !.ptr[bp] = h.ptr[q]]
              ELSE [h EXCEPT !.ptr[bp] = q]
        Down(g) == IF p + g.size[p] = bp
                   THEN [g EXCEPT !.size[p] = @ + g.size[bp], !.ptr[p] = g.ptr[bp]]
                   ELSE [g EXCEPT !.ptr[p] = bp]
    IN  [Down(Up) EXCEPT !.freep = p, !.live = @ \ {bp}]

morecore(h, nu) ==
    LET n == Max({nu, MORECORE}) IN
    IF h.brk + n > HEAPMAX + 1 THEN h
    ELSE free([h EXCEPT !.brk = @ + n, !.size[h.brk] = n], h.brk)

Take(h, prev, p, n) ==
    LET left == h.size[p] - n IN
    IF left = 0 THEN [h EXCEPT !.ptr[prev] = h.ptr[p], !.freep = prev, !.live = @ \cup {p}]
    ELSE [h EXCEPT !.size[p] = left, !.size[p + left] = n, !.freep = prev,
                   !.live = @ \cup {p + left}]

RECURSIVE Search(_, _, _, _)
Search(h, prev, p, n) ==
    LET more == morecore(h, n) IN
    IF h.size[p] >= n THEN Take(h, prev, p, n)
    ELSE IF p # h.freep THEN Search(h, p, h.ptr[p], n)
    ELSE IF more = h THEN h
    ELSE Search(more, more.freep, more.ptr[more.freep], n)

malloc(h, nbytes) == Search(h, h.freep, h.ptr[h.freep], nbytes + 1)
-----------------------------------------------------------------------------
(* rand.c: words of WORD bits; the tempering of a word is left out.        *)

sgenrand(seed) ==
    LET Set(m, i) == [m EXCEPT ![i] = (69069 * m[i - 1]) % 2^WORD]
    IN  FoldLeft(Set, [i \in 0 .. MTN - 1 |-> seed % 2^WORD], Tail(Upwards(MTN)))

Twist(upper, lower) ==
    LET y == (upper \div 2^(WORD - 1)) * 2^(WORD - 1) + (lower % 2^(WORD - 1))
    IN  (y \div 2) ^^ (IF y % 2 = 1 THEN 2^(WORD - 1) + 1 ELSE 0)

\* The N words made at one time, in place; the last one uses the new mt[0].
Refill(mt) ==
    LET Make(m, kk) ==
            LET far == IF kk < MTN - MTM THEN kk + MTM ELSE kk + MTM - MTN
            IN  [m EXCEPT ![kk] = m[far] ^^ Twist(m[kk], m[(kk + 1) % MTN])]
    IN  FoldLeft(Make, mt, Upwards(MTN))

genrand(g) ==
    LET Next(s) == [s EXCEPT !.out = Append(@, s.mt[s.mti]), !.mti = @ + 1]
    IN  Next(IF g.mti >= MTN THEN [g EXCEPT !.mt = Refill(@), !.mti = 0] ELSE g)
-----------------------------------------------------------------------------
(* bootmain.c.  The byte k of the kernel file is k + 1; memory is all 0.   *)

\* readseg(): whole sectors, from the one of offset on.
readseg(mem, pa, count, offset) ==
    LET start == pa - (offset % SECTSIZE)
        sectors == IF pa + count <= start THEN 0
                   ELSE (pa + count - start + SECTSIZE - 1) \div SECTSIZE
        from == (offset \div SECTSIZE) * SECTSIZE
    IN  [a \in DOMAIN mem |-> IF a \in start .. start + sectors * SECTSIZE - 1
                              THEN from + (a - start) + 1 ELSE mem[a]]

bootmain(mem, segments) ==
    LET Load(m, ph) ==
            LET got == readseg(m, ph.paddr, ph.filesz, ph.off)
            IN  [a \in DOMAIN m |-> IF a \in ph.paddr + ph.filesz .. ph.paddr + ph.memsz - 1
                                    THEN 0 ELSE got[a]]
    IN  FoldLeft(Load, mem, segments)
-----------------------------------------------------------------------------
(* Properties, of every input up to a size.                                *)

Texts(chars) == BoundedSeq(chars, MaxText)

\* match() finds what the pattern means, in texts of a line.
GrepMatches ==
    \A f \in {<<>>, <<"^">>}, r \in BoundedSeq({"a", ".", "*", "$"}, 3),
       text \in BoundedSeq({"a", "b"}, 3) : match(f \o r, text) = Matches(f \o r, text)

\* grep() prints the complete lines that match, each once, wherever the reads
\* cut the file, if the reads fill the buffer and every line fits into it.
Lines(file) ==
    LET ends == SetToSortSeq({i \in DOMAIN file : file[i] = "\n"}, <)
    IN  [k \in DOMAIN ends |-> SubSeq(file, IF k = 1 THEN 1 ELSE ends[k - 1] + 1, ends[k])]
GrepPrints ==
    \A file \in Texts({"a", "b", "\n"}) :
        (\A l \in Range(Lines(file)) : Len(l) < BUFSIZE) =>
            grep(<<"a">>, file, <<>>) =
                FlattenSeq(SelectSeq(Lines(file), LAMBDA l : "a" \in Range(l)))

\* wc() counts the words of the text, wherever the reads cut it.
CountsWords ==
    \A text \in Texts({"a", " "}) : \A k \in 0 .. Len(text) :
        wcwords(<<SubSeq(text, 1, k), From(text, k + 1)>>) =
            Cardinality({i \in DOMAIN text : text[i] = "a" /\ CharAt(<<" ">> \o text, i) = " "})

\* The tokens of the shell are the line without its whitespace, words are as
\* long as they can be, and nulterminate() leaves every word what it was.
TokensKept ==
    \A s \in Texts({"a", " ", ">", "|"}) :
        LET all == TokensFrom(s, 1) IN
        /\ FlattenSeq([k \in DOMAIN all |-> SubSeq(s, all[k].q, all[k].eq - 1)])
             = SelectSeq(s, LAMBDA ch : ch \notin Whitespace)
        /\ \A t \in Range(Words(s)) :
             /\ CharAt(s, t.eq) # "a" /\ CharAt(<<"">> \o s, t.q) # "a"
             /\ CString(nulterminate(s), t.q) = SubSeq(s, t.q, t.eq - 1)

\* The elements of a path name the entries that were made for the components,
\* of which DIRSIZ characters count, whatever skipelem() had in name before.
Components(path) ==
    LET Sep(i) == CharAt(path, i) \in {"/", ""}
        starts == SetToSortSeq({i \in DOMAIN path : ~Sep(i) /\ (i = 1 \/ Sep(i - 1))}, <)
    IN  [k \in DOMAIN starts |->
           SubSeq(path, starts[k], Min({j \in starts[k] .. Len(path) + 1 : Sep(j)}) - 1)]
NamesKept ==
    \A path \in Texts({"/", "a", "b"}) :
        LET es == Elements(path, [i \in 1 .. DIRSIZ |-> "b"])
            cs == Components(path)
            Cut(n) == SubSeq(n, 1, Min({DIRSIZ, Len(n)}))
        IN  /\ Len(es) = Len(cs)
            /\ \A k \in DOMAIN cs, n \in BoundedSeq({"a", "b"}, DIRSIZ + 1) :
                 namecmp(es[k], strncpy(n, DIRSIZ)) <=> Cut(n) = Cut(cs[k])

\* The digits of printint() are the number, the least one too; those of the
\* itoa() of the kernel are the number backwards.
NumbersKept ==
    \A x \in -(2^(WORD - 1)) .. 2^(WORD - 1) - 1 :
        LET p == printint(x, 10, TRUE) IN
        /\ (IF p.neg THEN -atoi(p.digits) ELSE atoi(p.digits)) = x
        /\ FoldLeft(LAMBDA n, d : n * 16 + d, 0, printint(x, 16, FALSE).digits) = x % 2^WORD
        /\ x > 0 => itoa(x) = Reverse(p.digits)

\* memmove() copies what was there, overlapping or not; the one of ulib.c,
\* which goes upwards only, if it moves down or nothing overlaps.
MovesAll ==
    \A dst, src, n \in 0 .. MaxText :
        LET a == [i \in 0 .. 2 * MaxText |-> i]
            moved == [i \in DOMAIN a |-> IF i \in dst .. dst + n - 1 THEN src + i - dst ELSE i]
        IN  /\ memmove(a, dst, src, n) = moved
            /\ dst <= src \/ src + n <= dst => Move(a, dst, src, Upwards(n)) = moved

\* Whatever keys are down, a letter is what they make of it, if only one of
\* the keys with the same meaning is used; an Enter key is an Enter.
ShiftKeys == {<<42>>, <<54>>}
CtlKeys   == {<<29>>, <<E0, 29>>}
EnterKeys == {<<28>>, <<E0, 28>>}
KeyEvents == [key : ShiftKeys \cup CtlKeys \cup EnterKeys \cup {<<58>>, <<30>>}, up : BOOLEAN]
KeysDecoded ==
    \A seq \in BoundedSeq(KeyEvents, 3) :
        LET Used(keys) == {seq[i].key : i \in DOMAIN seq} \cap keys
            Down(k) == ~seq[Max({i \in DOMAIN seq : seq[i].key = k})].up
            Codes(v) == IF v.up THEN [v.key EXCEPT ![Len(v.key)] = @ + 128] ELSE v.key
            Feed(g, d) == kbdgetc(g.shift, d)
            Typed(k) == FoldLeft(Feed, [shift |-> {}, c |-> ""],
                                 FlattenSeq([i \in DOMAIN seq |-> Codes(seq[i])]) \o k).c
            caps == Cardinality({i \in DOMAIN seq : seq[i] = [key |-> <<58>>, up |-> FALSE]}) % 2 = 1
            shifted == \E k \in Used(ShiftKeys) : Down(k)
        IN  Cardinality(Used(ShiftKeys)) < 2 /\ Cardinality(Used(CtlKeys)) < 2 =>
              /\ Typed(<<30>>) = IF \E k \in Used(CtlKeys) : Down(k) THEN "^A"
                                 ELSE IF shifted # caps THEN "A" ELSE "a"
              /\ \A k \in EnterKeys : Typed(k) \in {"\n", "\r"}

TextKept == KeysDecoded /\ GrepMatches /\ GrepPrints /\ CountsWords /\ TokensKept /\ NamesKept /\ NumbersKept

\* Whatever is allocated and freed, the blocks handed out and the free ones
\* part the heap, the ring of free blocks has them all in the order of their
\* addresses, and no two of them could be one.
RECURSIVE Ring(_, _)
Ring(h, p) == IF p = 0 THEN <<>> ELSE <<p>> \o Ring(h, h.ptr[p])
HeapOps == {[op |-> "malloc", n |-> n] : n \in 1 .. MORECORE} \cup
           {[op |-> "free", n |-> n] : n \in 1 .. 3}
HeapAfter(ops) ==
    LET Do(h, o) == IF o.op = "malloc" THEN malloc(h, o.n)
                    ELSE IF Cardinality(h.live) < o.n THEN h
                    ELSE free(h, SetToSortSeq(h.live, <)[o.n])
    IN  FoldLeft(Do, Heap0, ops)
HeapParted ==
    \A ops \in BoundedSeq(HeapOps, 5) :
        LET h == HeapAfter(ops)
            ring == Ring(h, h.ptr[0])
            Units(b) == b .. b + h.size[b] - 1
        IN  /\ \A a \in 1 .. h.brk - 1 :
                  Cardinality({b \in h.live \cup Range(ring) : a \in Units(b)}) = 1
            /\ h.freep \in {0} \cup Range(ring)
            /\ \A k \in 1 .. Len(ring) - 1 : ring[k] + h.size[ring[k]] < ring[k + 1]

\* genrand() returns the words of one recurrence, refill after refill.
Recurrence ==
    \A seed \in 0 .. 2^WORD - 1 :
        LET Draw(g, i) == genrand(g)
            x == sgenrand(seed)
            out == FoldLeft(Draw, [mt |-> x, mti |-> MTN, out |-> <<>>], Upwards(2 * MTN)).out
            X(k) == IF k < MTN THEN x[k] ELSE out[k - MTN + 1]
        IN  \A k \in 0 .. 2 * MTN - 1 : X(k + MTN) = X(k + MTM) ^^ Twist(X(k), X(k + 1))

\* Every segment is in memory after bootmain(), and zeros up to its size, if
\* the sectors of a later one do not start below the end of an earlier one.
SegmentsLoaded ==
    LET Segment == [paddr : {SECTSIZE, 2 * SECTSIZE, 3 * SECTSIZE + 1}, filesz : 0 .. SECTSIZE + 1,
                    memsz : 1 .. 2 * SECTSIZE, off : 0 .. SECTSIZE]
        mem0 == [a \in 0 .. 7 * SECTSIZE |-> 0]
        Held(m, ph) == \A i \in 0 .. ph.memsz - 1 :
                          m[ph.paddr + i] = IF i < ph.filesz THEN ph.off + i + 1 ELSE 0
        Segments == {ph \in Segment : ph.filesz <= ph.memsz}
    IN  \A s, t \in Segments :
            s.paddr + s.memsz <= t.paddr - (t.off % SECTSIZE) =>
                LET m == bootmain(mem0, <<s, t>>) IN Held(m, s) /\ Held(m, t)

MemoryKept == MovesAll /\ HeapParted /\ Recurrence /\ SegmentsLoaded
=============================================================================
