--------------------------- MODULE TextTransforms ---------------------------
(***************************************************************************)
(* Four of the passes a block of text goes through before it is modelled   *)
(* (CoTextPipeline) and the passes that undo them, in the other order:     *)
(* line ends of two bytes become one, the beginning a line shares with the *)
(* one before becomes a count, line ends inside paragraphs become spaces,  *)
(* and closing tags lose their names.  A pass that does not pay, or has no *)
(* room, is left out.  Every pass reads its text once, from front to back; *)
(* the state of one is in the field m of its side.                         *)
(*                                                                         *)
(* A byte is a number, with the few that matter told apart.  The side      *)
(* stream of the third pass is the sequence of its decisions, each with    *)
(* the context it was coded in; one that is read in another, or behind the *)
(* end, gives anything.                                                    *)
(***************************************************************************)
EXTENDS Integers, Sequences, FiniteSets, SequencesExt

CONSTANTS
    Texts,      \* pairs of a text and the passes asked for
    GainMax,    \* single line ends a text may have in excess: 16
    MinText,    \* shorter ones are left alone: 10 and 16
    RunMax,     \* longest shared beginning: 31
    LineHard,   \* shortest line whose end is a space: 4
    LineMin, LineMax,  \* lines that count for the length to expect: 40, 96
    LinesKept,  \* so many of them: 32
    LineGuess,  \* and what is expected at first: 70
    LfEvery,    \* at most one line end in so many bytes: 20
    TagMax,     \* letters of a tag that are looked at: 16
    LookMax,    \* bytes looked at for the end of a tag: 33
    StackMax,   \* open tags: 128
    RingMax,    \* short tags known not to be closed: 4
    HtmlSlack,  \* bytes the fourth pass must save: 8
    RoomMin     \* room of a pass back, beyond twice its text: 65536

VARIABLES input,  \* the text
          enc,    \* the writer: its pass, the text before and behind it, the passes done
          wire,   \* what the record carries
          dec     \* the reader

Order == <<"crlf", "rle", "lf", "html">>

\* Bytes: those below Sp are control characters, 7 to 9 letters, 8 the lower case of
\* 9, and from Mark on letters beyond ASCII.
Nul == 0
Lf == 1
Cr == 2
Sp == 3
Slash == 4
Lt == 5
Gt == 6
Mark == 20

Letter(c) == c \in 7 .. 9 \/ c >= Mark

\* What a pass keeps: the state and the byte before (crlf, lf), the place of the line
\* before (rle) or of this one (lf), the gain, the lengths of lines, the tags.
Fresh == [mode |-> 0, last |-> Nul, seen |-> FALSE, gain |-> 0, anchor |-> 0, marked |-> FALSE,
          lens |-> [i \in 1 .. LinesKept |-> LineGuess], breaks |-> 1, stack |-> <<>>, recent |-> <<>>]

\* gap: the block has met one of the two known gaps of the passes (see the properties).
Init ==
    /\ input = <<>>
    /\ enc = [pass |-> 0, in |-> <<>>, at |-> 0, out |-> <<>>, m |-> Fresh, bits |-> {}, done |-> {},
              side |-> <<>>, rleGap |-> FALSE, htmlGap |-> FALSE, rest |-> 0]
    /\ wire = <<>>
    /\ dec = [pass |-> 5, in |-> <<>>, at |-> 0, out |-> <<>>, m |-> Fresh, coded |-> 0, room |-> 0,
              failed |-> FALSE]

Smaller(a, b) == IF a < b THEN a ELSE b

-----------------------------------------------------------------------------
(* The writer *)

Asked(from, bits) ==
    {k \in from .. 4 : Order[k] \in bits} \cup {5}

Least(ks) == CHOOSE k \in ks : \A j \in ks : k <= j

\* To the next pass asked for; 5 is the end.
Onward(s, text) ==
    LET k == Least(Asked(s.pass + 1, s.bits))
    IN [s EXCEPT !.pass = k, !.in = text, !.at = 0, !.out = IF k = 2 THEN <<Lf>> ELSE <<>>,
                 !.m = [Fresh EXCEPT !.gain = IF k = 2 THEN -1 ELSE GainMax]]

\* rest: what of the file comes after this block.
Begin(text, bits, rest) ==
    /\ input' = text
    /\ enc' = Onward([enc EXCEPT !.bits = bits, !.rest = rest], text)
    /\ UNCHANGED <<wire, dec>>

In(name) == enc.pass \in 1 .. 4 /\ Order[enc.pass] = name

Byte == enc.in[enc.at + 1]

NextByte == enc.in[enc.at + 2]

Left == Len(enc.in) - enc.at - 1

\* So many bytes read, these out.
Takes(n, bytes) == [enc EXCEPT !.at = @ + n, !.out = @ \o bytes]

Writes(s) == enc' = s /\ UNCHANGED <<input, wire, dec>>

\* The pass ends and its text is taken, or is left out.
Ends(s, pays) ==
    Writes(IF pays THEN Onward([s EXCEPT !.done = @ \cup {Order[s.pass]}], s.out) ELSE Onward(s, s.in))

(* Line ends of two bytes: state 1 in a text of CR LF, 2 in one of CR *)

CrlfCopy ==
    /\ In("crlf") /\ Left > 0 /\ Byte \notin {Lf, Cr}
    /\ Writes([Takes(1, <<Byte>>) EXCEPT !.m.last = Byte])

CrlfEnter ==
    /\ In("crlf") /\ Left > 0 /\ Byte \in {Lf, Cr} /\ enc.m.mode = 0
    /\ LET mode == IF Byte = Lf /\ enc.m.last = Cr THEN 1 ELSE IF Byte = Cr /\ NextByte > Cr THEN 2 ELSE 0
       IN Writes([Takes(1, <<Byte>>) EXCEPT !.m.last = Byte, !.m.mode = mode, !.m.seen = @ \/ mode # 0])

\* Both bytes become an LF; any other line end is said with a CR before it.
CrlfPair ==
    /\ In("crlf") /\ Left > 0 /\ Byte \in {Lf, Cr} /\ enc.m.mode = 1
    /\ IF Byte = Cr /\ Left > 1 /\ NextByte = Lf
       THEN Writes([Takes(2, <<Lf>>) EXCEPT !.m.last = Nul, !.m.gain = @ + 1])
       ELSE IF enc.m.gain = 0 THEN Ends(enc, FALSE)
       ELSE Writes([Takes(1, <<Cr, Byte>>) EXCEPT !.m.last = Nul, !.m.gain = @ - 1, !.m.mode = 0])

CrlfSingle ==
    /\ In("crlf") /\ Left > 0 /\ Byte \in {Lf, Cr} /\ enc.m.mode = 2
    /\ Writes([Takes(1, <<IF Byte = Cr THEN Lf ELSE Cr>>)
               EXCEPT !.m.last = Nul, !.m.mode = IF Byte = Cr THEN 2 ELSE 0])

CrlfEnd ==
    /\ In("crlf") /\ Left = 0
    /\ LET s == Takes(1, <<Byte>>) IN Ends(s, enc.m.seen /\ Len(s.out) < Len(enc.in))

(* The beginning a line shares with the line before *)

\* How far the lines at a and b agree.
Agree(s, a, b) ==
    LET most == Smaller(RunMax, Len(s) - b)
    IN CHOOSE n \in 0 .. most : /\ \A i \in 1 .. n : s[a + i] = s[b + i]
                                /\ n = most \/ s[a + n + 1] # s[b + n + 1]

RleEnds(s) == Ends(s, s.m.gain < 0 /\ Len(s.out) < Len(s.in) - Len(s.in) \div 5)

RleCopy ==
    /\ In("rle") /\ Len(enc.in) >= MinText /\ Left > 0 /\ Byte # Lf
    /\ Writes(Takes(1, <<Byte>>))

\* A line that begins otherwise; its first byte is said to be one if it looks like a
\* count.
RleOther ==
    /\ In("rle") /\ Len(enc.in) >= MinText /\ Left > 0 /\ Byte = Lf /\ NextByte # enc.in[enc.m.anchor + 1]
    /\ IF NextByte < Mark
       THEN Writes([Takes(1, <<Lf>>) EXCEPT !.m.anchor = enc.at + 1, !.m.marked = FALSE])
       ELSE IF enc.m.gain = -1 THEN Ends(enc, FALSE)
       ELSE Writes([Takes(1, <<Lf, Mark>>) EXCEPT !.m.anchor = enc.at + 1, !.m.marked = TRUE, !.m.gain = @ + 1])

RleRun ==
    /\ In("rle") /\ Len(enc.in) >= MinText /\ Left > 0 /\ Byte = Lf /\ NextByte = enc.in[enc.m.anchor + 1]
    /\ LET n == Agree(enc.in, enc.m.anchor, enc.at + 1)
           s == [Takes(1 + n, <<Lf, Mark + n>>) EXCEPT !.m.anchor = enc.at + 1, !.m.marked = FALSE,
                                                       !.m.gain = @ + 1 - n, !.rleGap = @ \/ enc.m.marked]
       IN IF n = Left THEN RleEnds(s) ELSE Writes(s)

RleEnd ==
    /\ In("rle") /\ Len(enc.in) >= MinText /\ Left = 0
    /\ RleEnds(Takes(1, <<Byte>>))

TooShort ==
    /\ enc.pass \in 2 .. 4 /\ Len(enc.in) < MinText
    /\ Ends(enc, FALSE)

(* Line ends inside paragraphs *)

\* The end of a line behind so many bytes is one that is coded: the line is long
\* enough, a letter or tag follows, and no space or tag comes before.
Coded(s, at, line, before) ==
    /\ at - line >= LineHard /\ Len(s) - at > 1
    /\ s[at + 1] = Lt \/ Letter(s[at + 1])
    /\ before > Sp /\ before # Gt

WordLen(s, at) ==
    LET rem == Len(s) - at
    IN CHOOSE n \in 1 .. rem : /\ n = rem \/ s[at + n] \in {Sp, Lf}
                               /\ \A i \in 1 .. n - 1 : s[at + i] \notin {Sp, Lf}

\* What the model of the decision looks at.
Context(s, at, m) == <<at - m.anchor, WordLen(s, at), m.lens, m.last, s[at + 1]>>

\* The latest lines of usual length.
Counted(lens, len) ==
    IF len \in LineMin .. LineMax THEN [i \in DOMAIN lens |-> IF i = 1 THEN len ELSE lens[i - 1]] ELSE lens

LfCopy ==
    /\ In("lf") /\ Len(enc.in) >= MinText /\ Left > 0
    /\ Byte \notin {Lf, Sp} \/ ~Coded(enc.in, enc.at + 1, enc.m.anchor, enc.m.last)
    /\ Writes([Takes(1, <<Byte>>) EXCEPT !.m.last = Byte, !.m.anchor = IF Byte = Lf THEN enc.at + 1 ELSE @])

LfCode ==
    /\ In("lf") /\ Len(enc.in) >= MinText /\ Left > 0 /\ Byte \in {Lf, Sp}
    /\ Coded(enc.in, enc.at + 1, enc.m.anchor, enc.m.last)
    /\ LET s == [Takes(1, <<Sp>>) EXCEPT
                   !.side = Append(@, <<Context(enc.in, enc.at + 1, enc.m), Byte = Lf>>), !.m.last = Sp]
       IN Writes(IF Byte = Sp THEN s
                 ELSE [s EXCEPT !.m.anchor = enc.at + 1, !.m.breaks = @ + 1,
                                !.m.lens = Counted(@, enc.at + 1 - enc.m.anchor)])

LfEnd ==
    /\ In("lf") /\ Len(enc.in) >= MinText /\ Left = 0
    /\ LET s == Takes(1, <<Byte>>)
       IN IF Len(enc.in) \div enc.m.breaks >= LfEvery THEN Ends(s, TRUE)
          ELSE Ends([s EXCEPT !.side = <<>>], FALSE)

(* Tags *)

\* The name at a place.
Name(s, at) ==
    LET most == Smaller(TagMax, Len(s) - at)
        n == CHOOSE n \in 0 .. most : /\ \A i \in 1 .. n : Letter(s[at + i])
                                      /\ n = most \/ ~Letter(s[at + n + 1])
    IN SubSeq(s, at + 1, at + n)

\* In lower case.
Folded(name) == [i \in DOMAIN name |-> IF name[i] = 9 THEN 8 ELSE name[i]]

\* br, img and their like: one of two letters stands for them.
Predefined == {<<7, 7>>}

Unclosed(name, recent) == Len(name) < 4 /\ Folded(name) \in Predefined \cup {recent[i] : i \in DOMAIN recent}

\* Where looking for the end of the tag whose name is at a place comes to an end.
TagEnd(s, at, len) ==
    LET most == Smaller(LookMax, Len(s) - at)
    IN CHOOSE n \in Smaller(len, most) .. most : /\ \A i \in len .. n - 1 : s[at + i + 1] # Gt
                                                 /\ n = most \/ s[at + n + 1] = Gt

SelfClosing(s, at, len) == len > 2 /\ s[at + TagEnd(s, at, len)] = Slash

\* A full stack loses its top.
Pushed(stack, name) ==
    IF Len(stack) < StackMax THEN Append(stack, name) ELSE [stack EXCEPT ![StackMax] = name]

Opened(m, s, at) ==
    LET name == Name(s, at)
    IN IF name = <<>> \/ SelfClosing(s, at, Len(name)) \/ Unclosed(name, m.recent) THEN m
       ELSE [m EXCEPT !.stack = Pushed(@, name)]

Remembered(recent, name) ==
    IF Len(name) > 4 \/ Folded(name) \in {recent[i] : i \in DOMAIN recent} THEN recent
    ELSE SubSeq(<<Folded(name)>> \o recent, 1, Smaller(RingMax, Len(recent) + 1))

Top(stack) == IF stack = <<>> THEN <<>> ELSE stack[Len(stack)]

Rest(stack) == IF stack = <<>> THEN <<>> ELSE SubSeq(stack, 1, Len(stack) - 1)

\* Down to the tag that is closed; the short ones above it are not closed, as it
\* seems.
Unwound(m, name) ==
    LET kept == CHOOSE k \in 0 .. Len(m.stack) :
                    /\ k = 0 \/ m.stack[k] = name
                    /\ \A j \in k + 1 .. Len(m.stack) : m.stack[j] # name
    IN [m EXCEPT !.stack = SubSeq(@, 1, kept),
                 !.recent = FoldRight(LAMBDA tag, recent : Remembered(recent, tag),
                                      SubSeq(m.stack, kept + 1, Len(m.stack)), @)]

Closed(m, name) == IF name = <<>> \/ Unclosed(name, m.recent) THEN m ELSE Unwound(m, name)

HtmlEnds(s) == Ends(s, Len(s.out) < Len(s.in) - HtmlSlack)

HtmlTakes(n, bytes, m) ==
    LET s == [Takes(n, bytes) EXCEPT !.m = m] IN IF n > Left THEN HtmlEnds(s) ELSE Writes(s)

HtmlCopy ==
    /\ In("html") /\ Len(enc.in) >= MinText /\ (Byte # Lt \/ Left = 0)
    /\ HtmlTakes(1, <<Byte>>, enc.m)

\* Mutant: whatever comes behind the tag.
ShortensAlways(name) ==
    /\ name # <<>> /\ ~Unclosed(name, enc.m.recent) /\ name = Top(enc.m.stack)
    /\ Left > Len(name) + 1 /\ enc.in[enc.at + Len(name) + 3] = Gt

\* The tag on top of the stack is closed, and no slash comes behind it.
Shortens(name) ==
    LET behind == enc.at + Len(name) + 3
    IN /\ name # <<>> /\ ~Unclosed(name, enc.m.recent) /\ name = Top(enc.m.stack)
       /\ behind <= Len(enc.in) /\ enc.in[behind] = Gt
       /\ ~(behind < Len(enc.in) /\ enc.in[behind + 1] = Slash)

\* A name at the very end of the text is not looked up.
HtmlClose ==
    /\ In("html") /\ Len(enc.in) >= MinText /\ Left > 0 /\ Byte = Lt /\ NextByte = Slash
    /\ LET name == Name(enc.in, enc.at + 2)
       IN IF Shortens(name)
          THEN HtmlTakes(3 + Len(name), <<Lt, Slash>>, [enc.m EXCEPT !.stack = Rest(@)])
          ELSE HtmlTakes(2, <<Lt, Slash, Slash>>,
                         IF enc.at + 2 + Len(name) = Len(enc.in) THEN enc.m ELSE Closed(enc.m, name))

HtmlOpen ==
    /\ In("html") /\ Len(enc.in) >= MinText /\ Left > 0 /\ Byte = Lt /\ NextByte # Slash
    /\ LET len == Len(Name(enc.in, enc.at + 1))
           s == [Takes(2, <<Lt, NextByte>>) EXCEPT
                   !.m = Opened(@, enc.in, enc.at + 1),
                   !.htmlGap = @ \/ (len > 2 /\ \E i \in len + 1 .. TagEnd(enc.in, enc.at + 1, len) :
                                                   enc.in[enc.at + 1 + i] = Lt)]
       IN IF Left = 1 THEN HtmlEnds(s) ELSE Writes(s)

-----------------------------------------------------------------------------
(* The reader *)

\* tt_scratch: room for twice the text, then for all that is left of the file; the
\* third pass needs as much as it reads.
FirstRoom(k, text) ==
    IF k = 3 THEN Len(text) ELSE Smaller(2 * Len(text) + RoomMin, Len(input) + enc.rest)

Undone(below) == {k \in 1 .. below : Order[k] \in wire.done} \cup {0}

Most(ks) == CHOOSE k \in ks : \A j \in ks : j <= k

\* To the last pass not undone; 0 is the end.
Back(s, text) ==
    LET k == Most(Undone(s.pass - 1))
    IN [s EXCEPT !.pass = k, !.in = text, !.at = IF k = 2 THEN 1 ELSE 0, !.out = <<>>, !.m = Fresh,
                 !.room = FirstRoom(k, text)]

Send ==
    /\ enc.pass = 5 /\ wire = <<>>
    /\ wire' = [text |-> enc.in, done |-> enc.done, side |-> enc.side]
    /\ UNCHANGED <<input, enc, dec>>

Receive ==
    /\ wire # <<>> /\ dec.pass = 5
    /\ dec' = Back(dec, wire.text)
    /\ UNCHANGED <<input, enc, wire>>

Undoes(name) == ~dec.failed /\ dec.pass \in 1 .. 4 /\ Order[dec.pass] = name

Here == dec.in[dec.at + 1]

Unread == Len(dec.in) - dec.at

Reads(s) == dec' = s /\ UNCHANGED <<input, enc, wire>>

Gives(n, bytes) == [dec EXCEPT !.at = @ + n, !.out = @ \o bytes]

\* A pass that finds no room is done again with all there is, once.
NoRoom ==
    IF dec.room < Len(input) + enc.rest
    THEN Reads([Back([dec EXCEPT !.pass = @ + 1], dec.in) EXCEPT !.room = Len(input) + enc.rest])
    ELSE Reads([dec EXCEPT !.failed = TRUE])

\* On with the text, or to the next pass.
On(s) ==
    IF Len(s.out) > s.room THEN NoRoom
    ELSE IF s.at = Len(s.in) THEN Reads(Back(s, s.out))
    ELSE Reads(s)

CrlfBack ==
    /\ Undoes("crlf")
    /\ LET m == dec.m
           last == Unread = 1
           mode == IF Here = Lf /\ m.last = Cr THEN 1
                   ELSE IF Here = Cr /\ dec.in[dec.at + 2] > Cr THEN 2 ELSE 0
       IN CASE last \/ Here \notin {Lf, Cr} -> On([Gives(1, <<Here>>) EXCEPT !.m.last = Here])
            [] ~last /\ Here \in {Lf, Cr} /\ m.mode = 0 ->
                 On([Gives(1, <<Here>>) EXCEPT !.m.last = Here, !.m.mode = mode])
            [] ~last /\ Here = Lf /\ m.mode = 1 -> On([Gives(1, <<Cr, Lf>>) EXCEPT !.m.last = Nul])
            [] ~last /\ Here = Cr /\ m.mode = 1 ->
                 On([Gives(2, <<dec.in[dec.at + 2]>>) EXCEPT !.m.last = Nul, !.m.mode = 0])
            [] ~last /\ Here = Lf /\ m.mode = 2 -> On([Gives(1, <<Cr>>) EXCEPT !.m.last = Nul])
            [] ~last /\ Here = Cr /\ m.mode = 2 ->
                 On([Gives(1, <<Lf>>) EXCEPT !.m.last = Nul, !.m.mode = 0])

\* So many bytes from a place on, its own among them.
Repeated(out, from, n) ==
    LET longer[k \in 0 .. n] == IF k = 0 THEN out ELSE Append(longer[k - 1], longer[k - 1][from + k])
    IN longer[n]

\* Behind a line end: a count, the mark of a byte that is none, or the line itself.
RleBack ==
    /\ Undoes("rle")
    /\ LET s == Gives(1, <<Here>>)
           control == dec.in[dec.at + 2]
       IN IF Len(dec.out) = dec.room THEN NoRoom
          ELSE IF Here # Lf \/ Unread = 1 THEN On(s)
          ELSE IF Len(s.out) = dec.room THEN NoRoom
          ELSE IF control < Mark THEN Reads([s EXCEPT !.m.anchor = Len(s.out)])
          ELSE IF control = Mark THEN On([s EXCEPT !.at = @ + 1])
          ELSE IF control - Mark > dec.room - Len(s.out) THEN NoRoom
          ELSE On([s EXCEPT !.at = @ + 1, !.out = Repeated(@, dec.m.anchor, control - Mark),
                            !.m.anchor = Len(s.out)])

LfBack ==
    /\ Undoes("lf")
    /\ IF Unread = 1 \/ Here \notin {Lf, Sp} \/ ~Coded(dec.in, dec.at + 1, dec.m.anchor, dec.m.last)
       THEN On([Gives(1, <<Here>>) EXCEPT !.m.last = Here, !.m.anchor = IF Here = Lf THEN dec.at + 1 ELSE @])
       ELSE \E insert \in
                  IF dec.coded < Len(wire.side)
                       /\ wire.side[dec.coded + 1][1] = Context(dec.in, dec.at + 1, dec.m)
                  THEN {wire.side[dec.coded + 1][2]} ELSE BOOLEAN :
              LET s == [Gives(1, <<IF insert THEN Lf ELSE Here>>) EXCEPT !.coded = @ + 1]
              IN On(IF insert
                    THEN [s EXCEPT !.m.last = Lf, !.m.anchor = dec.at + 1,
                                   !.m.lens = Counted(@, dec.at + 1 - dec.m.anchor)]
                    ELSE [s EXCEPT !.m.last = Here, !.m.anchor = IF Here = Lf THEN dec.at + 1 ELSE @])

HtmlBack ==
    /\ Undoes("html")
    /\ LET name == Top(dec.m.stack)
           second == dec.in[dec.at + 2]
       IN IF Len(dec.out) = dec.room THEN NoRoom
          ELSE IF Here # Lt \/ Unread = 1 THEN On(Gives(1, <<Here>>))
          ELSE IF Len(dec.out) + 1 = dec.room THEN NoRoom
          ELSE IF second # Slash
          THEN On([Gives(2, <<Lt, second>>) EXCEPT !.m = Opened(@, dec.in, dec.at + 1)])
          ELSE IF Unread > 2 /\ dec.in[dec.at + 3] = Slash
          THEN On([Gives(3, <<Lt, Slash>>) EXCEPT !.m = Closed(@, Name(dec.in, dec.at + 3))])
          ELSE On([Gives(2, <<Lt, Slash>> \o name \o <<Gt>>) EXCEPT !.m.stack = Rest(@)])

Done ==
    /\ dec.failed \/ dec.pass = 0
    /\ UNCHANGED <<input, enc, wire, dec>>

Next ==
    \/ enc.pass = 0 /\ \E t \in Texts, rest \in {0, RoomMin + 1} : Begin(t[1], t[2], rest)
    \/ CrlfCopy \/ CrlfEnter \/ CrlfPair \/ CrlfSingle \/ CrlfEnd
    \/ RleCopy \/ RleOther \/ RleRun \/ RleEnd \/ TooShort
    \/ LfCopy \/ LfCode \/ LfEnd
    \/ HtmlCopy \/ HtmlClose \/ HtmlOpen
    \/ Send \/ Receive \/ CrlfBack \/ RleBack \/ LfBack \/ HtmlBack
    \/ Done

-----------------------------------------------------------------------------
(* Properties *)

ReadsBack == ~dec.failed /\ (dec.pass = 0 => dec.out = <<>> /\ dec.in = input)

\* Whatever passes a text has gone through, and in whatever room, it comes back,
\* but for a text that met one of the two gaps: a line counted from one whose first
\* byte had to be marked, and a tag that another one begins in.
TextReadsBack == enc.rleGap \/ enc.htmlGap \/ ReadsBack

\* The same for the tags without their exception: the writer pushes "by the same rules
\* as AddTag [...] so the two stacks stay in step byte for byte"
\* (nz_text_transform.cpp:986-988), and the rule for a tag that closes itself looks
\* at bytes the two do not share.
TagsReadBack == enc.rleGap \/ ReadsBack

=============================================================================
