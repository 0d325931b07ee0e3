----------------------------- MODULE ExeFilter -----------------------------
(***************************************************************************)
(* The filter of executable code, byte by byte (nz_exefilter.cpp): EncImpl *)
(* takes the displacements of calls and jumps out of a block, Impl puts    *)
(* them back.  A target is a place in a cache of recent ones, a value in   *)
(* the arithmetic code, or a value in the tail behind the instructions,    *)
(* where also the byte of an "add esp" behind a call goes.  The caches and *)
(* the base go from block to block until a block is not filtered.          *)
(*                                                                         *)
(* One value stands for a byte and for a 32-bit displacement alike, so     *)
(* that a call has two bytes, a conditional jump three and an add esp two. *)
(* The arithmetic code is a sequence of values, each with the model and    *)
(* the context it was coded in; one that is read in another, or behind the *)
(* end, gives anything.                                                    *)
(***************************************************************************)
EXTENDS Integers, Sequences

CONSTANTS
    ExeBlocks,    \* the blocks of a file: sequences of 0 .. Word - 1
    MaxExeBlocks, \* bound: filtered blocks of one stream
    Word,         \* displacements are taken modulo this: 2^32
    BaseWrap,     \* and the base modulo this: 2^23
    Recent,       \* places of either cache: 3 for calls, 256 for jumps
    AddEspPer     \* a block of n bytes has room for n / AddEspPer add-esp bytes: 8

VARIABLES input,  \* the block under way
          enc,    \* the writer
          wire,   \* the filtered block
          dec     \* the reader

\* Opcodes, and the one displacement that does not fit in 25 bits.
Call == 1
Jump == 2
Esc == 3
Jcc == 4
AddEsp == 5
Far == Word - 1

Fresh == [call |-> [i \in 1 .. Recent |-> i - 1], jump |-> [i \in 1 .. Recent |-> i - 1], base |-> 0]

\* A filtered block, or one that has not been: instructions, add-esp bytes, new call
\* targets, arithmetic code.
Nothing == [filtered |-> FALSE, body |-> <<>>, addesps |-> <<>>, targets |-> <<>>, code |-> <<>>]

Init ==
    /\ input = <<>>
    /\ enc = [pc |-> "idle", mem |-> Fresh, at |-> 0, made |-> Nothing, blocks |-> 0, last |-> FALSE,
              gap |-> FALSE]
    /\ wire = Nothing
    /\ dec = [pc |-> "idle", mem |-> Fresh, at |-> 0, out |-> <<>>, coded |-> 0, addesps |-> 0, targets |-> 0]

-----------------------------------------------------------------------------
(* The caches *)

\* The target to the front, those before its place one further.
Front(cache, target, place) ==
    [i \in DOMAIN cache |-> IF i = 1 THEN target ELSE IF i <= place THEN cache[i - 1] ELSE cache[i]]

Places(cache, target) == {i \in DOMAIN cache : cache[i] = target}

Place(cache, target) ==
    CHOOSE i \in Places(cache, target) : \A j \in Places(cache, target) : i <= j

\* Mutant: a target that is met again stays where it is.
EnterNewOnly(cache, target) ==
    IF Places(cache, target) = {} THEN Front(cache, target, Recent) ELSE cache

\* A new one pushes the last one out.
Enter(cache, target) ==
    Front(cache, target, IF Places(cache, target) = {} THEN Recent ELSE Place(cache, target))

-----------------------------------------------------------------------------
(* The writer *)

Size == Len(input)

\* The copy it reads has zeros behind the block.
At(i) == IF i < Size THEN input[i + 1] ELSE 0

Before == IF enc.at = 0 THEN 0 ELSE At(enc.at - 1)

Begin(block, last) ==
    /\ enc.pc = "idle" /\ dec.pc = "idle" /\ enc.blocks < MaxExeBlocks /\ ~enc.last
    /\ input' = block
    /\ enc' = [enc EXCEPT !.pc = "filter", !.at = 0, !.made = Nothing, !.last = last]
    /\ dec' = [dec EXCEPT !.at = 0, !.out = <<>>, !.coded = 0, !.addesps = 0, !.targets = 0]
    /\ UNCHANGED wire

\* The instruction's own bytes go to the body, and the decision about it to the code.
Takes(n, decisions, opcodes) ==
    [enc EXCEPT !.at = @ + n, !.made.body = @ \o opcodes, !.made.code = @ \o decisions]

Decision(model, context, value) == [model |-> model, context |-> context, value |-> value]

\* The displacement at i, as the place in the run it leads to.
Target(i) == (At(i) + enc.mem.base + i) % Word

\* A call is looked at with the add esp that may follow, and both have to be in the
\* block.
FilterCall ==
    LET target == Target(enc.at + 1)
        known == Places(enc.mem.call, target) # {}
        cleans == At(enc.at + 2) = AddEsp /\ At(enc.at + 3) # 0
        far == At(enc.at + 1) = Far \/ enc.at + 4 > Size
        mode == Decision("call mode", Before, IF far THEN 0 ELSE IF known THEN 1 ELSE 2)
        recent == Decision("call recent", Before, Place(enc.mem.call, target))
    IN /\ enc.pc = "filter" /\ enc.at < Size /\ At(enc.at) = Call
       /\ enc' = IF far THEN Takes(1, <<mode>>, <<Call>>)
                 ELSE [Takes(IF cleans THEN 4 ELSE 2, IF known THEN <<mode, recent>> ELSE <<mode>>, <<Call>>)
                       EXCEPT !.mem.call = Enter(@, target),
                              !.made.addesps = Append(@, IF cleans THEN At(enc.at + 3) ELSE 0),
                              !.made.targets = IF known THEN @ ELSE Append(@, target)]
       /\ UNCHANGED <<input, wire, dec>>

\* A jump whose displacement is at i.
FilterTarget(i, model, opcodes) ==
    LET target == Target(i)
        known == Places(enc.mem.jump, target) # {}
        far == At(i) = Far \/ i + 1 > Size
        mode == Decision(model, Before, IF far THEN 0 ELSE IF known THEN 1 ELSE 2)
        where == IF known THEN Decision("jump recent", 0, Place(enc.mem.jump, target))
                 ELSE Decision("jump offset", model, At(i))
    IN /\ enc' = IF far THEN Takes(Len(opcodes), <<mode>>, opcodes)
                 ELSE [Takes(Len(opcodes) + 1, <<mode, where>>, opcodes) EXCEPT !.mem.jump = Enter(@, target)]
       /\ UNCHANGED <<input, wire, dec>>

FilterJump ==
    /\ enc.pc = "filter" /\ enc.at < Size /\ At(enc.at) = Jump
    /\ FilterTarget(enc.at + 1, "jump mode", <<Jump>>)

FilterJcc ==
    /\ enc.pc = "filter" /\ enc.at < Size /\ At(enc.at) = Esc /\ At(enc.at + 1) = Jcc
    /\ FilterTarget(enc.at + 2, "jcc mode", <<Esc, Jcc>>)

FilterOther ==
    /\ enc.pc = "filter" /\ enc.at < Size /\ At(enc.at) \notin {Call, Jump}
    /\ ~(At(enc.at) = Esc /\ At(enc.at + 1) = Jcc)
    /\ enc' = Takes(1, <<>>, <<At(enc.at)>>)
    /\ UNCHANGED <<input, wire, dec>>

\* The base is kept in 23 bits.
Moved(base, n) == (base + n) % BaseWrap

\* More add-esp bytes than there is room for, and the block goes out as it is; so
\* does one the metric says is no code.  Either ends the run.
Declines ==
    /\ enc.pc = "filter"
    /\ enc.at = 0 \/ (enc.at = Size /\ Len(enc.made.addesps) * AddEspPer > Size + AddEspPer - 1)
    /\ enc' = [enc EXCEPT !.pc = "sent", !.mem = Fresh, !.made = Nothing]
    /\ wire' = Nothing
    /\ UNCHANGED <<input, dec>>

\* The last byte begins a conditional jump for a reader that looks on into the tail.
Looks == enc.made.addesps # <<>> /\ Head(enc.made.addesps) = Jcc /\ At(Size - 1) = Esc /\ ~enc.last

FilterEnd ==
    /\ enc.pc = "filter" /\ enc.at = Size
    /\ Len(enc.made.addesps) * AddEspPer <= Size + AddEspPer - 1
    /\ enc' = [enc EXCEPT !.pc = "sent", !.mem.base = Moved(@, Size), !.made = Nothing,
                          !.gap = @ \/ Looks, !.blocks = @ + 1]
    /\ wire' = [enc.made EXCEPT !.filtered = TRUE]
    /\ UNCHANGED <<input, dec>>

-----------------------------------------------------------------------------
(* The reader *)

\* The block as it lies in memory: the instructions and the tail.
Whole == wire.body \o wire.addesps \o wire.targets

\* DecodedSizeBound: a jump is counted by its opcode, a call by its add-esp byte; or
\* the rest of the stream, if that is less.
Room == IF enc.last THEN Size ELSE 2 * Len(Whole) + 3 * Len(wire.addesps) + 1

Written == IF dec.out = <<>> THEN 0 ELSE dec.out[Len(dec.out)]

\* What the arithmetic decoder gives for the n-th decision from here.
Decided(n, model, context, values) ==
    LET k == dec.coded + n
    IN IF k \in DOMAIN wire.code /\ wire.code[k].model = model /\ wire.code[k].context = context
       THEN {wire.code[k].value} ELSE values

Fails ==
    /\ dec' = [dec EXCEPT !.pc = "failed"]
    /\ UNCHANGED <<input, enc, wire>>

Reading == enc.pc = "sent" /\ wire.filtered /\ dec.pc = "idle"

More == Reading /\ dec.at < Len(wire.body) /\ Len(dec.out) < Room

Here == wire.body[dec.at + 1]

\* So many opcodes read, so many decisions taken, and these bytes out.
Gives(opcodes, decisions, bytes) ==
    [dec EXCEPT !.at = @ + opcodes, !.coded = @ + decisions, !.out = @ \o bytes]

Unless(full, s) == IF full THEN Fails ELSE dec' = s /\ UNCHANGED <<input, enc, wire>>

\* The displacement to a target, behind so many opcodes.
Back(target, opcodes) == (target - dec.mem.base - Len(dec.out) - opcodes) % Word

\* A call's displacement and its add esp.
Calls(target, place, decisions, taken) ==
    LET sp == wire.addesps[dec.addesps + 1]
        bytes == <<Call, Back(target, 1)>> \o (IF sp = 0 THEN <<>> ELSE <<AddEsp, sp>>)
    IN IF dec.addesps = Len(wire.addesps) THEN Fails
       ELSE Unless(Len(dec.out \o bytes) > Room,
                   [Gives(1, decisions, bytes) EXCEPT !.mem.call = Front(@, target, place),
                                                      !.addesps = @ + 1, !.targets = @ + taken])

RestoreCall ==
    /\ More /\ Here = Call
    /\ \E mode \in Decided(1, "call mode", Written, 0 .. 2) :
          \/ mode = 0 /\ Unless(FALSE, Gives(1, 1, <<Call>>))
          \/ /\ mode = 1
             /\ \E place \in Decided(2, "call recent", Written, 1 .. Recent) :
                   Calls(dec.mem.call[place], place, 2, 0)
          \/ /\ mode = 2
             /\ IF dec.targets = Len(wire.targets) THEN Fails
                ELSE Calls(wire.targets[dec.targets + 1], Recent, 1, 1)

\* A jump's displacement, if it has been taken out.
Jumps(model, opcodes) ==
    LET n == Len(opcodes)
        Restored(target, place) ==
            Unless(Len(dec.out) + n + 1 > Room,
                   [Gives(n, 2, Append(opcodes, Back(target, n))) EXCEPT !.mem.jump = Front(@, target, place)])
    IN \E mode \in Decided(1, model, Written, 0 .. 2) :
          \/ mode = 0 /\ Unless(FALSE, Gives(n, 1, opcodes))
          \/ /\ mode = 1
             /\ \E place \in Decided(2, "jump recent", 0, 1 .. Recent) : Restored(dec.mem.jump[place], place)
          \/ /\ mode = 2
             /\ \E disp \in Decided(2, "jump offset", model, 0 .. Word - 1) :
                   Restored((disp + dec.mem.base + Len(dec.out) + n) % Word, Recent)

RestoreJump == More /\ Here = Jump /\ Jumps("jump mode", <<Jump>>)

\* The byte behind an 0f is looked at also where the instructions end.
Conditional == Here = Esc /\ dec.at + 2 <= Len(Whole) /\ Whole[dec.at + 2] = Jcc /\ Len(dec.out) + 1 < Room

RestoreJcc == More /\ Conditional /\ Jumps("jcc mode", <<Esc, Jcc>>)

RestoreOther ==
    /\ More /\ Here \notin {Call, Jump} /\ ~Conditional
    /\ Unless(FALSE, Gives(1, 0, <<Here>>))

\* The tail must have been used to its end.
RestoreEnd ==
    /\ Reading /\ ~More
    /\ IF dec.addesps = Len(wire.addesps) /\ dec.targets = Len(wire.targets)
       THEN /\ dec' = [dec EXCEPT !.mem.base = Moved(@, Len(dec.out))]
            /\ enc' = [enc EXCEPT !.pc = "idle"]
            /\ wire' = Nothing
            /\ UNCHANGED input
       ELSE Fails

\* A block that is not filtered.
Pass ==
    /\ enc.pc = "sent" /\ dec.pc = "idle" /\ ~wire.filtered
    /\ dec' = [dec EXCEPT !.mem = Fresh, !.out = input]
    /\ enc' = [enc EXCEPT !.pc = "idle"]
    /\ UNCHANGED <<input, wire>>

Done ==
    /\ dec.pc = "failed" \/ (enc.pc = "idle" /\ (enc.last \/ enc.blocks = MaxExeBlocks))
    /\ UNCHANGED <<input, enc, wire, dec>>

Next ==
    \/ \E block \in ExeBlocks, last \in BOOLEAN : Begin(block, last)
    \/ FilterCall \/ FilterJump \/ FilterJcc \/ FilterOther \/ Declines \/ FilterEnd
    \/ RestoreCall \/ RestoreJump \/ RestoreJcc \/ RestoreOther \/ RestoreEnd \/ Pass
    \/ Done

-----------------------------------------------------------------------------
(* Properties *)

\* A filtered block comes back as it was and leaves both sides with the same caches
\* and base, but for a block that ends with 0f before a tail that begins like a
\* conditional jump, and what comes after it.
ExeReadsBack ==
    \/ enc.gap
    \/ /\ dec.pc # "failed"
       /\ enc.pc = "idle" => dec.out = input /\ dec.mem = enc.mem
=============================================================================
