----------------------------- MODULE DigestText -----------------------------
(***************************************************************************)
(* build_digest of app/notify_format.py: the changes of each bank become a *)
(* block of lines, the blocks are packed into messages.                    *)
(*                                                                         *)
(* A line is its number and its length; a step adds one piece of text to   *)
(* the messages.  What the lines say is left out.                          *)
(***************************************************************************)
EXTENDS Naturals, Sequences, SequencesExt

CONSTANTS Limit,        \* TG_LIMIT
          MaxLines,     \* MAX_LINES_PER_BANK
          Bulk,         \* BULK_THRESHOLD
          Lengths,      \* lengths a line of a change may have
          Plain,        \* lengths the other lines may have
          Dashboard,    \* DASHBOARD_URL is set
          MaxBanks,     \* bound: banks with changes
          MaxChanges    \* bound: changes of a bank

\* No line is empty, nor is a message.
DigestAssumption ==
    /\ {Limit, MaxLines, Bulk} \subseteq Nat \ {0}
    /\ Lengths \subseteq Nat \ {0} /\ Plain \subseteq Nat \ {0}
    /\ Dashboard \in BOOLEAN
    /\ MaxBanks \in Nat /\ MaxChanges \in Nat

VARIABLES digest,    \* blocks: sequences of lengths; the first is the header
          piece,     \* the block that is next and how many lines of it are in
          packed,    \* messages
          current    \* the message that is being filled

digestVars == <<digest, piece, packed, current>>

\* A message: the lines it holds, in order, and its length.
Empty == [lines |-> <<>>, length |-> 0]

TextTypeOK ==
    /\ piece.block \in 1..(Len(digest) + 1)
    /\ current.length \in Nat

\* What a bank's changes make, other lines of some lengths included: at most
\* MaxLines of them and how many are left, or for very many of them a note.
BankBlock(changes, other) ==
    IF Len(changes) > Bulk
    THEN <<other[1], other[2]>> \o (IF Dashboard THEN <<other[3]>> ELSE <<>>)
    ELSE IF Len(changes) > MaxLines
    THEN <<other[1]>> \o SubSeq(changes, 1, MaxLines) \o <<other[2]>>
    ELSE <<other[1]>> \o changes

BankChanges == UNION {[1..n -> Lengths] : n \in 1..MaxChanges}

BankBlocks == {BankBlock(changes, other) : changes \in BankChanges, other \in [1..3 -> Plain]}

\* Banks without changes have no block; there is no digest without blocks.
Init ==
    /\ \/ digest = <<>>
       \/ \E header \in Plain, n \in 1..MaxBanks : \E blocks \in [1..n -> BankBlocks] :
             digest = <<<<header>>>> \o blocks
    /\ piece = [block |-> 1, done |-> 0]
    /\ packed = <<>> /\ current = Empty

-----------------------------------------------------------------------------
(* The lengths of texts *)

\* Sums of the first members of a list.
SumTo(list) ==
    LET to[n \in 0..Len(list)] == IF n = 0 THEN 0 ELSE to[n - 1] + list[n]
    IN  to

Sum(list) == SumTo(list)[Len(list)]

LengthOf(l) == digest[l[1]][l[2]]

\* A line break between two lines, an empty line between two blocks.
Break(lines, i) ==
    IF i = 1 THEN 0 ELSE IF lines[i][1] = lines[i - 1][1] THEN 1 ELSE 2

\* What a text of these lines takes.
Size(lines) == Sum([i \in DOMAIN lines |-> Break(lines, i) + LengthOf(lines[i])])

-----------------------------------------------------------------------------
(* Packing *)

Lines(block) == [i \in DOMAIN digest[block] |-> <<block, i>>]

Whole(block) == [lines |-> Lines(block), length |-> Size(Lines(block))]

Line(block, i) == [lines |-> <<<<block, i>>>>, length |-> digest[block][i]]

\* Mutant of Joined: the separator does not count.
JoinedLoosely(text, sep) == current.length + text.length

Joined(text, sep) == IF current = Empty THEN text.length ELSE current.length + sep + text.length

\* add: what does not fit begins a message of its own, cut to the limit.
Add(text, sep) ==
    IF Joined(text, sep) <= Limit
    THEN /\ current' = [lines |-> current.lines \o text.lines, length |-> Joined(text, sep)]
         /\ UNCHANGED packed
    ELSE /\ packed' = IF current = Empty THEN packed ELSE Append(packed, current)
         /\ current' = [text EXCEPT !.length = IF @ > Limit THEN Limit ELSE @]

\* "\n\n" before a block, "\n" before its later lines.
AddBlock ==
    /\ piece.block <= Len(digest) /\ piece.done = 0
    /\ Whole(piece.block).length <= Limit
    /\ Add(Whole(piece.block), 2)
    /\ piece' = [block |-> piece.block + 1, done |-> 0]
    /\ UNCHANGED digest

AddLine ==
    /\ piece.block <= Len(digest)
    /\ Whole(piece.block).length > Limit
    /\ Add(Line(piece.block, piece.done + 1), IF piece.done = 0 THEN 2 ELSE 1)
    /\ piece' = IF piece.done + 1 = Len(digest[piece.block])
                THEN [block |-> piece.block + 1, done |-> 0] ELSE [piece EXCEPT !.done = @ + 1]
    /\ UNCHANGED digest

Finish ==
    /\ piece.block > Len(digest) /\ current # Empty
    /\ packed' = Append(packed, current) /\ current' = Empty
    /\ UNCHANGED <<digest, piece>>

Next == AddBlock \/ AddLine \/ Finish

Spec == Init /\ [][Next]_digestVars

-----------------------------------------------------------------------------
(* Properties *)

\* The line after a line.
After(l) == IF l[2] < Len(digest[l[1]]) THEN <<l[1], l[2] + 1>> ELSE <<l[1] + 1, 1>>

InSequence(lines) == \A i \in DOMAIN lines : i > 1 => lines[i] = After(lines[i - 1])

\* The digest of a run is told in full: the messages hold every line once and
\* in order, no message is longer than Telegram takes unless it is one line
\* that is longer itself, and "a block that alone exceeds the limit is split"
\* (notify_format.py:117), no other one.
DigestTellsAll ==
    /\ \A k \in DOMAIN packed : Size(packed[k].lines) <= Limit \/ Len(packed[k].lines) = 1
    /\ piece.block > Len(digest) /\ current = Empty =>
          /\ digest = <<>> <=> packed = <<>>
          /\ \A k \in DOMAIN packed :
                /\ packed[k].lines # <<>> /\ InSequence(packed[k].lines)
                /\ packed[k].lines[1] = IF k = 1 THEN <<1, 1>> ELSE After(Last(packed[k - 1].lines))
          /\ packed # <<>> => After(Last(Last(packed).lines)) = <<Len(digest) + 1, 1>>
          /\ \A b \in DOMAIN digest : Whole(b).length <= Limit =>
                \E k \in DOMAIN packed : ToSet(Lines(b)) \subseteq ToSet(packed[k].lines)

=============================================================================
