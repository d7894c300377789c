---------------------------- MODULE MessageSplit ----------------------------
(***************************************************************************)
(* split_text of formatting.py, through which every answer and every       *)
(* notification goes: a text is cut into messages of at most Limit         *)
(* characters, one per turn of the loop, at a newline where there is one.  *)
(*                                                                         *)
(* Of the characters only the newline is told apart.  A piece of the text  *)
(* is given by where it begins and ends, so that a character is not        *)
(* mistaken for an equal one.                                              *)
(***************************************************************************)
EXTENDS Naturals, Sequences, FiniteSets, FiniteSetsExt

CONSTANT Limit  \* MAX_MESSAGE_CHARS (4000 in the code)

ASSUME LimitAssumption == Limit \in Nat \ {0}

VARIABLES
    text,    \* the text, one flag per character: whether it is a newline
    rest,    \* where the remaining text begins
    chunks,  \* the messages cut off so far: where each begins and ends
    split    \* whether split_text is at work

splitVars == <<text, rest, chunks, split>>

Size == Len(text)
Newline(i) == text[i]

Idle == text = <<>> /\ rest = 1 /\ chunks = {} /\ split = FALSE

\* split_text is called with t.
Take(t) ==
    /\ ~split /\ text = <<>>
    /\ text' = t
    /\ split' = TRUE
    /\ UNCHANGED <<rest, chunks>>

\* lstrip: the first character from i on that is not a newline.
SkipNewlines(i) == Min({j \in i..Size : ~Newline(j)} \cup {Size + 1})

\* Mutant of CutAt: always at the limit.
CutAtLimit == rest + Limit

\* rfind("\n", 0, limit): before the last newline within the limit, unless the
\* text begins with it, else at the limit.
CutAt ==
    LET found == {i \in rest..(rest + Limit - 1) : Newline(i)}
    IN  IF found = {} \/ Max(found) = rest THEN rest + Limit ELSE Max(found)

\* One turn of the loop.
Cut ==
    /\ split
    /\ Size - rest + 1 > Limit
    /\ chunks' = chunks \cup {[first |-> rest, last |-> CutAt - 1]}
    /\ rest' = SkipNewlines(CutAt)
    /\ UNCHANGED <<text, split>>

\* What remains fits; it is the last message, if there is any of it.
CutLast ==
    /\ split
    /\ Size - rest + 1 <= Limit
    /\ chunks' = IF rest <= Size THEN chunks \cup {[first |-> rest, last |-> Size]} ELSE chunks
    /\ rest' = Size + 1
    /\ split' = FALSE
    /\ UNCHANGED text

Splitting == Cut \/ CutLast

-----------------------------------------------------------------------------

In(i, c) == c.first <= i /\ i <= c.last

\* Nothing but newlines is lost and nothing is said twice: a character that was
\* cut off is in exactly one message, and every message can be sent.
NothingLost ==
    /\ \A c \in chunks : c.first <= c.last /\ c.last - c.first < Limit
    /\ \A i \in 1..Size : i < rest =>
          LET holders == {c \in chunks : In(i, c)}
          IN  Cardinality(holders) <= 1 /\ (~Newline(i) => holders # {})

\* The line of the text that character i is in.
Line(i) ==
    LET before == {j \in 1..i : Newline(j)}
        after == {j \in i..Size : Newline(j)}
    IN  (IF before = {} THEN 1 ELSE Max(before) + 1)..(IF after = {} THEN Size ELSE Min(after) - 1)

\* "Chunks are split on newlines when possible so lines are not torn apart"
\* (formatting.py:13): a line that fits into a message is in one message.  The
\* exception is a text that begins with a newline.
LinesKept ==
    \A i \in 1..Size :
        ~Newline(i) /\ ~Newline(1) /\ Cardinality(Line(i)) <= Limit =>
            \A c \in chunks : In(i, c) => \A j \in Line(i) : In(j, c)

\* What is sent is the text, in messages Telegram takes and with its lines intact.
SplitIsFaithful == NothingLost /\ LinesKept
=============================================================================
