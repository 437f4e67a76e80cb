------------------------------- MODULE Parser -------------------------------
(***************************************************************************)
(* Parser::GetWord (common/Modem/Parser.cpp), by which SIM868::Update and  *)
(* Updater::Update look into an answer: the loop that counts the words of  *)
(* a line, and what a word is.  A line is a sequence of characters; the    *)
(* zero that ends it in C is left out.                                     *)
(***************************************************************************)
EXTENDS Integers, Sequences, SequencesExt

Separators == {32, 44, 58, 61}      \* space, comma, colon, "="

\* What a C function sees of the bytes of an answer.
CString(bytes) ==
    LET zero == SelectInSeq(bytes, LAMBDA b : b = 0)
    IN  IF zero = 0 THEN bytes ELSE SubSeq(bytes, 1, zero - 1)

\* Mutant: every separator begins a word, whether it ends one or not.
VisitSeparators(string, num, s, k) ==
    IF s.pos_start # -1 \/ string[k] \notin Separators THEN s
    ELSE [current_word |-> s.current_word + 1, in_word |-> FALSE,
          pos_start |-> IF s.current_word + 1 = num THEN k ELSE -1]

\* The loop of GetWord at the k-th character: a word begins with the first
\* character after a separator that is none itself.
Visit(string, num, s, k) ==
    IF s.pos_start # -1 THEN s
    ELSE IF string[k] \in Separators THEN [s EXCEPT !.in_word = FALSE]
    ELSE IF s.in_word THEN s
    ELSE [current_word |-> s.current_word + 1, in_word |-> TRUE,
          pos_start |-> IF s.current_word + 1 = num THEN k - 1 ELSE -1]

\* Its variables before the loop: word 1 begins with the line, even at a
\* separator.
Before(string, num) ==
    [current_word |-> 1, in_word |-> string # <<>> /\ string[1] \notin Separators,
     pos_start |-> IF num = 1 THEN 0 ELSE -1]

\* The number of characters before the word, -1 if there is no such word.
WordBegins(string, num) ==
    LET state[k \in 0 .. Len(string)] ==
            IF k = 0 THEN Before(string, num) ELSE Visit(string, num, state[k - 1], k)
    IN  state[Len(string)].pos_start

GetWord(string, num) ==
    LET rest == SubSeq(string, WordBegins(string, num) + 1, Len(string))
        end  == SelectInSeq(rest, LAMBDA c : c \in Separators)
    IN  IF WordBegins(string, num) = -1 THEN <<>>
        ELSE IF end = 0 THEN rest ELSE SubSeq(rest, 1, end - 1)

-----------------------------------------------------------------------------
\* The places where a run of characters other than separators begins.
Beginnings(string) ==
    {k \in 1 .. Len(string) : /\ string[k] \notin Separators
                              /\ k > 1 => string[k - 1] \in Separators}

\* w is the word that a reader counts as the num-th: the words are the runs of
\* characters between separators, preceded by an empty one if the line begins
\* with a separator.
IsWord(string, num, w) ==
    LET skipped == IF string # <<>> /\ string[1] \in Separators THEN 1 ELSE 0
        chosen  == {k \in Beginnings(string) :
                      Cardinality({j \in Beginnings(string) : j <= k}) + skipped = num}
    IN  \/ chosen = {} /\ w = <<>>
        \/ \E k \in chosen :
             /\ w = SubSeq(string, k, k + Len(w) - 1)
             /\ w # <<>> /\ \A c \in 1 .. Len(w) : w[c] \notin Separators
             /\ k + Len(w) <= Len(string) => string[k + Len(w)] \in Separators

=============================================================================
