------------------------------- MODULE Lexer -------------------------------
(***************************************************************************)
(* Compiler/lab-py/lex.py: the scanner of the Pascal subset.  Characters   *)
(* are read one at a time; temp is the word so far and state what kind of  *)
(* word it is.  A word is flushed by end_word when another begins; state   *)
(* is often left as it was.                                                *)
(*                                                                         *)
(* The text is chosen while it is read.  The only keyword that can be      *)
(* spelled with the letters of the instance is "if"; the others differ     *)
(* from it in nothing but their number.                                    *)
(***************************************************************************)
EXTENDS Integers, Sequences, FiniteSets

CONSTANTS Letters, Digits, Strange,  \* what is neither a letter, a digit nor in the table
          MaxText                    \* bound: characters of a text

Blanks == {" ", "\n"}
Marks == {"=", "<", ">", ":", ";", "-"}
Chars == Letters \cup Digits \cup Strange \cup Blanks \cup Marks

ASSUME TextAssumption == MaxText \in Nat
ASSUME CharAssumption == /\ {"i", "f"} \subseteq Letters
                         /\ Letters \cap (Digits \cup Strange \cup Blanks \cup Marks) = {}
                         /\ Digits \cap (Strange \cup Blanks \cup Marks) = {}
                         /\ Strange \cap (Blanks \cup Marks) = {}

\* The table, as far as it is spelled with these characters.
ItemDict == [w \in {<<"i", "f">>, <<"=">>, <<"<", ">">>, <<"<", "=">>, <<"<">>, <<">", "=">>,
                    <<">">>, <<"-">>, <<":", "=">>, <<";">>} |->
               CASE w = <<"i", "f">> -> 4   [] w = <<"=">> -> 12      [] w = <<"<", ">">> -> 13
                 [] w = <<"<", "=">> -> 14  [] w = <<"<">> -> 15      [] w = <<">", "=">> -> 16
                 [] w = <<">">> -> 17       [] w = <<"-">> -> 18      [] w = <<":", "=">> -> 20
                 [] w = <<";">> -> 23]
Token == 10
Constants == 11
EOLN == <<<<"EOLN">>, 24>>
EOF  == <<<<"EOF">>, 25>>
Coded(w, otherwise) == <<w, IF w \in DOMAIN ItemDict THEN ItemDict[w] ELSE otherwise>>

VARIABLES text,     \* history: what was read
          temp, state,
          target,   \* the output: words with their numbers
          error,    \* <<what, line>> of each message
          line,
          scanned   \* lex_main has returned

lxvars == <<text, temp, state, target, error, line, scanned>>

LexInit == /\ text = <<>> /\ temp = <<>> /\ target = <<>> /\ error = <<>>
           /\ state = 0 /\ line = 0 /\ scanned = FALSE

\* end_word: what it adds to target, and to error.
Ended == IF temp = <<>> THEN <<>>
         ELSE IF state = 1 THEN <<Coded(temp, Token)>>
         ELSE IF state = 3 THEN <<<<temp, Constants>>>>
         ELSE IF temp \in DOMAIN ItemDict THEN <<Coded(temp, Token)>> ELSE <<>>
Complaint == IF temp # <<>> /\ state \notin {1, 3} /\ temp \notin DOMAIN ItemDict
             THEN <<<<":", line>>>> ELSE <<>>
EndWord == target' = target \o Ended /\ error' = error \o Complaint
Pending == UNCHANGED <<target, error>>

-----------------------------------------------------------------------------
(* lex_main, one character. *)

NextIs(c) == /\ ~scanned /\ Len(text) < MaxText
             /\ text' = Append(text, c)
             /\ UNCHANGED scanned

Space == /\ NextIs(" ")
         /\ IF state # 0 THEN EndWord /\ temp' = <<>> /\ state' = 0
            ELSE UNCHANGED <<target, error, temp, state>>
         /\ UNCHANGED line

\* A word goes on in these states, and ends in any other.
LetterStatesAny == {0, 1, 3}
LetterStates == {0, 1}

Letter(c) == /\ NextIs(c)
             /\ IF state \in LetterStates THEN Pending /\ temp' = Append(temp, c)
                ELSE EndWord /\ temp' = <<c>>
             /\ state' = 1
             /\ UNCHANGED line

Digit(c) == /\ NextIs(c)
            /\ IF state = 3 THEN Pending /\ temp' = Append(temp, c)
               ELSE EndWord /\ temp' = <<c>>
            /\ state' = 3
            /\ UNCHANGED line

\* "=" ends "<=" and ":=", and is a word of its own at the start; it is flushed at once.
\* Behind any other word it begins one.
Equals ==
    /\ NextIs("=")
    /\ IF state \in {0, 10, 14, 17}
       THEN /\ target' = Append(target, Coded(Append(temp, "="), Token))
            /\ temp' = <<>> /\ state' = 0
            /\ UNCHANGED error
       ELSE EndWord /\ temp' = <<"=">> /\ state' = 5
    /\ UNCHANGED line

\* "-", "<", ":" and ";" begin a word.
StateOf(c) == CASE c = "-" -> 6 [] c = "<" -> 10 [] c = ":" -> 17 [] c = ";" -> 20
Symbol(c) == /\ NextIs(c)
             /\ EndWord /\ temp' = <<c>> /\ state' = StateOf(c)
             /\ UNCHANGED line

\* ">" behind anything but "<" is dropped.
Greater == /\ NextIs(">")
           /\ IF state # 10 THEN EndWord /\ temp' = <<>> /\ state' = 14
              ELSE Pending /\ temp' = Append(temp, ">") /\ state' = 12
           /\ UNCHANGED line

NewLine == /\ NextIs("\n")
           /\ target' = (target \o Ended) \o <<EOLN>> /\ error' = error \o Complaint
           /\ temp' = <<>> /\ state' = 0 /\ line' = line + 1

Unknown(c) == /\ NextIs(c)
              /\ error' = Append(error, <<"?", line>>)
              /\ UNCHANGED <<target, temp, state, line>>

EndOfText == /\ ~scanned /\ scanned' = TRUE
             /\ target' = (target \o Ended) \o <<EOF>> /\ error' = error \o Complaint
             /\ temp' = <<>>
             /\ UNCHANGED <<text, state, line>>

LexNext == \/ Space \/ Equals \/ Greater \/ NewLine \/ EndOfText
           \/ \E c \in Letters : Letter(c)
           \/ \E c \in Digits : Digit(c)
           \/ \E c \in {"-", "<", ":", ";"} : Symbol(c)
           \/ \E c \in Strange : Unknown(c)

LexSpec == LexInit /\ [][LexNext]_lxvars

-----------------------------------------------------------------------------
(* The words of a text, from the text alone: each is the longest from its  *)
(* start, and the next one begins behind it.                               *)

All(w, S) == \A k \in 1..Len(w) : w[k] \in S
IsWord(w) == \/ w[1] \in Letters /\ All(w, Letters \cup Digits)
             \/ All(w, Digits)
             \/ w \in DOMAIN ItemDict
             \/ Len(w) = 1

LongestFrom(k) == CHOOSE to \in k..Len(text) :
                     /\ IsWord(SubSeq(text, k, to))
                     /\ \A more \in (to + 1)..Len(text) : ~IsWord(SubSeq(text, k, more))
WordFrom(k) == SubSeq(text, k, LongestFrom(k))
IsCutting(starts) == \A k \in 1..Len(text) :
                        k \in starts <=> k = 1 \/ \E j \in starts : LongestFrom(j) + 1 = k

HasEntry(w) == w[1] \notin Strange \cup {" "} /\ w # <<":">>
Entry(w) == IF w = <<"\n">> THEN EOLN
            ELSE IF w[1] \in Digits THEN <<w, Constants>> ELSE Coded(w, Token)

LineOf(k) == Cardinality({j \in 1..k : text[j] = "\n"})
IsStrange(k) == text[k] \in Strange
IsBareColon(k) == text[k] = ":" /\ ~(k < Len(text) /\ text[k + 1] = "=")
Message(k) == <<IF IsStrange(k) THEN "?" ELSE ":", LineOf(k)>>

\* What lex.py does not get right: it drops a ">" that is not part of "<>", cuts an
\* identifier where a digit follows a letter, and joins what a strange character separates.
Apart(k) == \/ k = 1 \/ k = Len(text) \/ text[k - 1] \in Blanks \/ text[k + 1] \in Blanks
Plain == \A k \in 1..Len(text) :
            /\ text[k] = ">" => k > 1 /\ text[k - 1] = "<"
            /\ text[k] \in Digits => k = 1 \/ text[k - 1] \notin Letters
            /\ text[k] \in Strange => Apart(k)

Rising(f) == \A l, m \in DOMAIN f : l < m => f[l] < f[m]
Targeted ==
    \E starts \in SUBSET (1..Len(text)), at \in [1..(Len(target) - 1) -> 1..Len(text)] :
        /\ IsCutting(starts)
        /\ Rising(at) /\ {at[m] : m \in DOMAIN at} = {k \in starts : HasEntry(WordFrom(k))}
        /\ \A m \in DOMAIN at : target[m] = Entry(WordFrom(at[m]))
Complained ==
    \E at \in [1..Len(error) -> 1..Len(text)] :
        /\ \A l, m \in DOMAIN at : l # m => at[l] # at[m]
        /\ {at[m] : m \in DOMAIN at} = {k \in 1..Len(text) : IsStrange(k) \/ IsBareColon(k)}
        /\ \A m \in DOMAIN at : error[m] = Message(at[m])
        /\ \A l, m \in DOMAIN at : l < m => LineOf(at[l]) <= LineOf(at[m])

\* Whatever state earlier words left behind, the scanner finds the longest words in their
\* order, with their numbers, and complains about each strange character and each ":"
\* without "=", once, at its line, and line by line.
WordsFound == scanned /\ Plain => /\ Targeted /\ target[Len(target)] = EOF
                                  /\ Complained
=============================================================================
