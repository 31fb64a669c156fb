---------------------------- MODULE MCSequential ----------------------------
(***************************************************************************)
(* Small instances for TLC of the sequential programs: the two halves of   *)
(* the syncer (the levelling, and the idle test that is to start it: the   *)
(* call between them is commented out), and the compiler's scanner and     *)
(* parser, which meet in a file only.  They share nothing: program says    *)
(* which one a behaviour runs, and the others stay as they began.          *)
(***************************************************************************)
EXTENDS NvmWear, NvmIdle, Lexer, Parser, TLC

TwoValues == {0, 1}
OneOrTwo == {1, 2}

TwoLetters == {"i", "f"}
OneDigit == {"0"}
OneStrange == {"#"}

CONSTANTS n1, n2
TwoNames == {n1, n2}
Renaming == Permutations(TwoNames)

VARIABLE program

seqvars == <<program, wvars, ivars, lxvars, psvars>>

SeqInit == /\ program \in {"level", "idle", "lex", "parse"}
           /\ Init /\ IdleInit /\ LexInit /\ ParseInit
           /\ program # "parse" => ahead = <<"EOF", "EOF">>

Levelling == program = "level" /\ Next /\ UNCHANGED <<program, ivars, lxvars, psvars>>
Testing   == program = "idle" /\ IdleNext /\ UNCHANGED <<program, wvars, lxvars, psvars>>
Scanning  == program = "lex" /\ LexNext /\ UNCHANGED <<program, wvars, ivars, psvars>>
Parses    == program = "parse" /\ ParseNext /\ UNCHANGED <<program, wvars, ivars, lxvars>>

SeqNext == Levelling \/ Testing \/ Scanning \/ Parses
SeqSpec == SeqInit /\ [][SeqNext]_seqvars
=============================================================================
