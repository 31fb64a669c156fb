--------------------------- MODULE ParserComments --------------------------
(***************************************************************************)
(* The parser of Parser beside the grammar of its own comments, where this *)
(* is another one: the comment of exec_statement_table ends statements     *)
(* with semicolons, and that of write_statement knows of none.             *)
(***************************************************************************)
EXTENDS Parser

\* <table> -> <statement> ; | <table> ; <statement> ;   and   <write> -> write ( <variable> )
CommentedRules ==
    [Rules EXCEPT
        !["exec_statement_table"] = {<<"exec_statement", "semi", "exec_statement_tableA">>},
        !["exec_statement_tableA"] =
            {<<>>, <<"semi", "exec_statement", "semi", "exec_statement_tableA">>},
        !["write_statement"] = {<<"write", "(", "use", ")">>}]

Commented == INSTANCE Grammar WITH Rules <- CommentedRules

VARIABLE promised  \* what the comments still allow behind the tokens seen

\* The parser takes the current token, and sees one more.
Takes == Parsing /\ \/ doing \in Tokens /\ doing = current
                    \/ doing \in {"define", "use", "identifier"} /\ IsName(current)
                    \/ doing = "semicolon" /\ current = "semi"

CommentedInit ==
    /\ ParseInit
    /\ promised = IF ahead[1] = "EOF" THEN Commented!After(Commented!Program, "EOF")
                  ELSE Commented!After(Commented!After(Commented!Program, ahead[1]), ahead[2])
CommentedNext ==
    /\ ParseNext
    /\ promised' = IF Takes /\ now_more_one # "EOF" THEN Commented!After(promised, ahead'[2])
                   ELSE promised

CommentedSpec == CommentedInit /\ [][CommentedNext]_<<psvars, promised>>

-----------------------------------------------------------------------------
\* What the procedures' comments call a program is neither reported nor does the parser
\* fall over it.
CommentsKept == errors # "none" \/ verdict = "crashed" => promised = {}
=============================================================================
