------------------------------- MODULE Parser ------------------------------
(***************************************************************************)
(* Compiler/lab-py/lab_parser.py: the recursive-descent parser of the      *)
(* Pascal subset.  Its procedures call each other along the grammar; one   *)
(* that misses a token reports it, skips the rest of itself and returns    *)
(* to its caller, which goes on.                                           *)
(*                                                                         *)
(* calls is the call stack: what each active procedure has still to do; a  *)
(* procedure with nothing left is no longer in it.  Tokens are chosen as   *)
(* the parser sees them, two at a time, so that programs have any length;  *)
(* MaxDepth bounds their nesting.  Of the tables only the names matter.    *)
(***************************************************************************)
EXTENDS Integers, Sequences, FiniteSets

CONSTANTS Names,     \* identifiers
          MaxDepth   \* bound: nothing is nested below this many active procedures

ASSUME DepthAssumption == MaxDepth \in Nat

None == "None"  \* what identifier returns when there is none

Keywords == {"begin", "end", "integer", "if", "then", "else", "function", "read", "write"}
Signs == {"relop", "-", "*", ":=", "(", ")", "semi"}
Tokens == Names \cup Keywords \cup Signs \cup {"const", "EOF"}

VARIABLES ahead,    \* the current token and the next
          calls,
          table,    \* names in var_Table and procedure_Table
          errors,   \* "none"; "written" to the .err file, or "late", behind the writing
          verdict,  \* "parsing", "finished", or "crashed" with a Python exception
          wanted    \* reference: what the grammar still wants, and the names declared

psvars == <<ahead, calls, table, errors, verdict, wanted>>

current == ahead[1]
now_more_one == ahead[2]
IsName(t) == t \in Names

-----------------------------------------------------------------------------
(* The grammar of the language, with the procedures' names.  It is the     *)
(* one written out in Compiler/parser_lex/lab_parser.c, and in the comment *)
(* of exec_statement_tableA, where semicolons stand between statements,    *)
(* but for a write statement, which takes a semicolon of its own, as       *)
(* write_statement's message says.  The comments of exec_statement_table   *)
(* and write_statement say otherwise: they are followed in ParserComments. *)
(* Names that are called need not be declared by any of these grammars.    *)

Block == <<"begin", "declare_statement_table", "semi", "exec_statement_table", "end">>
Rules ==
  [branch_procedure |-> {Block},
   func_body |-> {Block},
   declare_statement_table |-> {<<"declare_statement", "declare_statement_tableA">>},
   declare_statement_tableA |-> {<<>>, <<"semi", "declare_statement", "declare_statement_tableA">>},
   declare_statement |-> {<<"var_declare">>, <<"func_declare">>},
   var_declare |-> {<<"integer", "define">>},
   func_declare |->
     {<<"integer", "function", "define", "(", "define", ")", "semi", "func_body">>},
   exec_statement_table |-> {<<"exec_statement", "exec_statement_tableA">>},
   exec_statement_tableA |-> {<<>>, <<"semi", "exec_statement", "exec_statement_tableA">>},
   exec_statement |-> {<<"read_statement">>, <<"write_statement">>, <<"assign_statement">>,
                       <<"condition_statement">>},
   read_statement |-> {<<"read", "(", "use", ")">>},
   write_statement |-> {<<"write", "(", "use", ")", "semicolon">>},
   semicolon |-> {<<"semi">>},
   assign_statement |-> {<<"use", ":=", "math_expression">>},
   condition_statement |->
     {<<"if", "condition_expression", "then", "exec_statement", "else", "exec_statement">>},
   condition_expression |-> {<<"math_expression", "relation_operator", "math_expression">>},
   relation_operator |-> {<<"relop">>},
   math_expression |-> {<<"item", "math_expressionA">>},
   math_expressionA |-> {<<>>, <<"-", "item", "math_expressionA">>},
   item |-> {<<"factor", "itemA">>},
   itemA |-> {<<>>, <<"*", "factor", "itemA">>},
   factor |-> {<<"use">>, <<"constant">>, <<"func_call">>},
   constant |-> {<<"const">>},
   func_call |-> {<<"identifier", "(", "math_expression", ")">>}]

\* Names are values of their own, none of the words above.
Words == Keywords \cup Signs \cup DOMAIN Rules
         \cup {"const", "EOF", "define", "use", "identifier", "complain", "overrun"}
ASSUME NamesAssumption == Names \cap (Words \cup {None}) = {}

INSTANCE Grammar

IsProgram == Complete(wanted)

-----------------------------------------------------------------------------
(* advanced: the parser moves on, and sees one token more. *)

\* After a message, which is never taken back, the text may end.
MayFollow(t) == /\ t \in {"function", "if"} => Len(calls) < MaxDepth
                /\ t = "(" => Len(calls) < MaxDepth + 3
                /\ errors # "none" => t = "EOF"

Advance ==
    \E t \in IF now_more_one = "EOF" THEN {"EOF"} ELSE {t \in Tokens : MayFollow(t)} :
        /\ ahead' = <<now_more_one, t>>
        /\ wanted' = IF now_more_one = "EOF" THEN wanted ELSE After(wanted, t)
Stay == UNCHANGED <<ahead, wanted>>

\* What each procedure does in turn.  The alternatives are in Chosen.
Body ==
  [branch_procedure |->
     <<"begin", "declare_statement_table", "semi", "exec_statement_table", "end">>,
   declare_statement_table |-> <<"declare_statement", "declare_statement_tableA">>,
   var_declare |-> <<"integer", "define">>,
   func_declare |-> <<"integer", "function", "define", "(", "define", ")", "semi", "func_body">>,
   func_body |->
     <<"begin", "declare_statement_table", "semi", "exec_statement_table", "end">>,
   exec_statement_table |-> <<"exec_statement", "exec_statement_tableA">>,
   read_statement |-> <<"read", "(", "use", ")">>,
   write_statement |-> <<"write", "(", "use", ")", "semicolon">>,
   assign_statement |-> <<"use", ":=", "math_expression">>,
   condition_statement |->
     <<"if", "condition_expression", "then", "exec_statement", "else", "exec_statement">>,
   condition_expression |-> <<"math_expression", "relation_operator", "math_expression">>,
   relation_operator |-> <<"relop">>,
   math_expression |-> <<"item", "math_expressionA">>,
   item |-> <<"factor", "itemA">>,
   constant |-> <<"const">>,
   func_call |-> <<"identifier", "(", "math_expression", ")">>]

Begins(t) == t \in {"read", "write", "if"} \/ IsName(t)
StatementOf(t) == CASE t = "read" -> "read_statement" [] t = "write" -> "write_statement"
                    [] t = "if" -> "condition_statement" [] IsName(t) -> "assign_statement"

\* A procedure that looks at the tokens first: what it does then, by name.
Chosen ==
  [declare_statement_tableA |->
     IF current = "semi" /\ now_more_one = "integer"
     THEN <<"semi", "declare_statement", "declare_statement_tableA">> ELSE <<>>,
   declare_statement |->
     IF current # "integer" THEN <<"complain">>
     ELSE IF now_more_one = "function" THEN <<"func_declare">> ELSE <<"var_declare">>,
   exec_statement_tableA |->
     IF current = "semi" /\ Begins(now_more_one)
     THEN <<"semi", "exec_statement", "exec_statement_tableA">> ELSE <<>>,
   exec_statement |-> IF Begins(current) THEN <<StatementOf(current)>> ELSE <<"complain">>,
   math_expressionA |->
     IF current = "-" THEN <<"-", "item", "math_expressionA">> ELSE <<>>,
   itemA |-> IF current = "*" THEN <<"*", "factor", "itemA">> ELSE <<>>,
   factor |-> IF current = "const" THEN <<"constant">>
              ELSE IF current = "EOF" THEN <<"overrun">>
              ELSE IF now_more_one = "(" THEN <<"func_call">> ELSE <<"use">>]

-----------------------------------------------------------------------------
(* The parser. *)

TwoTokens == {<<a, b>> : a, b \in Tokens}
ParseInit == /\ ahead \in {two \in TwoTokens : two[1] = "EOF" => two[2] = "EOF"}
             /\ wanted = IF ahead[1] = "EOF" THEN After(Program, "EOF")
                         ELSE After(After(Program, ahead[1]), ahead[2])
             /\ calls = <<<<"branch_procedure">>>>
             /\ table = {} /\ errors = "none" /\ verdict = "parsing"

Parsing == verdict = "parsing" /\ calls # <<>>
doing == calls[1][1]
Doing(what) == Parsing /\ doing = what

Active(todo) == IF todo = <<>> THEN <<>> ELSE <<todo>>
Rest == Active(Tail(calls[1])) \o Tail(calls)
Complain == errors' = "written"
Continue == calls' = Rest /\ UNCHANGED verdict
Leave == calls' = Tail(calls) /\ UNCHANGED verdict

Invoke ==
    /\ Parsing /\ doing \in DOMAIN Body \cup DOMAIN Chosen
    /\ calls' = Active(IF doing \in DOMAIN Body THEN Body[doing] ELSE Chosen[doing]) \o Rest
    /\ Stay
    /\ UNCHANGED <<table, errors, verdict>>

Accept == /\ Parsing /\ doing \in Tokens /\ doing = current
        /\ Advance /\ Continue
        /\ UNCHANGED <<table, errors>>

\* A missing token ends the procedure that misses it.
Miss == /\ Parsing /\ doing \in Tokens /\ doing # current
        /\ Complain /\ Leave /\ Stay
        /\ UNCHANGED table

NoChoice == /\ Doing("complain")
            /\ Complain /\ Continue /\ Stay
            /\ UNCHANGED table

\* identifier: a missing one is reported, and the caller goes on with None.
Identifier == IF IsName(current) THEN Advance /\ UNCHANGED errors ELSE Stay /\ Complain
Found == IF IsName(current) THEN current ELSE None

Callee == Doing("identifier") /\ Identifier /\ Continue /\ UNCHANGED table

Define == /\ Doing("define")
          /\ Identifier /\ Continue
          /\ table' = table \cup {Found}

AnyName(name) == TRUE
Defined(name) == name \in table

\* The message about an undeclared name cannot be put together for None.
Use == /\ Doing("use") /\ ~(Found = None /\ ~Defined(None))
       /\ IF IsName(current) THEN Advance ELSE Stay
       /\ errors' = IF IsName(current) /\ Defined(current) THEN errors ELSE "written"
       /\ Continue
       /\ UNCHANGED table

Crash == /\ verdict' = "crashed"
         /\ UNCHANGED <<ahead, calls, table, wanted>>

UseNone == Doing("use") /\ Found = None /\ ~Defined(None) /\ Complain /\ Crash

\* A write statement takes its semicolon; without one a string is called.
WriteEnds == /\ Doing("semicolon") /\ current = "semi"
             /\ Advance /\ Continue
             /\ UNCHANGED <<table, errors>>
WriteCrashes == Doing("semicolon") /\ current # "semi" /\ Crash /\ UNCHANGED errors

\* The token behind the last one is looked at.
Overrun == Doing("overrun") /\ Crash /\ UNCHANGED errors

\* end_files: what stands behind the program is noticed when err_TXT is written.
EndFiles == /\ verdict = "parsing" /\ calls = <<>>
            /\ verdict' = "finished"
            /\ errors' = IF errors = "none" /\ current # "EOF" THEN "late" ELSE errors
            /\ UNCHANGED <<ahead, calls, table, wanted>>

ParseNext == \/ Invoke \/ Accept \/ Miss \/ NoChoice \/ Callee \/ Define \/ Use \/ UseNone
             \/ WriteEnds \/ WriteCrashes \/ Overrun \/ EndFiles

ParseSpec == ParseInit /\ [][ParseNext]_psvars

-----------------------------------------------------------------------------
\* If the parser finishes without a report, the text is a program of the grammar in which
\* every variable that is assigned, read, written or used in an expression was declared
\* before (a called name need not be); if it reports anything or falls over, no such program
\* begins with the tokens it has seen.  A mistake it has recovered from is not forgotten.
JudgesPrograms ==
    /\ verdict = "finished" /\ errors = "none" => IsProgram
    /\ errors # "none" \/ verdict = "crashed" => wanted = {}
=============================================================================
