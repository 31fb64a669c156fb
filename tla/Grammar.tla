------------------------------ MODULE Grammar ------------------------------
(***************************************************************************)
(* What may stand behind the tokens read so far, by a grammar: the         *)
(* reference that the parser is compared with.  Rules gives each symbol    *)
(* that is no terminal its phrases.  A configuration is a phrase that may  *)
(* follow, and the names declared on the way to it: "define" is an         *)
(* identifier that is declared, "use" one that must have been,             *)
(* "identifier" any.                                                       *)
(***************************************************************************)
EXTENDS Sequences

CONSTANTS Names,  \* identifiers
          Rules

\* The first symbol is replaced until it is a terminal: at most five times, as in a condition,
\* which begins with an expression, an item, a factor and a call.
Replaced(todos) == UNION {IF x = <<>> \/ x[1] \notin DOMAIN Rules THEN {x}
                          ELSE {rule \o Tail(x) : rule \in Rules[x[1]]} : x \in todos}
Expanded(todo) == Replaced(Replaced(Replaced(Replaced(Replaced({todo})))))

Matches(symbol, t, known) ==
    \/ symbol = t
    \/ t \in Names /\ (symbol \in {"define", "identifier"} \/ (symbol = "use" /\ t \in known))

\* What is wanted behind token t.
After(configs, t) ==
    LET read == {c \in UNION {{[todo |-> x, known |-> c.known] : x \in Expanded(c.todo)} :
                              c \in configs} :
                    c.todo # <<>> /\ Matches(c.todo[1], t, c.known)}
    IN {[todo |-> Tail(c.todo),
         known |-> IF c.todo[1] = "define" THEN c.known \cup {t} ELSE c.known] : c \in read}

Program == {[todo |-> <<"branch_procedure", "EOF">>, known |-> {}]}
Complete(configs) == \E c \in configs : c.todo = <<>>
=============================================================================
