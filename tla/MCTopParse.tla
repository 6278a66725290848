------------------------------ MODULE MCTopParse ------------------------------
(* Inputs for the top-level parser runs: a program file and a header it   *)
(* may use, each of up to two items.                                      *)
EXTENDS TopParse

MCFiles == {"main", "h"}

\* the items other than #use: a typedef t, function declarations returning
\* int or t, a function definition, and two items the parser rejects
MCDecls == {[k |-> "typedef", name |-> "t"], [k |-> "fundecl", name |-> "int"],
            [k |-> "fundecl", name |-> "t"], [k |-> "fundef", name |-> "f"],
            [k |-> "globalvar", name |-> "x"], [k |-> "stray", name |-> ""]}

\* with a typedef of a function type left open at the end of the file
MCDeclsOpen == MCDecls \cup {[k |-> "typedefopen", name |-> "t"]}
====
