------------------------- MODULE MCFirebirdTransaction -------------------------
(* FirebirdTransaction for TLC: three tables, two of which have names that *)
(* differ in case only and may meet under one key.                         *)
EXTENDS FirebirdTransaction

Spellings     == {"EMPLOYEES", "employees", "PROJECTS"}
Alphabetical  == [n \in Spellings |-> IF n = "EMPLOYEES" THEN 1
                                      ELSE IF n = "PROJECTS" THEN 2 ELSE 3]
LowerCase     == [n \in Spellings |-> IF n = "EMPLOYEES" THEN "employees"
                                      ELSE IF n = "PROJECTS" THEN "projects"
                                      ELSE n]
=============================================================================
