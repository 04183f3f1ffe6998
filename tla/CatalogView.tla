------------------------------ MODULE CatalogView ------------------------------
(***************************************************************************)
(* What a transaction promises of the tables of the attached database: a   *)
(* table keeps, from the first time it is seen to the end of the           *)
(* transaction, the columns it had at that moment, whatever happens to it  *)
(* on the server.  Tables that were not seen may come, go and change.      *)
(***************************************************************************)
EXTENDS Naturals

CONSTANT Tables         \* the names tables may have

VARIABLES
    tables,     \* the version of each table's columns, 0 if it is not there
    bound       \* the version the transaction has fixed, 0 if none

vars == <<tables, bound>>

Init ==
    /\ tables \in [Tables -> Nat]
    /\ bound = [t \in Tables |-> 0]

(* Another client of the server commits a change of some table.            *)
Change == tables' \in [Tables -> Nat] /\ UNCHANGED bound

(* The transaction sees some tables for the first time.                    *)
Bind ==
    /\ \E seen \in SUBSET {t \in Tables : bound[t] = 0} :
         bound' = [t \in Tables |-> IF t \in seen THEN tables[t] ELSE bound[t]]
    /\ UNCHANGED tables

EndTransaction == bound' = [t \in Tables |-> 0] /\ UNCHANGED tables

Next == Change \/ Bind \/ EndTransaction

Spec == Init /\ [][Next]_vars
=============================================================================
