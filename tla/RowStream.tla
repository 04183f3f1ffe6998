------------------------------ MODULE RowStream ------------------------------
(***************************************************************************)
(* What a row cursor promises to the code that pulls rows out of it: the   *)
(* rows it hands over are the rows of the result, each once and in order;  *)
(* it says "no more rows" only when all of them have been handed over; and *)
(* an error ends it.  Nothing is said of batches, buffers or sockets.      *)
(*                                                                         *)
(* This is the contract of fb_cursor_next (1, 0 or -1, lib.rs) over        *)
(* FirebirdClientSqlOps::fetch (Some, None or Err, client.rs).             *)
(***************************************************************************)
EXTENDS Naturals, Sequences

VARIABLES
    total,      \* the number of rows of the result; row i is the i-th
    delivered,  \* the rows handed over so far
    outcome     \* "open", "end" (None was returned) or "error"

vars == <<total, delivered, outcome>>

TypeOK ==
    /\ total \in Nat
    /\ delivered \in Seq(1..total)
    /\ outcome \in {"open", "end", "error"}

Init ==
    /\ total \in Nat
    /\ delivered = <<>>
    /\ outcome = "open"

Deliver ==
    /\ outcome = "open"
    /\ Len(delivered) < total
    /\ delivered' = Append(delivered, Len(delivered) + 1)
    /\ UNCHANGED <<total, outcome>>

End ==
    /\ outcome = "open"
    /\ Len(delivered) = total
    /\ outcome' = "end"
    /\ UNCHANGED <<total, delivered>>

Fail ==
    /\ outcome = "open"
    /\ outcome' = "error"
    /\ UNCHANGED <<total, delivered>>

Next == Deliver \/ End \/ Fail

Spec == Init /\ [][Next]_vars

=============================================================================
