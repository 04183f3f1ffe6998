------------------------------ MODULE MCHandshake ------------------------------
(* Handshake for TLC: up to two addresses, one plugin the client lacks.    *)
EXTENDS Handshake

Addresses == {<<>>, <<"down">>, <<"up">>, <<"down", "up">>, <<"down", "down">>}
Offers    == {"Srp", "Srp256", "Legacy_Auth"}
Faults    == {{}, {"split", "short", "timeout"}}
================================================================================
