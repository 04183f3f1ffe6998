----------------------------- MODULE MCWireFetch -----------------------------
(* WireFetch for TLC: the sets the configurations name.                    *)
EXTENDS WireFetch

PlainOrBad   == {"plain", "bad"}
AllKinds     == RowKind
NoneOrAll    == {{}, Fault}
TimeoutsOnly == {{"timeout"}}
=============================================================================
