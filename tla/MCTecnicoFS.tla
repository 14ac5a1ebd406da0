---------------------------- MODULE MCTecnicoFS -----------------------------
(* TecnicoFS for TLC.                                                      *)
EXTENDS TecnicoFSStore

CONSTANTS n1, n2, long, x, junk, noname

TwoNames == {n1, n2, long}
OneLong  == {long}
OneByte  == {x}

\* Each flag alone and with another; "TRUNC" with "APPEND" is "TRUNC".
AllModes == {{}, {"CREAT"}, {"APPEND"}, {"TRUNC"}, {"CREAT", "APPEND"},
             {"CREAT", "TRUNC"}}

\* mbroker.c opens boxes with 0, TFS_O_CREAT or TFS_O_APPEND.
BrokerModes == {{}, {"CREAT"}, {"APPEND"}}

NameSymmetry == Permutations({n1, n2})
=============================================================================
