-------------------------- MODULE MCMmsConnection --------------------------
(* MmsConnection with two application threads that share one table slot    *)
EXTENDS MmsConnection, TLC

\* One that asks for the rest of a list, and one that may keep the transmit buffer
ListServices == {mmsClient_getNameList, MmsConnection_readMultipleVariables}

Symmetry == Permutations(Callers)

=============================================================================
