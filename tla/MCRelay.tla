------------------------------ MODULE MCRelay ------------------------------
EXTENDS RelayProperties
Load(keys, words, ends) == [keys |-> keys, words |-> words, ends |-> ends]
MCLoads == {Load(3, 0, {"hup"}), Load(1, 0, StdinEnds), Load(2, 2, {}), Load(0, 4, {})}
=============================================================================
