------------------------- MODULE MCPolledDirectory -------------------------
EXTENDS PolledDirectory

AllNames == {"..data", "..data_tmp", "fluent-bit.conf", "..0", "..1", "..2", "a", "b"}
=============================================================================
