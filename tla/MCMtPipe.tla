------------------------------ MODULE MCMtPipe ------------------------------
(* One reader, one writer and a muth that holds both ends, on a pipe of two *)
(* bytes.                                                                   *)
EXTENDS MtPipe

CONSTANTS m1, m2, m3

MCMuth == {m1, m2, m3}
MCReaders == {m1, m2}
MCWriters == {m2, m3}
MCByte == 1..3
MCChunk == {<<1>>, <<2, 3>>}
MCReadLen == 1..2
=============================================================================
