------------------------------ MODULE MCCharDev ------------------------------
(* Two threads on one open file.                                          *)
EXTENDS CharDev

CONSTANTS t1, t2   \* model values

MCThreads == {t1, t2}
==============================================================================
