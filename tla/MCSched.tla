------------------------------ MODULE MCSched ------------------------------
EXTENDS SchedPic

\* The shape of entry()'s calls (1024, 1024, 100, 10000), and one task too many.
MCBootPriorities == <<3, 3, 1, 7, 2>>
=============================================================================
