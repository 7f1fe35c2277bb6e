----------------------------- MODULE MCConsole -----------------------------
EXTENDS Console

\* As the kernel's, the texts have no newline but at the end: one longer than a line,
\* in two whole chunks; one with the other control characters, whose last chunk is the
\* newline; and one that fills a line and has no newline at all, as vpanic's first.
MCMessages ==
  {[level |-> 0, text |-> <<"a", "b", "c", "d", "e", "\n">>],
   [level |-> 3, text |-> <<"a", "\t", "\r", "b", "\t", "c", "\n">>],
   [level |-> 0, text |-> <<"a", "b", "c", "d">>]}

MCTickText == <<"t", "t", "t", "\n">>
=============================================================================
