---------------------------- MODULE MCSchedShare ----------------------------
EXTENDS SchedShare

MCBootPriorities == <<2, 1, 5>>

\* Long enough for the task of priority 5 to get its third quantum.
MaxBase == 12
ShortRun == vbase <= MaxBase
=============================================================================
