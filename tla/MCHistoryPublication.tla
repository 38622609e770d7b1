------------------------- MODULE MCHistoryPublication -------------------------
EXTENDS HistoryPublication
=============================================================================
