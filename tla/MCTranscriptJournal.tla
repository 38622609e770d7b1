------------------------- MODULE MCTranscriptJournal -------------------------
EXTENDS TranscriptJournal, TLC

Symmetry == Permutations(Recorders)
=============================================================================
