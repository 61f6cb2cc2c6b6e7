----------------------- MODULE MCDocumentConfirmation -----------------------
EXTENDS DocumentConfirmation, TLC
\* Handlers, workers and pseudonyms are interchangeable; safety runs only.
Symmetry == Permutations(Handler) \cup Permutations(Worker) \cup Permutations(Pseudonym)
=============================================================================
