---------------------------- MODULE MCDraftImport ----------------------------
EXTENDS DraftImport, TLC

Symmetry == Permutations(Clients)
=============================================================================
