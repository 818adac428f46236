--------------------------- MODULE MCQualityOutbox ---------------------------
EXTENDS QualityOutbox
=============================================================================
