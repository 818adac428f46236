--------------------------- MODULE MCPipelineOutbox ---------------------------
EXTENDS PipelineOutbox, TLC

Symmetry == Permutations(Events) \cup Permutations(Workers)
=============================================================================
