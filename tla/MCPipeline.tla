------------------------------ MODULE MCPipeline ------------------------------
EXTENDS IngestionPipeline, TLC

Symmetry == Permutations(Workers)
=============================================================================
