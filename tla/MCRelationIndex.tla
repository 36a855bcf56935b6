-------------------------- MODULE MCRelationIndex --------------------------
EXTENDS RelationIndex, MCViewedChain
=============================================================================
