------------------------- MODULE MCReconnectBudget -------------------------
EXTENDS ReconnectBudget
=============================================================================
