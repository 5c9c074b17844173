--------------------------- MODULE MCTcpTransfer ----------------------------
EXTENDS TransferInvariant
=============================================================================
