-------------------------- MODULE MCPieceTransfer --------------------------
EXTENDS PieceTransfer, TLC

\* A piece of four blocks and a last piece of one.
MCBlocks == 0 :> 4 @@ 1 :> 1
=============================================================================
