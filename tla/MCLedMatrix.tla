---------------------------- MODULE MCLedMatrix ----------------------------
EXTENDS LedMatrix, TLC
CONSTANTS c1, c2
MCPictures == {(0 :> (c1 :> 1 @@ c2 :> 2) @@ 1 :> (c1 :> 3 @@ c2 :> 0)),
               (0 :> (c1 :> 2 @@ c2 :> 2) @@ 1 :> (c1 :> 0 @@ c2 :> 1))}
=============================================================================
