------------------------------ MODULE MCVault ------------------------------
EXTENDS Vault, TLC

CONSTANTS f1, f2, h1, h2, b1, b2

MCTexts == {h1 :> b1, h1 :> b2 @@ h2 :> b1, h1 :> b2 @@ h2 :> Blank}
\* The first text is a placeholder, the second one long.
MCHollow == {h1 :> b1}
MCLarge == {h1 :> b2 @@ h2 :> b1}
=============================================================================
