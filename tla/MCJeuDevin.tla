----------------------------- MODULE MCJeuDevin -----------------------------
EXTENDS JeuDevin
=============================================================================
