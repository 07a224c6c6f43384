------------------------------ MODULE MCThreads ------------------------------
(* One of the programs with threads, whichever exemple says.                 *)
EXTENDS JeuUnePartie, CompteurPartage

InitThreads == Init /\ InitCompteur
NextThreads ==
    \/ exemple = "jeu_devin_moi" /\ Next /\ UNCHANGED varsCompteur
    \/ exemple # "jeu_devin_moi" /\ NextCompteur /\ UNCHANGED vars
SpecThreads ==
    /\ InitThreads /\ [][NextThreads]_<<vars, varsCompteur>>
    /\ exemple = "jeu_devin_moi" => FairJeu
    /\ exemple # "jeu_devin_moi" => FairCompteur
=============================================================================
