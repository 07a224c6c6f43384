------------------------- MODULE JeuUnePartieProofs -------------------------
(* Proofs about JeuUnePartie, for any number of players and tries: its       *)
(* inductive invariant, and that it ranks the winners as Classement says.    *)
EXTENDS JeuUnePartie, TLAPS

USE PartieAssumption

LEMMA InitIInv == Init => IInv
<1>. SUFFICES ASSUME Init PROVE IInv
  OBVIOUS
<1>1. TypeOK
  <2>1. pc \in [Joueurs -> Etapes] /\ ind \in [Joueurs -> 0..(Capacite - 1)]
        /\ tentatives \in [Joueurs -> 0..NbTentatives] /\ rangs \in [Joueurs -> Nat]
    BY DEF Init, Etapes
  <2>2. ouvert \in [Joueurs -> BOOLEAN] /\ mort \in BOOLEAN
    BY DEF Init
  <2>. QED BY <2>1, <2>2 DEF Init, TypeOK
<1>2. SocketOuverte /\ VerrouExact /\ RangsExacts /\ Ordre
  BY DEF Init, SocketOuverte, VerrouExact, RangsExacts, Ordre, EnJeu, Joueurs
<1>. QED BY <1>1, <1>2 DEF IInv

\* The end of the process changes nothing else.
LEMMA MeurtIInv == IInv /\ Meurt => IInv'
<1>. SUFFICES ASSUME IInv, Meurt PROVE IInv'
  OBVIOUS
<1>1. UNCHANGED <<connectes, lances, joint, echecs, ouvert, pc, ind, tentatives, rangs, rang, verrou>>
      /\ mort' = TRUE
  BY DEF Meurt, principal, joueurs
<1>2. TypeOK'
  BY <1>1 DEF IInv, TypeOK
<1>. QED BY <1>1, <1>2 DEF IInv, SocketOuverte, VerrouExact, RangsExacts, Ordre
-----------------------------------------------------------------------------
(* The steps of the main thread.                                             *)
LEMMA AccepteIInv == ASSUME IInv, Accepte PROVE IInv'
<1>1. connectes < NbJoueurs /\ connectes' = connectes + 1
      /\ ouvert' = [ouvert EXCEPT ![connectes + 1] = TRUE]
      /\ UNCHANGED <<lances, joint, echecs, pc, ind, tentatives, rangs, rang, verrou, mort>>
  BY DEF Accepte, joueurs
<1>2. TypeOK'
  <2>1. connectes' \in 0..NbJoueurs
    BY <1>1 DEF IInv, TypeOK
  <2>2. ouvert' \in [Joueurs -> BOOLEAN]
    BY <1>1 DEF IInv, TypeOK
  <2>. QED BY <1>1, <2>1, <2>2 DEF IInv, TypeOK
<1>3. SocketOuverte' /\ VerrouExact' /\ RangsExacts'
  BY <1>1 DEF IInv, TypeOK, SocketOuverte, VerrouExact, RangsExacts
<1>4. Ordre'
  BY <1>1 DEF IInv, TypeOK, Ordre, Joueurs
<1>. QED BY <1>2, <1>3, <1>4 DEF IInv

\* The player whose turn it is has its socket and all its tries.
LEMMA LanceIInv == ASSUME IInv, serveur_1p_thread \/ EchecThread PROVE IInv'
<1>. DEFINE t == lances + 1
<1>1. PICK e \in {"lire", "sans"} : pc' = [pc EXCEPT ![t] = e]
  BY DEF serveur_1p_thread, EchecThread, Va
<1>2. connectes = NbJoueurs /\ lances < NbJoueurs /\ lances' = t
      /\ UNCHANGED <<connectes, joint, ouvert, ind, tentatives, rangs, rang, verrou, mort>>
  BY DEF serveur_1p_thread, EchecThread
<1>3. echecs' \in 0..MaxEchecs
  BY DEF serveur_1p_thread, EchecThread, IInv, TypeOK
<1>4. t \in Joueurs /\ pc[t] = "absent" /\ ouvert[t] /\ tentatives[t] # 0 /\ rangs[t] = 0
  BY <1>2 DEF IInv, TypeOK, RangsExacts, Ordre, Joueurs
<1>5. TypeOK'
  <2>1. pc' \in [Joueurs -> Etapes]
    BY <1>1, <1>4 DEF IInv, TypeOK, Etapes, EnJeu
  <2>2. \A u \in Joueurs : pc'[u] \in {"absent", "lire", "devine", "compare"} => tentatives[u] # 0
    BY <1>1, <1>4 DEF IInv, TypeOK
  <2>. QED BY <1>2, <1>3, <2>1, <2>2 DEF IInv, TypeOK
<1>6. SocketOuverte'
  BY <1>1, <1>2, <1>4 DEF IInv, TypeOK, SocketOuverte
<1>7. VerrouExact' /\ RangsExacts'
  BY <1>1, <1>2, <1>4 DEF IInv, TypeOK, VerrouExact, RangsExacts
<1>8. Ordre'
  BY <1>1, <1>2, <1>4 DEF IInv, TypeOK, Ordre, Joueurs
<1>. QED BY <1>5, <1>6, <1>7, <1>8 DEF IInv

LEMMA JoindreIInv == ASSUME IInv, Joindre PROVE IInv'
<1>1. CASE Meurt
  BY <1>1, MeurtIInv
<1>2. CASE ~Meurt
  <2>1. joint <= NbJoueurs /\ pc[joint] = "fini" /\ joint' = joint + 1
        /\ ouvert' = [ouvert EXCEPT ![joint] = FALSE]
        /\ UNCHANGED <<connectes, lances, echecs, pc, ind, tentatives, rangs, rang, verrou, mort>>
    BY <1>2 DEF Joindre, Joint, Ferme, joueurs
  <2>2. joint \in Joueurs
    BY <2>1 DEF IInv, TypeOK, Joueurs
  <2>3. TypeOK'
    BY <2>1, <2>2 DEF IInv, TypeOK, Joueurs
  <2>4. SocketOuverte' /\ VerrouExact' /\ RangsExacts'
    BY <2>1, <2>2 DEF IInv, TypeOK, SocketOuverte, VerrouExact, RangsExacts, EnJeu
  <2>5. Ordre'
    BY <2>1, <2>2 DEF IInv, TypeOK, Ordre, Joueurs
  <2>. QED BY <2>3, <2>4, <2>5 DEF IInv
<1>. QED BY <1>1, <1>2
-----------------------------------------------------------------------------
(* The steps of a player's thread.  Each one moves pc[t]; what it does to    *)
(* the lock, the tries and the ranks is the matter of the lemma.             *)

\* What a step of a thread that plays leaves to prove.
LEMMA JoueIInv ==
    ASSUME IInv, NEW t \in Joueurs, NEW e \in Etapes \ {"absent", "sans"},
           pc[t] \in EnJeu, pc' = [pc EXCEPT ![t] = e],
           UNCHANGED <<connectes, lances, joint, echecs, mort>>,
           ouvert' = ouvert,
           ind' \in [Joueurs -> 0..(Capacite - 1)],
           tentatives' \in [Joueurs -> 0..NbTentatives],
           \A u \in Joueurs \ {t} : tentatives'[u] = tentatives[u] /\ rangs'[u] = rangs[u],
           rangs' \in [Joueurs -> Nat], rang' \in Nat \ {0},
           e \in {"lire", "devine", "compare"} => tentatives'[t] # 0 /\ rangs'[t] = 0,
           verrou' = IF e \in {"compare", "compte"} THEN t
                     ELSE IF verrou = t THEN Aucun ELSE verrou,
           e \in {"compare", "compte"} => verrou \in {t, Aucun},
           e = "compte" => rangs'[t] = rang',
           rang' = rang \/ verrou = t
    PROVE  IInv'
<1>1. TypeOK'
  BY DEF IInv, TypeOK, Etapes
<1>2. SocketOuverte'
  BY DEF IInv, TypeOK, SocketOuverte, EnJeu
<1>3. VerrouExact'
  BY DEF IInv, TypeOK, VerrouExact, EnJeu, Joueurs
<1>4. RangsExacts'
  BY DEF IInv, TypeOK, RangsExacts, VerrouExact, EnJeu
<1>5. Ordre'
  BY DEF IInv, TypeOK, Ordre, EnJeu
<1>. QED BY <1>1, <1>2, <1>3, <1>4, <1>5 DEF IInv

LEMMA LireIInv ==
    ASSUME IInv, NEW t \in Joueurs, lire_nb(t)
    PROVE  IInv'
<1>1. PICK e \in {"lire", "devine", "ferme"} : pc' = [pc EXCEPT ![t] = e]
  BY DEF lire_nb, Va
<1>2. ind' \in [Joueurs -> 0..(Capacite - 1)]
  <2>1. CASE ind' = [ind EXCEPT ![t] = 0]
    BY <2>1 DEF IInv, TypeOK
  <2>2. CASE ind' = [ind EXCEPT ![t] = ind[t] + 1] /\ ind[t] + 1 # Capacite
    BY <2>2 DEF IInv, TypeOK
  <2>. QED BY <2>1, <2>2 DEF lire_nb
<1>3. pc[t] = "lire" /\ UNCHANGED <<connectes, lances, joint, echecs, ouvert, tentatives, rangs, rang, verrou, mort>>
  BY DEF lire_nb, principal
<1>4. tentatives[t] # 0 /\ rangs[t] = 0 /\ verrou # t
  BY <1>3 DEF IInv, TypeOK, RangsExacts, VerrouExact
<1>5. e \in Etapes \ {"absent", "sans"} /\ pc[t] \in EnJeu
  BY <1>3 DEF Etapes, EnJeu
<1>6. rangs \in [Joueurs -> Nat] /\ rang \in Nat \ {0} /\ tentatives \in [Joueurs -> 0..NbTentatives]
  BY DEF IInv, TypeOK
<1>7. e \notin {"compare", "compte"}
  BY <1>1
<1>. QED BY <1>1, <1>2, <1>3, <1>4, <1>5, <1>6, <1>7, JoueIInv

LEMMA VerrouilleIInv ==
    ASSUME IInv, NEW t \in Joueurs, Verrouille(t)
    PROVE  IInv'
<1>1. pc' = [pc EXCEPT ![t] = "compare"] /\ pc[t] = "devine" /\ verrou = Aucun /\ verrou' = t
      /\ UNCHANGED <<connectes, lances, joint, echecs, ouvert, ind, tentatives, rangs, rang, mort>>
  BY DEF Verrouille, Libre, Va, principal
<1>2. tentatives[t] # 0 /\ rangs[t] = 0
  BY <1>1 DEF IInv, TypeOK, RangsExacts
<1>3. "compare" \in Etapes \ {"absent", "sans"} /\ pc[t] \in EnJeu
  BY <1>1 DEF Etapes, EnJeu
<1>4. rangs \in [Joueurs -> Nat] /\ rang \in Nat \ {0} /\ tentatives \in [Joueurs -> 0..NbTentatives]
      /\ ind \in [Joueurs -> 0..(Capacite - 1)]
  BY DEF IInv, TypeOK
<1>. QED BY <1>1, <1>2, <1>3, <1>4, JoueIInv

LEMMA TrouveIInv ==
    ASSUME IInv, NEW t \in Joueurs, Trouve(t)
    PROVE  IInv'
<1>1. pc' = [pc EXCEPT ![t] = "compte"] /\ pc[t] = "compare" /\ rangs' = [rangs EXCEPT ![t] = rang]
      /\ UNCHANGED <<connectes, lances, joint, echecs, ouvert, ind, tentatives, rang, verrou, mort>>
  BY DEF Trouve, Va, principal
<1>2. verrou = t
  BY <1>1 DEF IInv, VerrouExact
<1>3. "compte" \in Etapes \ {"absent", "sans"} /\ pc[t] \in EnJeu
  BY <1>1 DEF Etapes, EnJeu
<1>4. rangs' \in [Joueurs -> Nat] /\ rangs'[t] = rang /\ (\A u \in Joueurs \ {t} : rangs'[u] = rangs[u])
      /\ rang \in Nat \ {0} /\ tentatives \in [Joueurs -> 0..NbTentatives]
      /\ ind \in [Joueurs -> 0..(Capacite - 1)]
  BY <1>1 DEF IInv, TypeOK
<1>. QED BY <1>1, <1>2, <1>3, <1>4, JoueIInv

LEMMA CompteIInv ==
    ASSUME IInv, NEW t \in Joueurs, Compte(t)
    PROVE  IInv'
<1>1. pc' = [pc EXCEPT ![t] = "ecrire"] /\ pc[t] = "compte" /\ rang' = rang + 1 /\ verrou' = Aucun
      /\ UNCHANGED <<connectes, lances, joint, echecs, ouvert, ind, tentatives, rangs, mort>>
  BY DEF Compte, Va, principal
<1>2. verrou = t
  BY <1>1 DEF IInv, VerrouExact
<1>3. "ecrire" \in Etapes \ {"absent", "sans"} /\ pc[t] \in EnJeu
  BY <1>1 DEF Etapes, EnJeu
<1>4. rangs \in [Joueurs -> Nat] /\ rang + 1 \in Nat \ {0} /\ tentatives \in [Joueurs -> 0..NbTentatives]
      /\ ind \in [Joueurs -> 0..(Capacite - 1)]
  BY DEF IInv, TypeOK
<1>. QED BY <1>1, <1>2, <1>3, <1>4, JoueIInv

LEMMA RateIInv ==
    ASSUME IInv, NEW t \in Joueurs, Rate(t)
    PROVE  IInv'
<1>1. pc' = [pc EXCEPT ![t] = "ecrire"] /\ pc[t] = "compare" /\ verrou' = Aucun
      /\ tentatives' = [tentatives EXCEPT ![t] = @ - 1]
      /\ UNCHANGED <<connectes, lances, joint, echecs, ouvert, ind, rangs, rang, mort>>
  BY DEF Rate, Va, principal
<1>2. verrou = t /\ tentatives[t] # 0
  BY <1>1 DEF IInv, TypeOK, VerrouExact
<1>3. "ecrire" \in Etapes \ {"absent", "sans"} /\ pc[t] \in EnJeu
  BY <1>1 DEF Etapes, EnJeu
<1>4. tentatives' \in [Joueurs -> 0..NbTentatives]
      /\ \A u \in Joueurs \ {t} : tentatives'[u] = tentatives[u]
  BY <1>1, <1>2 DEF IInv, TypeOK
<1>5. rangs \in [Joueurs -> Nat] /\ rang \in Nat \ {0} /\ ind \in [Joueurs -> 0..(Capacite - 1)]
  BY DEF IInv, TypeOK
<1>. QED BY <1>1, <1>2, <1>3, <1>4, <1>5, JoueIInv

LEMMA EcrireIInv ==
    ASSUME IInv, NEW t \in Joueurs, ecrire_nb(t)
    PROVE  IInv'
<1>. DEFINE e == IF Fini(t) THEN "ferme" ELSE "lire"
<1>1. pc' = [pc EXCEPT ![t] = e] /\ pc[t] = "ecrire"
      /\ UNCHANGED <<connectes, lances, joint, echecs, ouvert, ind, tentatives, rangs, rang, verrou, mort>>
  BY DEF ecrire_nb, Va, principal
<1>2. e = "lire" => tentatives[t] # 0 /\ rangs[t] = 0
  BY DEF Fini
<1>3. verrou # t
  BY <1>1 DEF IInv, VerrouExact
<1>4. e \in Etapes \ {"absent", "sans"} /\ pc[t] \in EnJeu /\ e \in {"ferme", "lire"}
  BY <1>1 DEF Etapes, EnJeu
<1>5. rangs \in [Joueurs -> Nat] /\ rang \in Nat \ {0} /\ tentatives \in [Joueurs -> 0..NbTentatives]
      /\ ind \in [Joueurs -> 0..(Capacite - 1)]
  BY DEF IInv, TypeOK
<1>. HIDE DEF e
<1>. QED BY <1>1, <1>2, <1>3, <1>4, <1>5, JoueIInv

LEMMA SortIInv ==
    ASSUME IInv, NEW t \in Joueurs, Sort(t)
    PROVE  IInv'
<1>1. pc' = [pc EXCEPT ![t] = "fini"] /\ pc[t] = "ferme" /\ ouvert' = [ouvert EXCEPT ![t] = FALSE]
      /\ UNCHANGED <<connectes, lances, joint, echecs, ind, tentatives, rangs, rang, verrou, mort>>
  BY DEF Sort, Va, Ferme, principal
<1>2. TypeOK'
  <2>1. pc' \in [Joueurs -> Etapes] /\ ouvert' \in [Joueurs -> BOOLEAN]
    BY <1>1 DEF IInv, TypeOK, Etapes
  <2>. QED BY <1>1, <2>1 DEF IInv, TypeOK
<1>3. SocketOuverte' /\ VerrouExact' /\ RangsExacts'
  BY <1>1 DEF IInv, TypeOK, SocketOuverte, VerrouExact, RangsExacts, EnJeu
<1>4. Ordre'
  BY <1>1 DEF IInv, TypeOK, Ordre
<1>. QED BY <1>2, <1>3, <1>4 DEF IInv

LEMMA NextIInv == IInv /\ [Next]_vars => IInv'
<1>. SUFFICES ASSUME IInv, [Next]_vars PROVE IInv'
  OBVIOUS
<1>1. CASE UNCHANGED vars
  BY <1>1 DEF vars, principal, joueurs, IInv, TypeOK, SocketOuverte, VerrouExact, RangsExacts, Ordre
<1>2. CASE Accepte \/ server_np
  BY <1>2, AccepteIInv, LanceIInv, JoindreIInv DEF server_np
<1>3. ASSUME NEW t \in Joueurs, LectureEchoue(t) \/ EcritureEchoue(t) PROVE IInv'
  BY <1>3, MeurtIInv DEF LectureEchoue, EcritureEchoue
<1>4. ASSUME NEW t \in Joueurs, lire_nb(t) \/ Joue(t) PROVE IInv'
  BY <1>4, LireIInv, VerrouilleIInv, TrouveIInv, CompteIInv, RateIInv, EcrireIInv, SortIInv DEF Joue
<1>. QED BY <1>1, <1>2, <1>3, <1>4 DEF Next

\* The lock, the sockets and the ranks of the one-game server are as IInv says
\* in every reachable state (jeu_devin_moi.c:124-178).
THEOREM ToujoursIInv == Spec => []IInv
BY InitIInv, NextIInv, PTL DEF Spec
-----------------------------------------------------------------------------
(* The ranking.                                                              *)

\* The rank being told is the counter's until the counter moves.
LEMMA ProchainSelon ==
    ASSUME IInv
    PROVE  /\ (\E t \in Joueurs : pc[t] = "compte") => Prochain = rang + 1
           /\ (\A t \in Joueurs : pc[t] # "compte") => Prochain = rang
           /\ \A t \in Joueurs : pc[t] \in {"compare", "compte"} =>
                 \A u \in Joueurs \ {t} : pc[u] \notin {"compare", "compte"}
BY DEF Prochain, IInv, VerrouExact

LEMMA TrouveGagne ==
    ASSUME IInv, IInv', NEW t \in Joueurs, Trouve(t)
    PROVE  Rangs!Gagne(t)
<1>1. pc[t] = "compare" /\ pc' = [pc EXCEPT ![t] = "compte"] /\ pc'[t] = "compte" /\ rang' = rang
      /\ rangs' = [rangs EXCEPT ![t] = rang]
  BY DEF Trouve, Va, IInv, TypeOK
<1>2. Prochain = rang
  BY <1>1, ProchainSelon
<1>3. Prochain' = rang + 1
  BY <1>1 DEF Prochain
<1>4. rangs[t] = 0
  BY <1>1 DEF IInv, RangsExacts
<1>. QED BY <1>1, <1>2, <1>3, <1>4 DEF Rangs!Gagne

LEMMA ComptePasse ==
    ASSUME IInv, IInv', NEW t \in Joueurs, Compte(t)
    PROVE  UNCHANGED Rangs!vars
<1>1. pc[t] = "compte" /\ pc' = [pc EXCEPT ![t] = "ecrire"] /\ rang' = rang + 1 /\ rangs' = rangs
  BY DEF Compte, Va
<1>2. Prochain = rang + 1
  BY <1>1, ProchainSelon
<1>3. \A u \in Joueurs : pc'[u] # "compte"
  BY <1>1, ProchainSelon DEF IInv, TypeOK
<1>4. Prochain' = rang + 1
  BY <1>1, <1>3 DEF Prochain
<1>. QED BY <1>1, <1>2, <1>4 DEF Rangs!vars

\* Every other step leaves the counter, the ranks and the thread that tells one.
LEMMA AutrePasse ==
    ASSUME rang' = rang, rangs' = rangs,
           \A t \in Joueurs : pc'[t] = "compte" <=> pc[t] = "compte"
    PROVE  UNCHANGED Rangs!vars
BY DEF Rangs!vars, Prochain

LEMMA EtapeClasse ==
    ASSUME IInv, IInv', [Next]_vars
    PROVE  [Rangs!Next]_Rangs!vars
<1>1. CASE UNCHANGED vars
  BY <1>1, AutrePasse DEF vars, joueurs
<1>2. CASE Accepte \/ server_np
  <2>1. CASE Meurt
    BY <2>1, AutrePasse DEF Meurt, joueurs
  <2>2. CASE Accepte \/ (Joindre /\ ~Meurt)
    BY <2>2, AutrePasse DEF Accepte, Joindre, joueurs
  <2>3. CASE serveur_1p_thread \/ EchecThread
    <3>1. PICK e \in {"lire", "sans"} : pc' = [pc EXCEPT ![lances + 1] = e]
      BY <2>3 DEF serveur_1p_thread, EchecThread, Va
    <3>2. pc[lances + 1] = "absent" /\ lances + 1 \in Joueurs
      BY <2>3 DEF serveur_1p_thread, EchecThread, IInv, TypeOK, Ordre, Joueurs
    <3>. QED BY <2>3, <3>1, <3>2, AutrePasse DEF serveur_1p_thread, EchecThread, IInv, TypeOK
  <2>. QED BY <1>2, <2>1, <2>2, <2>3 DEF server_np
<1>3. ASSUME NEW t \in Joueurs, LectureEchoue(t) \/ EcritureEchoue(t) PROVE UNCHANGED Rangs!vars
  BY <1>3, AutrePasse DEF LectureEchoue, EcritureEchoue, Meurt, joueurs
<1>4. ASSUME NEW t \in Joueurs, lire_nb(t) \/ Joue(t) PROVE [Rangs!Next]_Rangs!vars
  <2>1. CASE Trouve(t)
    BY <2>1, TrouveGagne DEF Rangs!Next
  <2>2. CASE Compte(t)
    BY <2>2, ComptePasse
  <2>3. CASE lire_nb(t) \/ Verrouille(t) \/ Rate(t) \/ ecrire_nb(t) \/ Sort(t)
    <3>1. PICK e \in Etapes \ {"compte"} : pc' = [pc EXCEPT ![t] = e]
      BY <2>3 DEF lire_nb, Verrouille, Rate, ecrire_nb, Sort, Va, Etapes, EnJeu
    <3>2. pc[t] # "compte" /\ rang' = rang /\ rangs' = rangs
      BY <2>3 DEF lire_nb, Verrouille, Rate, ecrire_nb, Sort
    <3>. QED BY <3>1, <3>2, AutrePasse DEF IInv, TypeOK
  <2>. QED BY <1>4, <2>1, <2>2, <2>3 DEF Joue
<1>. QED BY <1>1, <1>2, <1>3, <1>4 DEF Next

\* The one-game server ranks its winners as Classement says, whatever the
\* interleaving of their threads, although the rank is told before the counter
\* moves (jeu_devin_moi.c:140-141).
THEOREM ImplementeClassement == Spec => ClasseExactement
<1>1. Init => Rangs!Init
  BY DEF Init, Rangs!Init, Prochain
<1>2. IInv /\ IInv' /\ [Next]_vars => [Rangs!Next]_Rangs!vars
  BY EtapeClasse
<1>. QED BY <1>1, <1>2, ToujoursIInv, PTL DEF Spec, ClasseExactement, Rangs!Spec
-----------------------------------------------------------------------------
LEMMA ClassementExact == Rangs!Exact /\ [Rangs!Next]_Rangs!vars => Rangs!Exact'
<1>. SUFFICES ASSUME Rangs!Exact, [Rangs!Next]_Rangs!vars PROVE Rangs!Exact'
  OBVIOUS
<1>. USE DEF Rangs!Exact, Rangs!TypeOK, Rangs!SansExAequo, Rangs!SansTrou, Rangs!Borne
<1>1. CASE UNCHANGED Rangs!vars
  BY <1>1 DEF Rangs!vars
<1>2. ASSUME NEW t \in Joueurs, Rangs!Gagne(t) PROVE Rangs!Exact'
  <2>1. rangs[t] = 0 /\ rangs' = [rangs EXCEPT ![t] = Prochain] /\ Prochain' = Prochain + 1
    BY <1>2 DEF Rangs!Gagne
  <2>2. Rangs!TypeOK'
    BY <2>1
  <2>3. Rangs!SansExAequo' /\ Rangs!Borne'
    BY <2>1
  <2>4. Rangs!SansTrou'
    <3>1. ASSUME NEW r \in 1..Prochain PROVE \E u \in Joueurs : rangs'[u] = r
      <4>1. CASE r = Prochain
        BY <2>1, <4>1
      <4>2. CASE r \in 1..(Prochain - 1)
        BY <2>1, <4>2
      <4>. QED BY <4>1, <4>2
    <3>. QED BY <2>1, <3>1
  <2>. QED BY <2>2, <2>3, <2>4
<1>. QED BY <1>1, <1>2 DEF Rangs!Next

\* What Classement promises is exact, and so are the ranks that the server tells:
\* no two winners share one, and none is skipped.
THEOREM RangsDistincts == Spec => []Rangs!Exact
<1>1. Rangs!Init => Rangs!Exact
  BY DEF Rangs!Init, Rangs!Exact, Rangs!TypeOK, Rangs!SansExAequo, Rangs!SansTrou, Rangs!Borne
<1>. QED BY <1>1, ClassementExact, ImplementeClassement, PTL DEF ClasseExactement, Rangs!Spec
=============================================================================
