-------------------------- MODULE JeuDevinProofs ---------------------------
(* Proofs about JeuDevin, for any number of games, players, tries and        *)
(* descriptors: the types, the ranks of the winners and the memory that the  *)
(* threads of a game share.                                                  *)
EXTENDS JeuDevin, TLAPS

USE JeuAssumption, AucunAssumption

LEMMA Numeros ==
    /\ \A t \in Joueurs : t[1] \in Parties /\ t[2] \in 1..NbJoueurs
    /\ \A g \in Parties, j \in 1..NbJoueurs : <<g, j>> \in Joueurs /\ <<g, j>>[1] = g
    /\ \A t, u \in Joueurs : t[1] = u[1] /\ t[2] = u[2] => t = u
BY DEF Joueurs

LEMMA InitIInv == Init => IInv
<1>. SUFFICES ASSUME Init PROVE IInv
  OBVIOUS
<1>1. \A t \in Joueurs :
        pc[t] = "absent" /\ rangs[t] = 0 /\ tent[t] = 0 /\ sock[t] = 0 /\ t[1] >= 1
  BY Numeros DEF Init, Parties
<1>2. TypeOK
  <2>1. nb_partie \in 1..(MaxParties + 1) /\ places \in 0..NbJoueurs
        /\ joint \in [Parties -> 0..(NbJoueurs + 1)]
    BY DEF Init
  <2>2. pc \in [Joueurs -> Etapes] /\ sock \in [Joueurs -> Fds \cup {0}]
        /\ fd \in [Fds -> Joueurs \cup {Aucun}] /\ verrou \in Joueurs \cup {Aucun}
    BY DEF Init, Etapes
  <2>3. ind \in [Joueurs -> 0..(Capacite - 1)] /\ tent \in [Joueurs -> 0..NbTentatives]
        /\ rangs \in [Joueurs -> Nat] /\ rang \in Nat
    BY DEF Init
  <2>4. mort \in BOOLEAN
    BY Zenon DEF Init
  <2>. QED BY <1>1, <2>1, <2>2, <2>3, <2>4 DEF TypeOK
<1>3. VerrouExact /\ EssaiRestant /\ JointsFinis
  BY <1>1 DEF Init, VerrouExact, EssaiRestant, EnJeu, JointsFinis
<1>4. PartiesAVenir
  BY <1>1 DEF Init, PartiesAVenir, Parties
<1>5. RangsExacts
  BY <1>1 DEF Init, RangsExacts, EnJeu
<1>. QED BY <1>2, <1>3, <1>4, <1>5 DEF IInv

\* The end of the process leaves nothing to check.
LEMMA MeurtIInv == Meurt => IInv'
<1>. SUFFICES ASSUME Meurt PROVE IInv'
  OBVIOUS
<1>1. \A t \in Joueurs :
        pc'[t] = "absent" /\ rangs'[t] = 0 /\ tent'[t] = 0 /\ sock'[t] = 0 /\ t[1] >= 1
  BY Numeros DEF Meurt, Parties
<1>2. TypeOK'
  <2>1. mort' \in BOOLEAN
    BY Zenon DEF Meurt
  <2>. QED BY <1>1, <2>1 DEF Meurt, TypeOK, Etapes
<1>3. VerrouExact' /\ EssaiRestant' /\ JointsFinis'
  BY <1>1 DEF Meurt, VerrouExact, EssaiRestant, EnJeu, JointsFinis
<1>4. PartiesAVenir'
  BY <1>1 DEF Meurt, PartiesAVenir, Parties
<1>5. RangsExacts'
  BY <1>1 DEF Meurt, RangsExacts, EnJeu
<1>. QED BY <1>2, <1>3, <1>4, <1>5 DEF IInv

\* What every step of the thread of a player keeps: it neither starts a thread
\* nor wakes one that ended.
LEMMA PasDeJoueur ==
    ASSUME IInv, NEW t \in Joueurs, NEW e \in Etapes \ {"absent"},
           pc[t] \notin {"absent", "fini"}, Va(t, e), UNCHANGED <<serveur, joint>>
    PROVE  /\ pc' \in [Joueurs -> Etapes]
           /\ \A u \in Joueurs : pc'[u] = IF u = t THEN e ELSE pc[u]
           /\ \A u \in Joueurs : pc'[u] # "absent" => sock'[u] # 0
           /\ PartiesAVenir' /\ JointsFinis'
<1>1. pc \in [Joueurs -> Etapes] /\ pc' = [pc EXCEPT ![t] = e]
  BY DEF IInv, TypeOK, Va
<1>2. \A u \in Joueurs : pc'[u] = IF u = t THEN e ELSE pc[u]
  BY <1>1
<1>3. sock' = sock /\ nb_partie' = nb_partie /\ places' = places /\ joint' = joint
  BY DEF serveur
<1>4. \A u \in Joueurs : pc'[u] # "absent" => sock'[u] # 0
  BY <1>2, <1>3 DEF IInv, TypeOK
<1>5. PartiesAVenir'
  BY <1>2, <1>3 DEF IInv, PartiesAVenir
<1>6. JointsFinis'
  <2>1. \A g \in Parties, j \in 1..NbJoueurs : <<g, j>> \in Joueurs
    BY DEF Joueurs
  <2>. QED BY <1>2, <1>3, <2>1 DEF IInv, JointsFinis
<1>. QED BY <1>1, <1>2, <1>4, <1>5, <1>6

\* A step outside the critical section that neither gives nor takes a rank.
LEMMA PasHorsSection ==
    ASSUME IInv, NEW t \in Joueurs, NEW e \in Etapes \ {"absent", "section", "annonce"},
           pc[t] \notin {"absent", "fini", "section", "annonce"},
           e \in EnJeu \ {"ecrire"} => rangs[t] = 0,
           \A u \in Joueurs : pc'[u] = IF u = t THEN e ELSE pc[u],
           UNCHANGED <<verrou, rangs, rang>>
    PROVE  VerrouExact' /\ RangsExacts'
<1>1. VerrouExact'
  BY DEF IInv, VerrouExact
<1>2. \A u \in Joueurs : pc'[u] = "annonce" <=> pc[u] = "annonce"
  OBVIOUS
<1>3. \A u \in Joueurs :
        pc'[u] \in (EnJeu \ {"ecrire"}) \cup {"absent"} => rangs[u] = 0
  BY DEF IInv, RangsExacts
<1>. QED BY <1>1, <1>2, <1>3 DEF IInv, RangsExacts

LEMMA AccepteIInv == ASSUME IInv, Accepte PROVE IInv'
<1>1. PICK f \in Fds :
        /\ fd' = [fd EXCEPT ![f] = <<nb_partie, places + 1>>]
        /\ sock' = [sock EXCEPT ![<<nb_partie, places + 1>>] = f]
  BY DEF Accepte
<1>2. /\ nb_partie \in Parties /\ places + 1 \in 1..NbJoueurs /\ f # 0
      /\ <<nb_partie, places + 1>> \in Joueurs
  BY DEF Accepte, IInv, TypeOK, Joueurs, Fds
<1>3. TypeOK'
  BY <1>1, <1>2 DEF Accepte, IInv, TypeOK, joueurs
<1>4. \A j \in 1..places' : sock'[<<nb_partie, j>>] # 0
  <2>1. \A j \in 1..places : <<nb_partie, j>> \in Joueurs
    BY <1>2 DEF Joueurs, IInv, TypeOK
  <2>2. \A j \in 1..places' : j \in 1..places \/ j = places + 1
    BY DEF Accepte, IInv, TypeOK
  <2>. QED BY <1>1, <1>2, <2>1, <2>2 DEF IInv, TypeOK, PartiesAVenir
<1>5. PartiesAVenir'
  BY <1>4 DEF Accepte, IInv, PartiesAVenir, joueurs
<1>6. VerrouExact' /\ EssaiRestant' /\ RangsExacts' /\ JointsFinis'
  BY DEF Accepte, IInv, VerrouExact, EssaiRestant, RangsExacts, JointsFinis, joueurs
<1>. QED BY <1>3, <1>5, <1>6 DEF IInv

LEMMA LancePartieIInv == ASSUME IInv, LancePartie PROVE IInv'
<1>1. \A t \in Joueurs :
        /\ pc'[t] = IF t[1] = nb_partie THEN "lire" ELSE pc[t]
        /\ tent'[t] = IF t[1] = nb_partie THEN NbTentatives ELSE tent[t]
  BY DEF LancePartie
<1>2. \A g \in Parties : joint'[g] = IF g = nb_partie THEN 1 ELSE joint[g]
  BY DEF LancePartie, IInv, TypeOK
<1>3. \A t \in Joueurs : t[1] = nb_partie => pc[t] = "absent" /\ sock[t] # 0
  <2>1. ASSUME NEW t \in Joueurs, t[1] = nb_partie
        PROVE  pc[t] = "absent" /\ sock[t] # 0
    <3>1. t[2] \in 1..places /\ t = <<nb_partie, t[2]>>
      BY <2>1 DEF Joueurs, LancePartie
    <3>2. nb_partie \in Parties /\ nb_partie \in Nat
      BY DEF LancePartie, Parties
    <3>. QED BY <2>1, <3>1, <3>2 DEF IInv, PartiesAVenir
  <2>. QED BY <2>1
<1>4. TypeOK'
  <2>1. pc' \in [Joueurs -> Etapes] /\ tent' \in [Joueurs -> 0..NbTentatives]
    BY DEF LancePartie, IInv, TypeOK, Etapes
  <2>2. nb_partie' \in 1..(MaxParties + 1) /\ places' \in 0..NbJoueurs
        /\ joint' \in [Parties -> 0..(NbJoueurs + 1)]
    BY DEF LancePartie, IInv, TypeOK, Parties
  <2>3. \A t \in Joueurs : pc'[t] # "absent" => sock'[t] # 0
    BY <1>1, <1>3 DEF LancePartie, IInv, TypeOK
  <2>. QED BY <2>1, <2>2, <2>3 DEF LancePartie, IInv, TypeOK
<1>5. VerrouExact' /\ EssaiRestant'
  BY <1>1, <1>3 DEF LancePartie, IInv, VerrouExact, EssaiRestant
<1>6. PartiesAVenir'
  <2>1. nb_partie' = nb_partie + 1 /\ nb_partie \in Nat /\ places' = 0
    BY DEF LancePartie, Parties
  <2>2. \A g \in Parties : g >= nb_partie' <=> joint'[g] = 0
    BY <1>2, <2>1 DEF IInv, PartiesAVenir, Parties
  <2>3. \A t \in Joueurs : t[1] >= nb_partie' <=> pc'[t] = "absent"
    BY <1>1, <1>3, <2>1, Numeros DEF IInv, PartiesAVenir, Parties
  <2>. QED BY <2>1, <2>2, <2>3 DEF PartiesAVenir
<1>7. RangsExacts'
  <2>1. \A t \in Joueurs : t[1] = nb_partie => rangs[t] = 0
    BY <1>3 DEF IInv, RangsExacts
  <2>2. \A t \in Joueurs : pc'[t] = "annonce" <=> pc[t] = "annonce"
    BY <1>1, <1>3
  <2>3. rangs' = rangs /\ rang' = rang
    BY DEF LancePartie
  <2>4. \A t \in Joueurs :
          pc'[t] \in (EnJeu \ {"ecrire"}) \cup {"absent"} => rangs[t] = 0
    BY <1>1, <2>1 DEF IInv, RangsExacts
  <2>. QED BY <2>2, <2>3, <2>4 DEF IInv, RangsExacts
<1>8. JointsFinis'
  <2>1. ASSUME NEW g \in Parties, NEW j \in 1..NbJoueurs, j < joint'[g]
        PROVE  pc'[<<g, j>>] = "fini"
    <3>1. g # nb_partie /\ j < joint[g]
      BY <1>2, <2>1
    <3>. QED BY <1>1, <3>1, Numeros DEF IInv, JointsFinis
  <2>. QED BY <2>1 DEF JointsFinis
<1>. QED BY <1>4, <1>5, <1>6, <1>7, <1>8 DEF IInv

LEMMA RecoitIInv == ASSUME IInv, NEW t \in Joueurs, Recoit(t) PROVE IInv'
<1>1. /\ ind' \in [Joueurs -> 0..(Capacite - 1)]
      /\ \E e \in {"lire", "ferme1", "verrou"} : Va(t, e)
  <2>1. ind[t] \in 0..(Capacite - 1) /\ ind \in [Joueurs -> 0..(Capacite - 1)]
    BY DEF IInv, TypeOK
  <2>2. CASE FinDeLecture(t, ind[t], TRUE)
    BY <2>1, <2>2 DEF FinDeLecture
  <2>3. CASE FinDeLecture(t, ind[t] + 1, TRUE)
    BY <2>1, <2>3 DEF FinDeLecture
  <2>4. CASE ind[t] + 1 # Capacite /\ FinDeLecture(t, ind[t] + 1, FALSE)
    BY <2>1, <2>4 DEF FinDeLecture
  <2>. QED BY <2>2, <2>3, <2>4 DEF Recoit
<1>2. PICK e \in {"lire", "ferme1", "verrou"} : Va(t, e)
  BY <1>1
<1>3. /\ pc' \in [Joueurs -> Etapes]
      /\ \A u \in Joueurs : pc'[u] = IF u = t THEN e ELSE pc[u]
      /\ \A u \in Joueurs : pc'[u] # "absent" => sock'[u] # 0
      /\ PartiesAVenir' /\ JointsFinis'
  BY <1>2, PasDeJoueur DEF Recoit, Etapes
<1>4. VerrouExact' /\ RangsExacts'
  <2>1. rangs[t] = 0
    BY DEF Recoit, IInv, RangsExacts, EnJeu
  <2>. QED BY <1>3, <2>1, PasHorsSection DEF Recoit, Etapes
<1>5. TypeOK'
  BY <1>1, <1>3 DEF Recoit, IInv, TypeOK, serveur
<1>6. EssaiRestant'
  BY <1>3 DEF Recoit, IInv, EssaiRestant, EnJeu
<1>. QED BY <1>3, <1>4, <1>5, <1>6 DEF IInv

LEMMA AppelleRecvIInv == ASSUME IInv, NEW t \in Joueurs, AppelleRecv(t) PROVE IInv'
<1>1. CASE Meurt
  BY <1>1, MeurtIInv
<1>2. CASE /\ Va(t, "bloque")
           /\ UNCHANGED <<fd, serveur, ind, tent, rangs, rang, verrou, joint, mort>>
  <2>1. /\ pc' \in [Joueurs -> Etapes]
        /\ \A u \in Joueurs : pc'[u] = IF u = t THEN "bloque" ELSE pc[u]
        /\ \A u \in Joueurs : pc'[u] # "absent" => sock'[u] # 0
        /\ PartiesAVenir' /\ JointsFinis'
    BY <1>2, PasDeJoueur DEF AppelleRecv, Etapes
  <2>2. VerrouExact' /\ RangsExacts'
    <3>1. rangs[t] = 0
      BY DEF AppelleRecv, IInv, RangsExacts, EnJeu
    <3>. QED BY <1>2, <2>1, <3>1, PasHorsSection DEF AppelleRecv, Etapes
  <2>3. TypeOK'
    BY <1>2, <2>1 DEF IInv, TypeOK, serveur
  <2>4. EssaiRestant'
    BY <1>2, <2>1 DEF AppelleRecv, IInv, EssaiRestant, EnJeu
  <2>. QED BY <2>1, <2>2, <2>3, <2>4 DEF IInv
<1>. QED BY <1>1, <1>2 DEF AppelleRecv

LEMMA VerrouilleIInv == ASSUME IInv, NEW t \in Joueurs, Verrouille(t) PROVE IInv'
<1>1. /\ pc' \in [Joueurs -> Etapes]
      /\ \A u \in Joueurs : pc'[u] = IF u = t THEN "section" ELSE pc[u]
      /\ \A u \in Joueurs : pc'[u] # "absent" => sock'[u] # 0
      /\ PartiesAVenir' /\ JointsFinis'
  BY PasDeJoueur DEF Verrouille, Etapes
<1>2. VerrouExact'
  BY <1>1 DEF Verrouille, VerrouLibre, IInv, VerrouExact
<1>3. RangsExacts'
  <2>1. \A u \in Joueurs : pc'[u] = "annonce" <=> pc[u] = "annonce"
    BY <1>1 DEF Verrouille
  <2>2. \A u \in Joueurs :
          pc'[u] \in (EnJeu \ {"ecrire"}) \cup {"absent"} => rangs[u] = 0
    BY <1>1 DEF Verrouille, IInv, RangsExacts, EnJeu
  <2>. QED BY <2>1, <2>2 DEF Verrouille, IInv, RangsExacts
<1>4. TypeOK'
  BY <1>1 DEF Verrouille, IInv, TypeOK, serveur
<1>5. EssaiRestant'
  BY <1>1 DEF Verrouille, IInv, EssaiRestant, EnJeu
<1>. QED BY <1>1, <1>2, <1>3, <1>4, <1>5 DEF IInv

\* The counter moves to a rank that nobody has, for the thread that holds the
\* lock to announce.
LEMMA TrouveIInv == ASSUME IInv, NEW t \in Joueurs, Trouve(t) PROVE IInv'
<1>1. /\ pc' \in [Joueurs -> Etapes]
      /\ \A u \in Joueurs : pc'[u] = IF u = t THEN "annonce" ELSE pc[u]
      /\ \A u \in Joueurs : pc'[u] # "absent" => sock'[u] # 0
      /\ PartiesAVenir' /\ JointsFinis'
  BY PasDeJoueur DEF Trouve, Etapes
<1>2. VerrouExact'
  BY <1>1 DEF Trouve, IInv, VerrouExact
<1>3. rang \in Nat /\ rangs \in [Joueurs -> Nat] /\ rang' = rang + 1 /\ rangs' = rangs
  BY DEF Trouve, IInv, TypeOK
<1>4. \A u \in Joueurs : pc[u] # "annonce"
  BY DEF Trouve, IInv, VerrouExact
<1>5. RangsExacts'
  <2>1. \A u \in Joueurs : rangs[u] <= rang
    BY DEF IInv, RangsExacts
  <2>2. \A u \in Joueurs :
          pc'[u] \in (EnJeu \ {"ecrire"}) \cup {"absent"} => rangs[u] = 0
    BY <1>1 DEF Trouve, IInv, RangsExacts, EnJeu
  <2>3. \A r \in 1..rang : \E u \in Joueurs : rangs[u] = r
    BY <1>4 DEF IInv, RangsExacts
  <2>4. \A r \in 1..rang' : r \in 1..rang \/ r = rang'
    BY <1>3
  <2>5. \A r \in 1..rang' :
          \/ \E u \in Joueurs : rangs'[u] = r
          \/ r = rang' /\ \E u \in Joueurs : pc'[u] = "annonce"
    BY <1>1, <1>3, <2>3, <2>4
  <2>6. \A u \in Joueurs : rangs[u] <= rang' /\ rangs[u] # rang'
    BY <1>3, <2>1
  <2>. QED BY <1>1, <1>3, <2>2, <2>5, <2>6 DEF IInv, RangsExacts
<1>6. TypeOK'
  BY <1>1, <1>3 DEF Trouve, IInv, TypeOK, serveur
<1>7. EssaiRestant'
  BY <1>1 DEF Trouve, IInv, EssaiRestant, EnJeu
<1>. QED BY <1>1, <1>2, <1>5, <1>6, <1>7 DEF IInv

LEMMA AnnonceIInv == ASSUME IInv, NEW t \in Joueurs, Annonce(t) PROVE IInv'
<1>1. /\ pc' \in [Joueurs -> Etapes]
      /\ \A u \in Joueurs : pc'[u] = IF u = t THEN "ecrire" ELSE pc[u]
      /\ \A u \in Joueurs : pc'[u] # "absent" => sock'[u] # 0
      /\ PartiesAVenir' /\ JointsFinis'
  BY PasDeJoueur DEF Annonce, Etapes
<1>2. VerrouExact'
  BY <1>1 DEF Annonce, IInv, VerrouExact
<1>3. /\ rang \in Nat /\ rang' = rang
      /\ \A u \in Joueurs : rangs'[u] = IF u = t THEN rang ELSE rangs[u]
      /\ rangs' \in [Joueurs -> Nat]
  BY DEF Annonce, IInv, TypeOK
<1>4. rangs[t] = 0 /\ rang # 0 /\ \A u \in Joueurs : rangs[u] # rang
  BY DEF Annonce, IInv, RangsExacts, EnJeu
<1>5. RangsExacts'
  <2>1. \A u \in Joueurs : pc'[u] # "annonce"
    BY <1>1 DEF Annonce, IInv, VerrouExact
  <2>2. \A u \in Joueurs :
          pc'[u] \in (EnJeu \ {"ecrire"}) \cup {"absent"} => rangs'[u] = 0
    BY <1>1, <1>3 DEF Annonce, IInv, RangsExacts
  <2>3. \A u \in Joueurs : rangs'[u] <= rang'
    BY <1>3 DEF IInv, RangsExacts
  <2>4. \A u, v \in Joueurs : rangs'[u] # 0 /\ rangs'[u] = rangs'[v] => u = v
    BY <1>3, <1>4 DEF IInv, RangsExacts
  <2>5. \A r \in 1..rang' : \E u \in Joueurs : rangs'[u] = r
    BY <1>3, <1>4 DEF IInv, RangsExacts
  <2>. QED BY <2>1, <2>2, <2>3, <2>4, <2>5 DEF RangsExacts
<1>6. TypeOK'
  BY <1>1, <1>3 DEF Annonce, IInv, TypeOK, serveur
<1>7. EssaiRestant'
  BY <1>1 DEF Annonce, IInv, EssaiRestant
<1>. QED BY <1>1, <1>2, <1>5, <1>6, <1>7 DEF IInv

LEMMA RateIInv == ASSUME IInv, NEW t \in Joueurs, Rate(t) PROVE IInv'
<1>1. /\ pc' \in [Joueurs -> Etapes]
      /\ \A u \in Joueurs : pc'[u] = IF u = t THEN "ecrire" ELSE pc[u]
      /\ \A u \in Joueurs : pc'[u] # "absent" => sock'[u] # 0
      /\ PartiesAVenir' /\ JointsFinis'
  BY PasDeJoueur DEF Rate, Etapes
<1>2. VerrouExact'
  BY <1>1 DEF Rate, IInv, VerrouExact
<1>3. RangsExacts'
  <2>1. \A u \in Joueurs : pc'[u] = "annonce" <=> pc[u] = "annonce"
    BY <1>1 DEF Rate
  <2>2. \A u \in Joueurs :
          pc'[u] \in (EnJeu \ {"ecrire"}) \cup {"absent"} => rangs[u] = 0
    BY <1>1 DEF IInv, RangsExacts
  <2>. QED BY <2>1, <2>2 DEF Rate, IInv, RangsExacts
<1>4. tent' \in [Joueurs -> 0..NbTentatives]
  <2>1. tent[t] \in 1..NbTentatives
    BY DEF Rate, IInv, TypeOK, EssaiRestant, EnJeu
  <2>. QED BY <2>1 DEF Rate, IInv, TypeOK
<1>5. TypeOK'
  BY <1>1, <1>4 DEF Rate, IInv, TypeOK, serveur
<1>6. EssaiRestant'
  BY <1>1 DEF Rate, IInv, TypeOK, EssaiRestant
<1>. QED BY <1>1, <1>2, <1>3, <1>5, <1>6 DEF IInv

LEMMA EcrireIInv == ASSUME IInv, NEW t \in Joueurs, ecrire_nb(t) PROVE IInv'
<1>1. CASE Meurt
  BY <1>1, MeurtIInv
<1>2. CASE /\ Va(t, IF PartieJouee(t) THEN "ferme1" ELSE "lire")
           /\ UNCHANGED <<fd, serveur, ind, tent, rangs, rang, verrou, joint, mort>>
  <2>1. PICK e \in {"ferme1", "lire"} :
          Va(t, e) /\ (e = "lire" => rangs[t] = 0 /\ tent[t] # 0)
    BY <1>2 DEF PartieJouee
  <2>2. /\ pc' \in [Joueurs -> Etapes]
        /\ \A u \in Joueurs : pc'[u] = IF u = t THEN e ELSE pc[u]
        /\ \A u \in Joueurs : pc'[u] # "absent" => sock'[u] # 0
        /\ PartiesAVenir' /\ JointsFinis'
    BY <1>2, <2>1, PasDeJoueur DEF ecrire_nb, Etapes
  <2>3. VerrouExact' /\ RangsExacts'
    <3>1. e \in EnJeu \ {"ecrire"} => rangs[t] = 0
      BY <2>1 DEF EnJeu
    <3>. QED BY <1>2, <2>2, <3>1, PasHorsSection DEF ecrire_nb, Etapes
  <2>4. TypeOK'
    BY <1>2, <2>2 DEF IInv, TypeOK, serveur
  <2>5. EssaiRestant'
    BY <1>2, <2>1, <2>2 DEF IInv, EssaiRestant, EnJeu
  <2>. QED BY <2>2, <2>3, <2>4, <2>5 DEF IInv
<1>. QED BY <1>1, <1>2 DEF ecrire_nb

LEMMA FermeIInv ==
    ASSUME IInv, NEW t \in Joueurs, game_np_ferme(t) \/ game_np_point_ferme(t)
    PROVE  IInv'
<1>1. PICK e \in {"ferme2", "fini"} :
        /\ Va(t, e) /\ Ferme(sock[t]) /\ pc[t] \in {"ferme1", "ferme2"}
        /\ UNCHANGED <<serveur, ind, tent, rangs, rang, verrou, joint, mort>>
  BY DEF game_np_ferme, game_np_point_ferme
<1>2. /\ pc' \in [Joueurs -> Etapes]
      /\ \A u \in Joueurs : pc'[u] = IF u = t THEN e ELSE pc[u]
      /\ \A u \in Joueurs : pc'[u] # "absent" => sock'[u] # 0
      /\ PartiesAVenir' /\ JointsFinis'
  BY <1>1, PasDeJoueur DEF Etapes
<1>3. VerrouExact' /\ RangsExacts'
  BY <1>1, <1>2, PasHorsSection DEF Etapes, EnJeu
<1>4. TypeOK'
  BY <1>1, <1>2 DEF IInv, TypeOK, serveur, Ferme
<1>5. EssaiRestant'
  BY <1>1, <1>2 DEF IInv, EssaiRestant, EnJeu
<1>. QED BY <1>2, <1>3, <1>4, <1>5 DEF IInv

LEMMA GererPartieIInv == ASSUME IInv, NEW g \in Parties, gerer_partie(g) PROVE IInv'
<1>1. /\ joint[g] \in 1..NbJoueurs /\ pc[<<g, joint[g]>>] = "fini"
      /\ \A h \in Parties : joint'[h] = IF h = g THEN joint[g] + 1 ELSE joint[h]
      /\ joint' \in [Parties -> 0..(NbJoueurs + 1)]
  BY DEF gerer_partie, Joint, IInv, TypeOK
<1>2. fd' \in [Fds -> Joueurs \cup {Aucun}]
  BY DEF gerer_partie, Ferme, IInv, TypeOK
<1>3. TypeOK'
  BY <1>1, <1>2 DEF gerer_partie, IInv, TypeOK, serveur, joueurs
<1>4. PartiesAVenir'
  BY <1>1 DEF gerer_partie, IInv, PartiesAVenir, serveur, joueurs
<1>5. JointsFinis'
  <2>1. ASSUME NEW h \in Parties, NEW j \in 1..NbJoueurs, j < joint'[h]
        PROVE  j < joint[h] \/ (h = g /\ j = joint[g])
    BY <1>1, <2>1 DEF IInv, TypeOK
  <2>. QED BY <1>1, <2>1 DEF gerer_partie, IInv, JointsFinis, joueurs
<1>6. VerrouExact' /\ EssaiRestant' /\ RangsExacts'
  BY DEF gerer_partie, IInv, VerrouExact, EssaiRestant, RangsExacts, joueurs
<1>. QED BY <1>3, <1>4, <1>5, <1>6 DEF IInv

LEMMA PasIInv == IInv /\ [Next]_vars => IInv'
<1>. SUFFICES ASSUME IInv, [Next]_vars PROVE IInv'
  OBVIOUS
<1>1. CASE Accepte
  BY <1>1, AccepteIInv
<1>2. CASE AccepteEchoue
  BY <1>2, MeurtIInv DEF AccepteEchoue
<1>3. CASE LancePartie
  BY <1>3, LancePartieIInv
<1>4. ASSUME NEW t \in Joueurs, Recoit(t) PROVE IInv'
  BY <1>4, RecoitIInv
<1>5. ASSUME NEW t \in Joueurs, RecvEchoue(t) PROVE IInv'
  BY <1>5, MeurtIInv DEF RecvEchoue
<1>6. ASSUME NEW t \in Joueurs, Joue(t) PROVE IInv'
  BY <1>6, AppelleRecvIInv, VerrouilleIInv, TrouveIInv, AnnonceIInv, RateIInv,
     EcrireIInv, FermeIInv DEF Joue
<1>7. ASSUME NEW g \in Parties, gerer_partie(g) PROVE IInv'
  BY <1>7, GererPartieIInv
<1>8. CASE UNCHANGED vars
  BY <1>8 DEF vars, IInv, TypeOK, VerrouExact, PartiesAVenir, EssaiRestant,
             RangsExacts, JointsFinis
<1>. QED BY <1>1, <1>2, <1>3, <1>4, <1>5, <1>6, <1>7, <1>8 DEF Next

\* The inductive invariant always holds.
THEOREM ToujoursIInv == Spec => []IInv
BY InitIInv, PasIInv, PTL DEF Spec

\* Every variable keeps its type: no player has more tries than it was given,
\* and no thread runs without a descriptor.
THEOREM TypeCorrect == Spec => []TypeOK
<1>1. IInv => TypeOK
  BY DEF IInv
<1>. QED BY <1>1, ToujoursIInv, PTL

\* The ranks told to the winners are 1, 2, ..., each told once, in game_np.
THEOREM RangsDesGagnants == Spec => []ClassementExact
<1>1. IInv => ClassementExact
  <2>. SUFFICES ASSUME IInv PROVE ClassementExact
    OBVIOUS
  <2>1. verrou = Aucun => \A t \in Joueurs : pc[t] # "annonce"
    BY DEF IInv, VerrouExact
  <2>. QED BY <2>1 DEF IInv, RangsExacts, ClassementExact
<1>. QED BY <1>1, ToujoursIInv, PTL

\* gerer_partie frees what its players point to after the last one ended.
THEOREM MemoireDesParties == Spec => []MemoireVivante
<1>1. IInv => MemoireVivante
  BY DEF IInv, JointsFinis, MemoireVivante
<1>. QED BY <1>1, ToujoursIInv, PTL
=============================================================================
