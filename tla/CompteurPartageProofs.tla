------------------------ MODULE CompteurPartageProofs ------------------------
(* Proofs about CompteurPartage, for any finite set of threads: the lock,    *)
(* the counter, and what is left of it when a wakeup came without a signal.  *)
EXTENDS CompteurPartage, FiniteSetTheorems, TLAPS

USE CompteurAssumption

LEMMA NombreDeFils == Cardinality(Fils) \in Nat
BY FS_CardinalityType

LEMMA TirageNat == TypeCompteur => tirage \in Nat
BY DEF TypeCompteur

\* Fewer threads than there are have ended.
LEMMA FinisNat ==
    /\ IsFiniteSet(Finis) /\ Cardinality(Finis) \in Nat
    /\ Cardinality(Finis) <= Cardinality(Fils)
<1>1. Finis \subseteq Fils
  BY DEF Finis
<1>. QED BY <1>1, FS_Subset, FS_CardinalityType

\* A step in which no thread ends leaves the number of those that did.
LEMMA MemesFinis ==
    ASSUME TypeCompteur, TypeCompteur',
           \A t \in Fils : etat'[t] = "fini" <=> etat[t] = "fini"
    PROVE  Finis' = Finis
BY DEF Finis

\* A thread that ends is one more.
LEMMA UnDePlus ==
    ASSUME TypeCompteur, NEW t \in Fils, etat[t] # "fini",
           etat' = [etat EXCEPT ![t] = "fini"]
    PROVE  Cardinality(Finis') = Cardinality(Finis) + 1
<1>1. Finis' = Finis \cup {t} /\ t \notin Finis
  BY DEF Finis, TypeCompteur
<1>. QED BY <1>1, FinisNat, FS_AddElement

LEMMA InitIInvCompteur == InitCompteur => IInvCompteur
<1>. SUFFICES ASSUME InitCompteur PROVE IInvCompteur
  OBVIOUS
<1>1. Finis = {} /\ Cardinality(Finis) = 0
  BY FS_EmptySet DEF InitCompteur, Finis
<1>2. TypeCompteur
  BY NombreDeFils DEF InitCompteur, TypeCompteur, Dehors
<1>3. VerrouCompteur /\ EtapeDeMain
  BY DEF InitCompteur, VerrouCompteur, EtapeDeMain, Dedans
<1>4. CompteExact /\ CompteBorne
  BY <1>1 DEF InitCompteur, CompteExact, CompteBorne, AvantTirage
<1>. QED BY <1>2, <1>3, <1>4 DEF IInvCompteur
-----------------------------------------------------------------------------
(* A step of a thread that neither reads nor writes the counter.             *)

\* Such a step moves one thread within the places where nothing was read.
Passage(t, avant, apres) ==
    /\ etat[t] \in avant /\ \E e \in apres : etat' = [etat EXCEPT ![t] = e]
    /\ UNCHANGED <<exemple, var, tirage, lu, main, signaux>>
    /\ reveils' \in {reveils, reveils + 1}

\* The counts follow from where the thread goes.
LEMMA PassageCompte ==
    ASSUME IInvCompteur, TypeCompteur', NEW t \in Fils, NEW avant, NEW apres,
           Passage(t, avant, apres), "fini" \notin avant \cup apres, "ecrire" \notin apres,
           main # "fini",
           (reveils' = 0 /\ exemple # "test_mutex" /\ main \in AvantTirage) =>
               apres \subseteq {"absent", "debut", "teste", "attendre", "attend"}
    PROVE  EtapeDeMain' /\ CompteExact' /\ CompteBorne'
<1>1. TypeCompteur
  BY DEF IInvCompteur
<1>2. \A u \in Fils : etat'[u] = "fini" <=> etat[u] = "fini"
  BY <1>1 DEF Passage, TypeCompteur
<1>3. Finis' = Finis
  BY <1>1, <1>2, MemesFinis
<1>4. \A u \in Fils : etat'[u] = "ecrire" => etat[u] = "ecrire"
  BY <1>1 DEF Passage, TypeCompteur
<1>5. EtapeDeMain'
  BY <1>3 DEF IInvCompteur, EtapeDeMain, Passage
<1>6. CompteBorne'
  BY <1>3, <1>4 DEF IInvCompteur, CompteBorne, Passage
<1>7. CompteExact'
  <2>. SUFFICES ASSUME reveils' = 0 PROVE CompteExact'
    BY DEF CompteExact
  <2>1. reveils = 0
    BY <1>1 DEF Passage, TypeCompteur
  <2>2. (\A u \in Fils : etat'[u] = "ecrire" => lu'[u] = var')
        /\ var' = tirage' + Cardinality(Finis')
    BY <1>3, <1>4, <2>1 DEF IInvCompteur, CompteExact, Passage
  <2>3. exemple' # "test_mutex" /\ main' \in AvantTirage =>
          /\ tirage' = 0
          /\ \A u \in Fils : etat'[u] \in {"absent", "debut", "teste", "attendre", "attend"}
    BY <1>1, <2>1 DEF IInvCompteur, CompteExact, Passage, TypeCompteur
  <2>. QED BY <2>2, <2>3 DEF CompteExact
<1>. QED BY <1>5, <1>6, <1>7

\* A thread that did not end keeps main() from ending.
LEMMA MainAttend ==
    ASSUME IInvCompteur, NEW t \in Fils, etat[t] # "fini"
    PROVE  main # "fini"
BY DEF IInvCompteur, EtapeDeMain, Finis

LEMMA PrendMutexIInv ==
    ASSUME IInvCompteur, NEW t \in Fils, PrendMutex(t)
    PROVE  IInvCompteur'
<1>1. TypeCompteur /\ main # "fini"
  BY MainAttend DEF IInvCompteur, PrendMutex
<1>. DEFINE e == IF exemple = "test_mutex" THEN "lire" ELSE "teste"
<1>2. etat[t] = "debut" /\ etat' = [etat EXCEPT ![t] = e] /\ mutex = Personne /\ mutex' = t
      /\ UNCHANGED <<exemple, var, tirage, lu, main, signaux, reveils>>
  BY DEF PrendMutex, Prend, Devient
<1>3. TypeCompteur'
  BY <1>1, <1>2 DEF TypeCompteur, Dedans
<1>4. VerrouCompteur'
  BY <1>1, <1>2 DEF IInvCompteur, VerrouCompteur, TypeCompteur, Dedans
<1>5. Passage(t, {"debut"}, {e})
  BY <1>2 DEF Passage
<1>6. EtapeDeMain' /\ CompteExact' /\ CompteBorne'
  BY <1>1, <1>2, <1>3, <1>5, PassageCompte
<1>. QED BY <1>3, <1>4, <1>6 DEF IInvCompteur

LEMMA TesteIInv ==
    ASSUME IInvCompteur, NEW t \in Fils, Teste(t)
    PROVE  IInvCompteur'
<1>1. TypeCompteur /\ main # "fini"
  BY MainAttend DEF IInvCompteur, Teste
<1>. DEFINE e == IF var = 0 THEN "attendre" ELSE "lire"
<1>2. etat[t] = "teste" /\ etat' = [etat EXCEPT ![t] = e]
      /\ UNCHANGED <<exemple, var, tirage, lu, main, mutex, signaux, reveils>>
  BY DEF Teste, Devient
<1>3. TypeCompteur'
  BY <1>1, <1>2 DEF TypeCompteur, Dedans
<1>4. VerrouCompteur'
  BY <1>1, <1>2 DEF IInvCompteur, VerrouCompteur, TypeCompteur, Dedans
<1>5. Passage(t, {"teste"}, {e})
  BY <1>2 DEF Passage
\* Nobody wrote the counter before main(): a thread that finds it changed does
\* so after main() has drawn it.
<1>6. reveils' = 0 /\ exemple # "test_mutex" /\ main \in AvantTirage => e = "attendre"
  <2>. SUFFICES ASSUME reveils = 0, exemple # "test_mutex", main \in AvantTirage
                PROVE  var = 0
    BY <1>2
  <2>1. tirage = 0 /\ \A u \in Fils : etat[u] # "fini"
    BY DEF IInvCompteur, CompteExact
  <2>2. Finis = {} /\ Cardinality(Finis) = 0
    BY <2>1, FS_EmptySet DEF Finis
  <2>. QED BY <2>1, <2>2 DEF IInvCompteur, CompteExact
<1>7. EtapeDeMain' /\ CompteExact' /\ CompteBorne'
  BY <1>1, <1>2, <1>3, <1>5, <1>6, PassageCompte
<1>. QED BY <1>3, <1>4, <1>7 DEF IInvCompteur

LEMMA AttendIInv ==
    ASSUME IInvCompteur, NEW t \in Fils, Attend(t)
    PROVE  IInvCompteur'
<1>1. TypeCompteur /\ main # "fini"
  BY MainAttend DEF IInvCompteur, Attend
<1>2. etat[t] = "attendre" /\ etat' = [etat EXCEPT ![t] = "attend"] /\ mutex' = Personne
      /\ UNCHANGED <<exemple, var, tirage, lu, main, signaux, reveils>>
  BY DEF Attend, Devient, Rend
<1>3. TypeCompteur'
  BY <1>1, <1>2 DEF TypeCompteur, Dehors
<1>4. VerrouCompteur'
  BY <1>1, <1>2 DEF IInvCompteur, VerrouCompteur, TypeCompteur, Dedans
<1>5. Passage(t, {"attendre"}, {"attend"})
  BY <1>2 DEF Passage
<1>6. EtapeDeMain' /\ CompteExact' /\ CompteBorne'
  BY <1>1, <1>3, <1>5, PassageCompte
<1>. QED BY <1>3, <1>4, <1>6 DEF IInvCompteur

LEMMA ReveilIInv ==
    ASSUME IInvCompteur, NEW t \in Fils, Reveil(t)
    PROVE  IInvCompteur'
<1>1. TypeCompteur /\ main # "fini"
  BY MainAttend DEF IInvCompteur, Reveil
<1>2. etat[t] = "attend" /\ etat' = [etat EXCEPT ![t] = "reveille"]
      /\ reveils < MaxReveils /\ reveils' = reveils + 1
      /\ UNCHANGED <<exemple, var, tirage, lu, main, mutex, signaux>>
  BY DEF Reveil, Devient
<1>3. TypeCompteur'
  BY <1>1, <1>2 DEF TypeCompteur, Dehors
<1>4. VerrouCompteur'
  BY <1>1, <1>2 DEF IInvCompteur, VerrouCompteur, TypeCompteur, Dedans
<1>5. Passage(t, {"attend"}, {"reveille"}) /\ reveils' # 0
  BY <1>1, <1>2 DEF Passage, TypeCompteur
<1>6. EtapeDeMain' /\ CompteExact' /\ CompteBorne'
  BY <1>1, <1>3, <1>5, PassageCompte
<1>. QED BY <1>3, <1>4, <1>6 DEF IInvCompteur

\* A thread that was woken was woken by main(), after the draw.
LEMMA ReprendIInv ==
    ASSUME IInvCompteur, NEW t \in Fils, Reprend(t)
    PROVE  IInvCompteur'
<1>1. TypeCompteur /\ main # "fini"
  BY MainAttend DEF IInvCompteur, Reprend
<1>2. etat[t] = "reveille" /\ etat' = [etat EXCEPT ![t] = "lire"]
      /\ mutex = Personne /\ mutex' = t
      /\ UNCHANGED <<exemple, var, tirage, lu, main, signaux, reveils>>
  BY DEF Reprend, Prend, Devient
<1>3. TypeCompteur'
  BY <1>1, <1>2 DEF TypeCompteur, Dedans
<1>4. VerrouCompteur'
  BY <1>1, <1>2 DEF IInvCompteur, VerrouCompteur, TypeCompteur, Dedans
<1>5. Passage(t, {"reveille"}, {"lire"})
  BY <1>2 DEF Passage
<1>6. ~(reveils' = 0 /\ exemple # "test_mutex" /\ main \in AvantTirage)
  BY <1>2 DEF IInvCompteur, CompteExact
<1>7. EtapeDeMain' /\ CompteExact' /\ CompteBorne'
  BY <1>1, <1>3, <1>5, <1>6, PassageCompte
<1>. QED BY <1>3, <1>4, <1>7 DEF IInvCompteur
-----------------------------------------------------------------------------
(* The steps on the counter.                                                 *)
LEMMA LitIInv ==
    ASSUME IInvCompteur, NEW t \in Fils, Lit(t)
    PROVE  IInvCompteur'
<1>1. TypeCompteur /\ main # "fini"
  BY MainAttend DEF IInvCompteur, Lit
<1>2. etat[t] = "lire" /\ etat' = [etat EXCEPT ![t] = "ecrire"] /\ lu' = [lu EXCEPT ![t] = var]
      /\ UNCHANGED <<exemple, var, tirage, main, mutex, signaux, reveils>>
  BY DEF Lit, Devient
<1>3. TypeCompteur'
  BY <1>1, <1>2 DEF TypeCompteur, Dedans
<1>4. VerrouCompteur'
  BY <1>1, <1>2 DEF IInvCompteur, VerrouCompteur, TypeCompteur, Dedans
<1>5. Finis' = Finis
  BY <1>1, <1>2, <1>3, MemesFinis DEF TypeCompteur
<1>6. EtapeDeMain' /\ CompteBorne'
  BY <1>1, <1>2, <1>5 DEF IInvCompteur, EtapeDeMain, CompteBorne, TypeCompteur
<1>7. CompteExact'
  BY <1>1, <1>2, <1>5 DEF IInvCompteur, CompteExact, TypeCompteur
<1>. QED BY <1>3, <1>4, <1>6, <1>7 DEF IInvCompteur

\* The lock keeps every other thread from what the writer read.
LEMMA EcritIInv ==
    ASSUME IInvCompteur, NEW t \in Fils, Ecrit(t)
    PROVE  IInvCompteur'
<1>1. TypeCompteur /\ main # "fini"
  BY MainAttend DEF IInvCompteur, Ecrit
<1>2. etat[t] = "ecrire" /\ etat' = [etat EXCEPT ![t] = "fini"] /\ var' = lu[t] + 1
      /\ mutex' = Personne
      /\ UNCHANGED <<exemple, tirage, lu, main, signaux, reveils>>
  BY DEF Ecrit, Devient, Rend
<1>3. TypeCompteur'
  BY <1>1, <1>2 DEF TypeCompteur, Dehors
<1>4. VerrouCompteur'
  BY <1>1, <1>2 DEF IInvCompteur, VerrouCompteur, TypeCompteur, Dedans
<1>5. Cardinality(Finis') = Cardinality(Finis) + 1 /\ Cardinality(Finis) \in Nat
  BY <1>1, <1>2, UnDePlus, FinisNat
<1>6. \A u \in Fils : etat'[u] # "ecrire"
  BY <1>1, <1>2 DEF IInvCompteur, VerrouCompteur, TypeCompteur, Dedans
<1>7. EtapeDeMain'
  BY <1>1, <1>2 DEF IInvCompteur, EtapeDeMain
<1>8. CompteBorne'
  <2>1. lu[t] \in Nat /\ tirage \in Nat
    BY <1>1, TirageNat DEF TypeCompteur
  <2>2. lu[t] <= tirage + Cardinality(Finis)
    BY <1>2 DEF IInvCompteur, CompteBorne
  <2>3. var' <= tirage' + Cardinality(Finis')
    BY <1>2, <1>5, <2>1, <2>2
  <2>. QED BY <1>2, <1>6, <2>3 DEF IInvCompteur, CompteBorne
<1>9. CompteExact'
  <2>. SUFFICES ASSUME reveils = 0 PROVE CompteExact'
    BY <1>2 DEF CompteExact
  <2>1. lu[t] = var /\ var = tirage + Cardinality(Finis) /\ tirage \in Nat
    BY <1>1, <1>2, TirageNat DEF IInvCompteur, CompteExact
  <2>2. var' = tirage' + Cardinality(Finis')
    BY <1>2, <1>5, <2>1
  <2>3. ~(exemple # "test_mutex" /\ main \in AvantTirage)
    BY <1>2 DEF IInvCompteur, CompteExact
  <2>. QED BY <1>2, <1>6, <2>2, <2>3 DEF CompteExact
<1>. QED BY <1>3, <1>4, <1>7, <1>8, <1>9 DEF IInvCompteur
-----------------------------------------------------------------------------
(* The steps of main().                                                      *)

\* A step of main() that leaves the counter and what was drawn alone, and moves
\* threads neither to nor from the end or the write.
LEMMA MainCompte ==
    ASSUME IInvCompteur, TypeCompteur',
           UNCHANGED <<exemple, var, tirage, lu, reveils>>,
           \A u \in Fils : (etat'[u] = "fini" <=> etat[u] = "fini")
                           /\ (etat'[u] = "ecrire" => etat[u] = "ecrire"),
           main' \in AvantTirage => main \in AvantTirage,
           main' \in AvantTirage /\ exemple # "test_mutex" =>
               \A u \in Fils : etat'[u] \in {etat[u], "debut"}
    PROVE  CompteExact' /\ CompteBorne' /\ Finis' = Finis
<1>1. TypeCompteur
  BY DEF IInvCompteur
<1>2. Finis' = Finis
  BY <1>1, MemesFinis
<1>3. CompteBorne'
  BY <1>2 DEF IInvCompteur, CompteBorne
<1>4. CompteExact'
  <2>. SUFFICES ASSUME reveils = 0 PROVE CompteExact'
    BY DEF CompteExact
  <2>1. (\A u \in Fils : etat'[u] = "ecrire" => lu'[u] = var')
        /\ var' = tirage' + Cardinality(Finis')
    BY <1>2 DEF IInvCompteur, CompteExact
  <2>2. exemple' # "test_mutex" /\ main' \in AvantTirage =>
          /\ tirage' = 0
          /\ \A u \in Fils : etat'[u] \in {"absent", "debut", "teste", "attendre", "attend"}
    BY DEF IInvCompteur, CompteExact
  <2>. QED BY <2>1, <2>2 DEF CompteExact
<1>. QED BY <1>2, <1>3, <1>4

LEMMA CreeIInv == ASSUME IInvCompteur, Cree PROVE IInvCompteur'
<1>. PICK t \in Fils : etat[t] = "absent" /\ etat' = [etat EXCEPT ![t] = "debut"]
  BY DEF Cree, Devient
<1>1. TypeCompteur /\ main = "cree" /\ UNCHANGED <<exemple, var, tirage, lu, mutex, signaux, reveils>>
  BY DEF IInvCompteur, Cree
<1>2. main' \in {"cree", "joint", "tire"} /\ (main' = "tire" => exemple # "test_mutex")
  BY <1>1 DEF Cree, Apres
<1>3. TypeCompteur'
  BY <1>1, <1>2 DEF TypeCompteur, Dehors
<1>4. VerrouCompteur'
  BY <1>1, <1>2 DEF IInvCompteur, VerrouCompteur, TypeCompteur, Dedans
<1>5. EtapeDeMain'
  BY <1>1, <1>2 DEF EtapeDeMain
<1>6. \A u \in Fils : etat'[u] \in {etat[u], "debut"} /\ (etat'[u] = "fini" <=> etat[u] = "fini")
                     /\ (etat'[u] = "ecrire" => etat[u] = "ecrire")
  BY <1>1 DEF TypeCompteur
<1>7. CompteExact' /\ CompteBorne'
  BY <1>1, <1>2, <1>3, <1>6, MainCompte DEF AvantTirage
<1>. QED BY <1>3, <1>4, <1>5, <1>7 DEF IInvCompteur

\* Before the draw nobody ended; what a thread may have read is at most 0.
LEMMA TireIInv == ASSUME IInvCompteur, Tire PROVE IInvCompteur'
<1>1. TypeCompteur /\ main = "tire" /\ main' = "verrouille" /\ exemple # "test_mutex"
      /\ UNCHANGED <<exemple, etat, lu, mutex, signaux, reveils>>
  BY DEF IInvCompteur, Tire, Apres, EtapeDeMain
<1>2. var' = tirage' /\ tirage' \in Tirages /\ tirage' \in Nat
  BY DEF Tire
<1>3. TypeCompteur'
  BY <1>1, <1>2 DEF TypeCompteur
<1>4. VerrouCompteur' /\ EtapeDeMain'
  BY <1>1 DEF IInvCompteur, VerrouCompteur, EtapeDeMain
<1>5. Finis' = Finis /\ Cardinality(Finis) \in Nat /\ tirage = 0
  BY <1>1, FinisNat DEF Finis, IInvCompteur, CompteBorne, AvantTirage
<1>6. CompteBorne'
  <2>1. ASSUME NEW u \in Fils, etat[u] = "ecrire" PROVE lu[u] <= tirage' + Cardinality(Finis)
    <3>1. lu[u] <= 0 + Cardinality(Finis) /\ lu[u] \in Nat
      BY <1>1, <1>5, <2>1 DEF IInvCompteur, CompteBorne, TypeCompteur
    <3>. QED BY <1>2, <1>5, <3>1
  <2>. QED BY <1>1, <1>2, <1>5, <2>1 DEF CompteBorne, AvantTirage
<1>7. CompteExact'
  <2>. SUFFICES ASSUME reveils = 0 PROVE CompteExact'
    BY <1>1 DEF CompteExact
  <2>1. \A u \in Fils : etat[u] # "fini" /\ etat[u] # "ecrire"
    BY <1>1 DEF IInvCompteur, CompteExact, AvantTirage
  <2>2. Cardinality(Finis) = 0
    BY <2>1, FS_EmptySet DEF Finis
  <2>. QED BY <1>1, <1>2, <1>5, <2>1, <2>2 DEF CompteExact, AvantTirage
<1>. QED BY <1>3, <1>4, <1>6, <1>7 DEF IInvCompteur

LEMMA VerrouillerIInv == ASSUME IInvCompteur, Verrouiller PROVE IInvCompteur'
<1>1. TypeCompteur /\ main = "verrouille" /\ main' = "signale"
      /\ mutex = Personne /\ mutex' = Principal
      /\ UNCHANGED <<exemple, var, tirage, etat, lu, signaux, reveils>>
  BY DEF IInvCompteur, Verrouiller, PrendPourSignaler, Prend, Apres
<1>2. TypeCompteur' /\ VerrouCompteur' /\ EtapeDeMain'
  BY <1>1 DEF IInvCompteur, TypeCompteur, VerrouCompteur, EtapeDeMain
<1>3. CompteExact' /\ CompteBorne'
  BY <1>1, <1>2, MainCompte DEF AvantTirage
<1>. QED BY <1>2, <1>3 DEF IInvCompteur

LEMMA SignaleIInv == ASSUME IInvCompteur, Signale PROVE IInvCompteur'
<1>1. TypeCompteur /\ main = "signale" /\ main' = main /\ signaux > 0 /\ signaux' = signaux - 1
      /\ UNCHANGED <<exemple, var, tirage, lu, mutex, reveils>>
  BY DEF IInvCompteur, Signale
<1>2. etat' = etat \/ \E t \in Fils : etat[t] = "attend" /\ etat' = [etat EXCEPT ![t] = "reveille"]
  BY DEF Signale, Devient
<1>3. TypeCompteur'
  <2>1. etat' \in [Fils -> Dehors \cup Dedans]
    BY <1>1, <1>2 DEF TypeCompteur, Dehors
  <2>2. signaux' \in 0..Cardinality(Fils)
    BY <1>1, NombreDeFils DEF TypeCompteur
  <2>. QED BY <1>1, <2>1, <2>2 DEF TypeCompteur
<1>4. \A u \in Fils : (etat'[u] = "fini" <=> etat[u] = "fini")
                     /\ (etat'[u] \in Dedans <=> etat[u] \in Dedans)
                     /\ (etat'[u] = "ecrire" => etat[u] = "ecrire")
  BY <1>1, <1>2 DEF TypeCompteur, Dedans
<1>5. VerrouCompteur' /\ EtapeDeMain'
  BY <1>1, <1>4 DEF IInvCompteur, VerrouCompteur, EtapeDeMain
<1>6. CompteExact' /\ CompteBorne'
  BY <1>1, <1>3, <1>4, MainCompte DEF AvantTirage
<1>. QED BY <1>3, <1>5, <1>6 DEF IInvCompteur

LEMMA DeverrouillerIInv == ASSUME IInvCompteur, Deverrouiller PROVE IInvCompteur'
<1>1. TypeCompteur /\ main = "signale" /\ main' = "joint" /\ mutex = Principal /\ mutex' = Personne
      /\ UNCHANGED <<exemple, var, tirage, etat, lu, signaux, reveils>>
  BY DEF IInvCompteur, VerrouCompteur, Deverrouiller, Apres
<1>2. TypeCompteur' /\ VerrouCompteur' /\ EtapeDeMain'
  BY <1>1 DEF IInvCompteur, TypeCompteur, VerrouCompteur, EtapeDeMain
<1>3. CompteExact' /\ CompteBorne'
  BY <1>1, <1>2, MainCompte DEF AvantTirage
<1>. QED BY <1>2, <1>3 DEF IInvCompteur

LEMMA JointFilsIInv == ASSUME IInvCompteur, JointFils PROVE IInvCompteur'
<1>1. TypeCompteur /\ main = "joint" /\ main' = "fini" /\ (\A t \in Fils : etat[t] = "fini")
      /\ UNCHANGED <<exemple, var, tirage, etat, lu, mutex, signaux, reveils>>
  BY DEF IInvCompteur, JointFils, Apres
<1>2. TypeCompteur' /\ VerrouCompteur' /\ EtapeDeMain'
  BY <1>1 DEF IInvCompteur, TypeCompteur, VerrouCompteur, EtapeDeMain, Finis
<1>3. CompteExact' /\ CompteBorne'
  BY <1>1, <1>2, MainCompte DEF AvantTirage
<1>. QED BY <1>2, <1>3 DEF IInvCompteur

LEMMA NextIInvCompteur == IInvCompteur /\ [NextCompteur]_varsCompteur => IInvCompteur'
<1>. SUFFICES ASSUME IInvCompteur, [NextCompteur]_varsCompteur PROVE IInvCompteur'
  OBVIOUS
<1>1. CASE UNCHANGED varsCompteur
  BY <1>1 DEF varsCompteur, IInvCompteur, TypeCompteur, VerrouCompteur, EtapeDeMain, CompteExact,
              CompteBorne, Finis
<1>2. CASE Principale
  BY <1>2, CreeIInv, TireIInv, VerrouillerIInv, SignaleIInv, DeverrouillerIInv, JointFilsIInv
  DEF Principale
<1>3. ASSUME NEW t \in Fils, Serve(t) PROVE IInvCompteur'
  BY <1>3, PrendMutexIInv, TesteIInv, AttendIInv, ReprendIInv, LitIInv, EcritIInv DEF Serve
<1>4. ASSUME NEW t \in Fils, Reveil(t) PROVE IInvCompteur'
  BY <1>4, ReveilIInv
<1>. QED BY <1>1, <1>2, <1>3, <1>4 DEF NextCompteur
-----------------------------------------------------------------------------
\* The lock of the examples is exclusive, and the counter is what main() drew
\* plus one per thread that ended, as long as every wakeup was signalled
\* (test_var_cond.c:10-32, test_mutex.c:9-28).
THEOREM ToujoursIInvCompteur == SpecCompteur => []IInvCompteur
BY InitIInvCompteur, NextIInvCompteur, PTL DEF SpecCompteur

LEMMA FinDeMain == IInvCompteur => VarFinale
<1>. SUFFICES ASSUME IInvCompteur, main = "fini"
              PROVE  IF reveils = 0 THEN var = tirage + Cardinality(Fils)
                     ELSE var <= tirage + Cardinality(Fils)
  BY DEF VarFinale
<1>1. Finis = Fils
  BY DEF IInvCompteur, EtapeDeMain
<1>. QED BY <1>1 DEF IInvCompteur, CompteExact, CompteBorne

\* When main() ends, every thread added its one exactly once to what was drawn,
\* for any number of threads; a wakeup without a signal can lose some of them.
THEOREM CompteurFinal == SpecCompteur => []VarFinale
BY ToujoursIInvCompteur, FinDeMain, PTL
=============================================================================
