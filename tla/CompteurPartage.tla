--------------------------- MODULE CompteurPartage ---------------------------
(* The two thread examples of the lectures.  In CM4-R/test_mutex.c threads   *)
(* add one to a counter under a lock.  In CM4-R/test_var_cond.c they wait    *)
(* first, once, until main() has drawn the counter, which it writes without  *)
(* the lock; it then signals the condition once per thread, under the lock.  *)
EXTENDS Integers, FiniteSets

CONSTANTS
    Fils,           \* the threads of serve
    Principal,      \* the main thread
    Personne,       \* nobody: the lock is free
    Tirages,        \* what rand() % 100 may give
    Programmes,     \* what may run: the two, or a program of another module
    MaxReveils      \* bound on the wakeups without a signal

ASSUME CompteurAssumption ==
    /\ IsFiniteSet(Fils) /\ Fils # {} /\ Principal \notin Fils /\ Personne \notin Fils \cup {Principal}
    /\ Tirages \subseteq Nat /\ MaxReveils \in Nat

VARIABLES
    exemple,
    var,        \* the counter
    tirage,     \* what main() drew, 0 in test_mutex
    etat,       \* where each thread is
    lu,         \* what it read of the counter
    main,       \* where main() is
    mutex,      \* who has the lock
    signaux,    \* the signals that main() still has to send
    reveils     \* wakeups without a signal so far

varsCompteur == <<exemple, var, tirage, etat, lu, main, mutex, signaux, reveils>>

InitCompteur ==
    /\ exemple \in Programmes
    /\ var = 0 /\ tirage = 0
    /\ etat = [t \in Fils |-> "absent"] /\ lu = [t \in Fils |-> 0]
    /\ main = "cree" /\ mutex = Personne
    /\ signaux = Cardinality(Fils) /\ reveils = 0

Prend(t) == mutex = Personne /\ mutex' = t
Rend == mutex' = Personne
Devient(t, e) == etat' = [etat EXCEPT ![t] = e]
-----------------------------------------------------------------------------
(* serve                                                                     *)
PrendMutex(t) ==
    /\ etat[t] = "debut" /\ Prend(t)
    /\ Devient(t, IF exemple = "test_mutex" THEN "lire" ELSE "teste")
    /\ UNCHANGED <<exemple, var, tirage, lu, main, signaux, reveils>>

\* if (var == 0): main() may write before the wait begins.
Teste(t) ==
    /\ etat[t] = "teste"
    /\ Devient(t, IF var = 0 THEN "attendre" ELSE "lire")
    /\ UNCHANGED <<exemple, var, tirage, lu, main, mutex, signaux, reveils>>

\* pthread_cond_wait() waits and releases the lock at once.
Attend(t) ==
    /\ etat[t] = "attendre" /\ Devient(t, "attend") /\ Rend
    /\ UNCHANGED <<exemple, var, tirage, lu, main, signaux, reveils>>

\* pthread_cond_wait() may return without a signal.
Reveil(t) ==
    /\ etat[t] = "attend" /\ reveils < MaxReveils
    /\ reveils' = reveils + 1 /\ Devient(t, "reveille")
    /\ UNCHANGED <<exemple, var, tirage, lu, main, mutex, signaux>>

\* It takes the lock again, and does not test the counter again.
Reprend(t) ==
    /\ etat[t] = "reveille" /\ Prend(t)
    /\ Devient(t, "lire")
    /\ UNCHANGED <<exemple, var, tirage, lu, main, signaux, reveils>>

\* Mutant: the lock is released between the read and the write.
LitHorsVerrou(t) ==
    /\ etat[t] = "lire"
    /\ lu' = [lu EXCEPT ![t] = var] /\ Devient(t, "ecrire") /\ Rend
    /\ UNCHANGED <<exemple, var, tirage, main, signaux, reveils>>

\* var += 1: main() may write between the read and the write.
Lit(t) ==
    /\ etat[t] = "lire"
    /\ lu' = [lu EXCEPT ![t] = var] /\ Devient(t, "ecrire")
    /\ UNCHANGED <<exemple, var, tirage, main, mutex, signaux, reveils>>
Ecrit(t) ==
    /\ etat[t] = "ecrire"
    /\ var' = lu[t] + 1 /\ Devient(t, "fini") /\ Rend
    /\ UNCHANGED <<exemple, tirage, lu, main, signaux, reveils>>
-----------------------------------------------------------------------------
(* main                                                                      *)
Apres(e) == main' = e

Cree ==
    /\ main = "cree"
    /\ \E t \in Fils :
        /\ etat[t] = "absent" /\ Devient(t, "debut")
        /\ IF \A u \in Fils \ {t} : etat[u] # "absent"
           THEN Apres(IF exemple = "test_mutex" THEN "joint" ELSE "tire")
           ELSE UNCHANGED main
    /\ UNCHANGED <<exemple, var, tirage, lu, mutex, signaux, reveils>>

\* The counter is drawn and written without the lock.
Tire ==
    /\ main = "tire"
    /\ \E x \in Tirages : var' = x /\ tirage' = x
    /\ Apres("verrouille")
    /\ UNCHANGED <<exemple, etat, lu, mutex, signaux, reveils>>

\* Mutant: the signals are sent without the lock.
SignaleSansVerrou == mutex' = mutex
PrendPourSignaler == Prend(Principal)

Verrouiller ==
    /\ main = "verrouille" /\ PrendPourSignaler /\ Apres("signale")
    /\ UNCHANGED <<exemple, var, tirage, etat, lu, signaux, reveils>>

\* One signal wakes one of the threads that wait, if there is one.
Signale ==
    /\ main = "signale" /\ signaux > 0 /\ signaux' = signaux - 1
    /\ LET A == {t \in Fils : etat[t] = "attend"} IN
       IF A = {} THEN UNCHANGED etat ELSE \E t \in A : Devient(t, "reveille")
    /\ UNCHANGED <<exemple, var, tirage, lu, main, mutex, reveils>>

Deverrouiller ==
    /\ main = "signale" /\ signaux = 0
    /\ mutex' = IF mutex = Principal THEN Personne ELSE mutex
    /\ Apres("joint")
    /\ UNCHANGED <<exemple, var, tirage, etat, lu, signaux, reveils>>

JointFils ==
    /\ main = "joint" /\ \A t \in Fils : etat[t] = "fini" /\ Apres("fini")
    /\ UNCHANGED <<exemple, var, tirage, etat, lu, mutex, signaux, reveils>>
-----------------------------------------------------------------------------
Serve(t) ==
    \/ PrendMutex(t) \/ Teste(t) \/ Attend(t) \/ Reprend(t) \/ Lit(t) \/ Ecrit(t)
Principale == Cree \/ Tire \/ Verrouiller \/ Signale \/ Deverrouiller \/ JointFils

NextCompteur == Principale \/ \E t \in Fils : Serve(t) \/ Reveil(t)
SpecCompteur == InitCompteur /\ [][NextCompteur]_varsCompteur

\* The scheduler runs every thread; no wakeup comes without a signal by right.
FairCompteur == WF_varsCompteur(Principale) /\ \A t \in Fils : WF_varsCompteur(Serve(t))
-----------------------------------------------------------------------------
Dehors == {"absent", "debut", "attend", "reveille", "fini"}
Dedans == {"teste", "attendre", "lire", "ecrire"}
AvantTirage == {"cree", "tire"}
Finis == {t \in Fils : etat[t] = "fini"}

\* Every variable keeps its type.
TypeCompteur ==
    /\ exemple \in Programmes /\ var \in Nat /\ tirage \in Tirages \cup {0}
    /\ etat \in [Fils -> Dehors \cup Dedans] /\ lu \in [Fils -> Nat]
    /\ main \in {"cree", "tire", "verrouille", "signale", "joint", "fini"}
    /\ mutex \in Fils \cup {Principal, Personne}
    /\ signaux \in 0..Cardinality(Fils) /\ reveils \in 0..MaxReveils

\* When main() ends, the counter is what was drawn plus one per thread, unless a
\* thread was woken without a signal: then it may have added its one before
\* main() wrote the counter, and lost it, for serve() does not test again.
VarFinale ==
    main = "fini" =>
        IF reveils = 0 THEN var = tirage + Cardinality(Fils)
        ELSE var <= tirage + Cardinality(Fils)

\* The lock belongs to the thread inside serve, or to main() while it signals.
VerrouCompteur ==
    /\ \A t \in Fils : etat[t] \in Dedans <=> mutex = t
    /\ main = "signale" <=> mutex = Principal

\* main() draws in one of the programs only, and ends after its threads.
EtapeDeMain ==
    /\ main \in {"tire", "verrouille", "signale"} => exemple # "test_mutex"
    /\ main = "fini" => Finis = Fils

\* Without wakeups of that kind, nobody writes before main(), and then each
\* thread that ended added one; what a thread read is still there.
CompteExact ==
    reveils = 0 =>
        /\ \A t \in Fils : etat[t] = "ecrire" => lu[t] = var
        /\ var = tirage + Cardinality(Finis)
        /\ exemple # "test_mutex" /\ main \in AvantTirage =>
            /\ tirage = 0
            /\ \A t \in Fils : etat[t] \in {"absent", "debut", "teste", "attendre", "attend"}

\* With them, no thread adds more than its one.
CompteBorne ==
    /\ main \in AvantTirage => tirage = 0
    /\ var <= tirage + Cardinality(Finis)
    /\ \A t \in Fils : etat[t] = "ecrire" => lu[t] <= tirage + Cardinality(Finis)

IInvCompteur == TypeCompteur /\ VerrouCompteur /\ EtapeDeMain /\ CompteExact /\ CompteBorne

\* No wakeup is lost: when 0 was not drawn, and in test_mutex, the program ends,
\* although the counter is written without the lock.  When it was, the threads
\* that come after the signals may wait for ever.
Termine == (tirage # 0 \/ exemple = "test_mutex") ~> main = "fini"
=============================================================================
