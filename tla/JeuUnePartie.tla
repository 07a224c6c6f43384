---------------------------- MODULE JeuUnePartie ----------------------------
(* The guessing-game server for one game, TP4-R/jeu_devin_moi.c and          *)
(* TP5-R/jeu.c, which hold the same program: main() accepts the players,     *)
(* starts one thread for each and joins them in order.  The rank is written  *)
(* in the answer before the counter moves.                                   *)
EXTENDS Naturals

CONSTANTS
    Aucun,          \* nobody: the lock is free
    NbJoueurs,      \* nombre_de_joueurs
    NbTentatives,   \* nombre_de_tentatives
    Capacite,       \* the pieces of a line that fit in BUFSIZE - 1 bytes
    MaxEchecs       \* bound on the pthread_create() that fail

ASSUME PartieAssumption ==
    /\ NbJoueurs \in Nat \ {0} /\ NbTentatives \in Nat \ {0}
    /\ Capacite \in Nat \ {0} /\ MaxEchecs \in Nat
    /\ Aucun \notin 1..NbJoueurs

Joueurs == 1..NbJoueurs

VARIABLES
    connectes,  \* i of server_np, the players accepted
    lances,     \* j of its second loop, the threads asked for
    joint,      \* j of its third loop
    ouvert,     \* whether the socket of a player is open
    pc,         \* where its thread is
    ind,        \* the pieces of the line that lire_nb has
    tentatives,
    rangs,      \* the rank told to each winner, else 0
    rang,       \* the global counter
    verrou,     \* the owner of the lock
    echecs,
    mort        \* whether the process ended before its return

principal == <<connectes, lances, joint, echecs>>
joueurs == <<pc, ind, tentatives, rangs>>
vars == <<principal, ouvert, joueurs, rang, verrou, mort>>

Init ==
    /\ connectes = 0 /\ lances = 0 /\ joint = 1 /\ echecs = 0
    /\ ouvert = [t \in Joueurs |-> FALSE] /\ pc = [t \in Joueurs |-> "absent"]
    /\ ind = [t \in Joueurs |-> 0] /\ tentatives = [t \in Joueurs |-> NbTentatives]
    /\ rangs = [t \in Joueurs |-> 0] /\ rang = 1 /\ verrou = Aucun /\ mort = FALSE

Va(t, e) == pc' = [pc EXCEPT ![t] = e]
Ferme(t) == ouvert' = [ouvert EXCEPT ![t] = FALSE]

\* exit(), or a fault, in any thread.
Meurt == mort' = TRUE /\ UNCHANGED <<principal, ouvert, joueurs, rang, verrou>>
-----------------------------------------------------------------------------
(* server_np.  An accept() that fails is tried again.                        *)
Accepte ==
    /\ connectes < NbJoueurs
    /\ connectes' = connectes + 1
    /\ ouvert' = [ouvert EXCEPT ![connectes'] = TRUE]
    /\ UNCHANGED <<lances, joint, echecs, joueurs, rang, verrou, mort>>

\* The threads start one by one, when all the players are there.
serveur_1p_thread ==
    /\ connectes = NbJoueurs /\ lances < NbJoueurs
    /\ lances' = lances + 1 /\ Va(lances', "lire")
    /\ UNCHANGED <<connectes, joint, echecs, ouvert, ind, tentatives, rangs, rang, verrou, mort>>

\* The player gets no thread and the loop goes on.  close() reads the number of
\* the socket where it was freed: of what it may close instead, nothing is
\* modelled, and the socket stays open.  Nor is the close of the listening
\* socket, which nothing accepts from any more.
EchecThread ==
    /\ connectes = NbJoueurs /\ lances < NbJoueurs /\ echecs < MaxEchecs
    /\ lances' = lances + 1 /\ echecs' = echecs + 1
    /\ Va(lances', "sans")
    /\ UNCHANGED <<connectes, joint, ouvert, ind, tentatives, rangs, rang, verrou, mort>>

\* Mutant: a player is not waited for.
SansJoindre(t) == pc[t] # "absent"
Joint(t) == pc[t] = "fini"

\* The socket is closed for the third time, and the player is freed.  Joining
\* the thread that could not start is a fault.
Joindre ==
    /\ lances = NbJoueurs /\ joint <= NbJoueurs
    /\ IF pc[joint] = "sans" THEN Meurt
       ELSE /\ Joint(joint)
            /\ Ferme(joint) /\ joint' = joint + 1
            /\ UNCHANGED <<connectes, lances, echecs, joueurs, rang, verrou, mort>>
-----------------------------------------------------------------------------
(* The thread of a player.                                                   *)

\* lire_nb returns a line, a full buffer, or what came before the end of the
\* stream; nothing at all ends the game of the player.
lire_nb(t) ==
    /\ pc[t] = "lire"
    /\ \/ \E fin \in BOOLEAN :
            LET complet == fin \/ ind[t] + 1 = Capacite IN
            /\ ind' = [ind EXCEPT ![t] = IF complet THEN 0 ELSE @ + 1]
            /\ Va(t, IF complet THEN "devine" ELSE "lire")
       \/ ind' = [ind EXCEPT ![t] = 0] /\ Va(t, IF ind[t] = 0 THEN "ferme" ELSE "devine")
    /\ UNCHANGED <<principal, ouvert, tentatives, rangs, rang, verrou, mort>>
LectureEchoue(t) == pc[t] = "lire" /\ Meurt

\* Mutant: the lock is not taken.
SansVerrou == TRUE
Libre == verrou = Aucun

Verrouille(t) ==
    /\ pc[t] = "devine" /\ Libre
    /\ verrou' = t /\ Va(t, "compare")
    /\ UNCHANGED <<principal, ouvert, ind, tentatives, rangs, rang, mort>>

\* The rank is written in the answer, then the counter moves.
Trouve(t) ==
    /\ pc[t] = "compare"
    /\ rangs' = [rangs EXCEPT ![t] = rang] /\ Va(t, "compte")
    /\ UNCHANGED <<principal, ouvert, ind, tentatives, rang, verrou, mort>>
Compte(t) ==
    /\ pc[t] = "compte"
    /\ rang' = rang + 1 /\ verrou' = Aucun /\ Va(t, "ecrire")
    /\ UNCHANGED <<principal, ouvert, ind, tentatives, rangs, mort>>

\* Mutant: a wrong guess leaves without the lock.
RateGarde(t) ==
    /\ pc[t] = "compare"
    /\ tentatives' = [tentatives EXCEPT ![t] = @ - 1]
    /\ Va(t, "ecrire")
    /\ UNCHANGED <<principal, ouvert, ind, rangs, rang, verrou, mort>>
Rate(t) ==
    /\ pc[t] = "compare"
    /\ tentatives' = [tentatives EXCEPT ![t] = @ - 1]
    /\ verrou' = Aucun /\ Va(t, "ecrire")
    /\ UNCHANGED <<principal, ouvert, ind, rangs, rang, mort>>

Fini(t) == rangs[t] # 0 \/ tentatives[t] = 0

\* send() on a connection that the client left ends the process.
ecrire_nb(t) ==
    /\ pc[t] = "ecrire" /\ Va(t, IF Fini(t) THEN "ferme" ELSE "lire")
    /\ UNCHANGED <<principal, ouvert, ind, tentatives, rangs, rang, verrou, mort>>
EcritureEchoue(t) == pc[t] = "ecrire" /\ Meurt

\* game_np closes the socket and game_np_point closes it again; between the two
\* no descriptor is opened.
Sort(t) ==
    /\ pc[t] = "ferme" /\ Ferme(t) /\ Va(t, "fini")
    /\ UNCHANGED <<principal, ind, tentatives, rangs, rang, verrou, mort>>
-----------------------------------------------------------------------------
Joue(t) == Verrouille(t) \/ Trouve(t) \/ Compte(t) \/ Rate(t) \/ ecrire_nb(t) \/ Sort(t)
server_np == serveur_1p_thread \/ EchecThread \/ Joindre

Next ==
    /\ ~mort
    /\ \/ Accepte \/ server_np
       \/ \E t \in Joueurs :
            lire_nb(t) \/ LectureEchoue(t) \/ EcritureEchoue(t) \/ Joue(t)

Spec == Init /\ [][Next]_vars

\* Every thread runs; no client has to connect or to write.
FairJeu == WF_vars(~mort /\ server_np) /\ \A t \in Joueurs : WF_vars(~mort /\ Joue(t))
-----------------------------------------------------------------------------
EnJeu == {"lire", "devine", "compare", "compte", "ecrire"}
Etapes == EnJeu \cup {"absent", "sans", "ferme", "fini"}

\* Every variable keeps its type; tentatives is above zero until the last one.
TypeOK ==
    /\ connectes \in 0..NbJoueurs /\ lances \in 0..NbJoueurs
    /\ joint \in 1..(NbJoueurs + 1) /\ echecs \in 0..MaxEchecs
    /\ ouvert \in [Joueurs -> BOOLEAN] /\ pc \in [Joueurs -> Etapes]
    /\ ind \in [Joueurs -> 0..(Capacite - 1)]
    /\ tentatives \in [Joueurs -> 0..NbTentatives]
    /\ rangs \in [Joueurs -> Nat] /\ rang \in Nat \ {0}
    /\ verrou \in Joueurs \cup {Aucun} /\ mort \in BOOLEAN
    /\ \A t \in Joueurs : pc[t] \in {"absent", "lire", "devine", "compare"} => tentatives[t] # 0

\* Each player that plays has its socket, although it is closed three times.
SocketOuverte == \A t \in Joueurs : pc[t] \in EnJeu => ouvert[t]

\* The lock belongs to the thread of the critical section.
VerrouExact == \A t \in Joueurs : pc[t] \in {"compare", "compte"} <=> verrou = t

\* A player has a rank once it won, and the counter is past all ranks but the
\* one being told.
RangsExacts ==
    /\ \A t \in Joueurs : pc[t] \in {"absent", "sans", "lire", "devine", "compare"} => rangs[t] = 0
    /\ \A t \in Joueurs : pc[t] = "compte" => rangs[t] = rang

\* The threads the main thread did not ask for do not exist, and a socket is
\* opened before its thread; the players before joint are finished.
Ordre ==
    /\ \A t \in Joueurs : t > lances <=> pc[t] = "absent"
    /\ lances > 0 => connectes = NbJoueurs
    /\ \A t \in Joueurs : t <= connectes /\ pc[t] = "absent" => ouvert[t]
    /\ \A t \in Joueurs : t < joint => pc[t] = "fini"

IInv == TypeOK /\ SocketOuverte /\ VerrouExact /\ RangsExacts /\ Ordre

\* The players are ranked as Classement says, whatever threads interleave: the
\* next rank is the counter, but for the thread that told it and did not move it.
Prochain == IF \E t \in Joueurs : pc[t] = "compte" THEN rang + 1 ELSE rang
Rangs == INSTANCE Classement WITH suivant <- Prochain
ClasseExactement == Rangs!Spec

\* If no client keeps a player waiting, the server returns once its players are
\* there, unless a call or a thread fails.
Retourne ==
    (\A t \in Joueurs : []<>(pc[t] # "lire")) =>
        (connectes = NbJoueurs ~> (mort \/ joint = NbJoueurs + 1))
=============================================================================
