------------------------------ MODULE JeuDevin ------------------------------
(* The guessing-game server of TP4-R: the main thread accepts the players of *)
(* one game after the other, a detached thread runs each game and joins one  *)
(* thread per player.  The threads share the descriptors of the process, the *)
(* counter rang and its lock; exit() in any thread ends them all.            *)
EXTENDS Naturals, FiniteSets

CONSTANTS
    Aucun,          \* nobody: a free lock, a closed descriptor
    NbJoueurs,      \* nombre_de_joueurs, of each game
    NbTentatives,   \* nombre_de_tentatives, of each player
    Capacite,       \* the pieces of a line that fit in BUFSIZE - 1 bytes
    MaxParties,     \* bound on the games
    MaxFd           \* the descriptors the process may have for clients

ASSUME JeuAssumption ==
    /\ NbJoueurs \in Nat \ {0} /\ NbTentatives \in Nat \ {0}
    /\ Capacite \in Nat \ {0} /\ MaxParties \in Nat /\ MaxFd \in Nat

Parties == 1..MaxParties
\* A player stands for the client accepted as the j-th one of the g-th game.
Joueurs == Parties \X (1..NbJoueurs)
Fds == 1..MaxFd

ASSUME AucunAssumption == Aucun \notin Joueurs

VARIABLES
    fd,         \* the connection each descriptor stands for
    nb_partie,  \* the game whose players are being accepted
    places,     \* how many of them are
    sock,       \* sockclients, the descriptors of each game
    pc,         \* where the thread of each player is
    ind,        \* the pieces of the line that lire_nb has
    tent,       \* tentatives, what is left to each player
    rangs,      \* the rank told to each winner, else 0
    rang,       \* the global counter of the winners
    verrou,     \* the owner of the lock
    joint,      \* the player each game joins: 0 before it starts
    mort        \* whether the process ended

joueurs == <<pc, ind, tent, rangs>>
serveur == <<nb_partie, places, sock>>
vars == <<fd, nb_partie, places, sock, pc, ind, tent, rangs,
          rang, verrou, joint, mort>>

Init ==
    /\ fd = [f \in Fds |-> Aucun]
    /\ nb_partie = 1 /\ places = 0 /\ sock = [t \in Joueurs |-> 0]
    /\ pc = [t \in Joueurs |-> "absent"]
    /\ ind = [t \in Joueurs |-> 0] /\ tent = [t \in Joueurs |-> 0]
    /\ rangs = [t \in Joueurs |-> 0] /\ rang = 0 /\ verrou = Aucun
    /\ joint = [g \in Parties |-> 0] /\ mort = FALSE

\* Nothing remains of the process once it ended, so nothing more happens.
Meurt ==
    /\ mort' = TRUE
    /\ fd' = [f \in Fds |-> Aucun]
    /\ nb_partie' = 1 /\ places' = 0 /\ sock' = [t \in Joueurs |-> 0]
    /\ pc' = [t \in Joueurs |-> "absent"]
    /\ ind' = [t \in Joueurs |-> 0] /\ tent' = [t \in Joueurs |-> 0]
    /\ rangs' = [t \in Joueurs |-> 0] /\ rang' = 0 /\ verrou' = Aucun
    /\ joint' = [g \in Parties |-> 0]

Va(t, etape) == pc' = [pc EXCEPT ![t] = etape]
-----------------------------------------------------------------------------
\* accept() gives the lowest descriptor that is free.
Libre(f) == fd[f] = Aucun /\ \A e \in 1..(f - 1) : fd[e] # Aucun

Accepte ==
    /\ ~mort /\ nb_partie \in Parties /\ places < NbJoueurs
    /\ \E f \in Fds : /\ Libre(f)
                      /\ fd' = [fd EXCEPT ![f] = <<nb_partie, places + 1>>]
                      /\ sock' = [sock EXCEPT ![<<nb_partie, places + 1>>] = f]
    /\ places' = places + 1
    /\ UNCHANGED <<nb_partie, joueurs, rang, verrou, joint, mort>>

\* Without a descriptor accept() fails, and main returns.
AccepteEchoue ==
    /\ ~mort /\ nb_partie \in Parties /\ places < NbJoueurs
    /\ \A f \in Fds : fd[f] # Aucun
    /\ Meurt

\* The game starts, with the thread of every player.
LancePartie ==
    /\ nb_partie \in Parties /\ places = NbJoueurs
    /\ pc' = [t \in Joueurs |-> IF t[1] = nb_partie THEN "lire" ELSE pc[t]]
    /\ tent' = [t \in Joueurs |-> IF t[1] = nb_partie THEN NbTentatives ELSE tent[t]]
    /\ joint' = [joint EXCEPT ![nb_partie] = 1]
    /\ nb_partie' = nb_partie + 1 /\ places' = 0
    /\ UNCHANGED <<fd, sock, ind, rangs, rang, verrou, mort>>
-----------------------------------------------------------------------------
\* recv() looks its descriptor up once, then waits on that connection even if
\* another thread closes the descriptor.
AppelleRecv(t) ==
    /\ pc[t] = "lire"
    /\ IF fd[sock[t]] = Aucun
       THEN Meurt
       ELSE Va(t, "bloque") /\ UNCHANGED <<fd, serveur, ind, tent, rangs, rang, verrou, joint, mort>>

\* lire_nb returns when it has a whole line, when its buffer is full and at
\* the end of the stream; an empty line ends the game of the player.
FinDeLecture(t, lu, complet) ==
    /\ ind' = [ind EXCEPT ![t] = IF complet THEN 0 ELSE lu]
    /\ Va(t, CASE ~complet -> "lire" [] complet /\ lu = 0 -> "ferme1" [] OTHER -> "verrou")

Recoit(t) ==
    /\ pc[t] = "bloque"
    /\ \/ \E ligne \in BOOLEAN :
            FinDeLecture(t, ind[t] + 1, ligne \/ ind[t] + 1 = Capacite)
       \/ FinDeLecture(t, ind[t], TRUE)
    /\ UNCHANGED <<fd, serveur, tent, rangs, rang, verrou, joint, mort>>

\* The client reset the connection.
RecvEchoue(t) == pc[t] = "bloque" /\ Meurt
-----------------------------------------------------------------------------
\* Mutant: the lock is not taken.
VerrouIgnore(t) == TRUE
VerrouLibre(t) == verrou = Aucun

Verrouille(t) ==
    /\ pc[t] = "verrou" /\ VerrouLibre(t)
    /\ verrou' = t /\ Va(t, "section")
    /\ UNCHANGED <<fd, serveur, ind, tent, rangs, rang, joint, mort>>

\* Mutant: a wrong guess leaves without the lock.
RateGarde(t) ==
    /\ pc[t] = "section"
    /\ tent' = [tent EXCEPT ![t] = @ - 1]
    /\ Va(t, "ecrire")
    /\ UNCHANGED <<fd, serveur, ind, rangs, rang, verrou, joint, mort>>

\* The guess is right: the counter goes up, then the rank is read from it.
Trouve(t) ==
    /\ pc[t] = "section"
    /\ rang' = rang + 1 /\ Va(t, "annonce")
    /\ UNCHANGED <<fd, serveur, ind, tent, rangs, verrou, joint, mort>>
Annonce(t) ==
    /\ pc[t] = "annonce"
    /\ rangs' = [rangs EXCEPT ![t] = rang]
    /\ verrou' = Aucun /\ Va(t, "ecrire")
    /\ UNCHANGED <<fd, serveur, ind, tent, rang, joint, mort>>

Rate(t) ==
    /\ pc[t] = "section"
    /\ tent' = [tent EXCEPT ![t] = @ - 1]
    /\ verrou' = Aucun /\ Va(t, "ecrire")
    /\ UNCHANGED <<fd, serveur, ind, rangs, rang, joint, mort>>

\* Mutant: a player that lost keeps guessing.
SansLimite(t) == rangs[t] # 0
PartieJouee(t) == rangs[t] # 0 \/ tent[t] = 0

\* The answer goes to whoever the descriptor stands for; the process ends on a
\* closed descriptor, and on a connection whose client is gone.
ecrire_nb(t) ==
    /\ pc[t] = "ecrire"
    /\ \/ /\ fd[sock[t]] # Aucun
          /\ Va(t, IF PartieJouee(t) THEN "ferme1" ELSE "lire")
          /\ UNCHANGED <<fd, serveur, ind, tent, rangs, rang, verrou,
                         joint, mort>>
       \/ Meurt

Ferme(f) == fd' = [fd EXCEPT ![f] = Aucun]

\* game_np closes the socket, and game_np_point closes it again.
game_np_ferme(t) ==
    /\ pc[t] = "ferme1" /\ Ferme(sock[t]) /\ Va(t, "ferme2")
    /\ UNCHANGED <<serveur, ind, tent, rangs, rang, verrou, joint, mort>>
game_np_point_ferme(t) ==
    /\ pc[t] = "ferme2" /\ Ferme(sock[t]) /\ Va(t, "fini")
    /\ UNCHANGED <<serveur, ind, tent, rangs, rang, verrou, joint, mort>>

\* Mutant: the thread of the game does not wait for the players.
JointSansAttendre(t) == pc[t] # "absent"
Joint(t) == pc[t] = "fini"

\* The thread of the game joins its players in order, closes their sockets a
\* third time and, past the last one, frees the array of sockets.
gerer_partie(g) ==
    /\ joint[g] \in 1..NbJoueurs /\ Joint(<<g, joint[g]>>)
    /\ Ferme(sock[<<g, joint[g]>>])
    /\ joint' = [joint EXCEPT ![g] = @ + 1]
    /\ UNCHANGED <<serveur, joueurs, rang, verrou, mort>>
-----------------------------------------------------------------------------
Joue(t) ==
    \/ AppelleRecv(t) \/ Verrouille(t) \/ Trouve(t) \/ Annonce(t) \/ Rate(t)
    \/ ecrire_nb(t) \/ game_np_ferme(t) \/ game_np_point_ferme(t)

Next ==
    \/ Accepte \/ AccepteEchoue \/ LancePartie
    \/ \E t \in Joueurs : Recoit(t) \/ RecvEchoue(t) \/ Joue(t)
    \/ \E g \in Parties : gerer_partie(g)

Spec == Init /\ [][Next]_vars

\* The scheduler runs every thread that can run.  Nothing makes a client
\* connect, send or leave.
FairSpec ==
    /\ Spec
    /\ \A t \in Joueurs : WF_vars(Joue(t))
    /\ \A g \in Parties : WF_vars(gerer_partie(g))
-----------------------------------------------------------------------------
Etapes == {"absent", "lire", "bloque", "verrou", "section", "annonce", "ecrire",
           "ferme1", "ferme2", "fini"}
EnJeu == {"lire", "bloque", "verrou", "section", "annonce", "ecrire"}

\* Every variable keeps its type.  In particular tentatives never goes below
\* zero, and a thread always has a descriptor of its game.
TypeOK ==
    /\ fd \in [Fds -> Joueurs \cup {Aucun}]
    /\ nb_partie \in 1..(MaxParties + 1) /\ places \in 0..NbJoueurs
    /\ sock \in [Joueurs -> Fds \cup {0}]
    /\ pc \in [Joueurs -> Etapes]
    /\ ind \in [Joueurs -> 0..(Capacite - 1)]
    /\ tent \in [Joueurs -> 0..NbTentatives]
    /\ rangs \in [Joueurs -> Nat] /\ rang \in Nat
    /\ verrou \in Joueurs \cup {Aucun}
    /\ joint \in [Parties -> 0..(NbJoueurs + 1)]
    /\ mort \in BOOLEAN
    /\ \A t \in Joueurs : pc[t] # "absent" => sock[t] # 0

\* The ranks told to the winners of all the games are exactly 1, 2, ... in the
\* order of the counter, none given twice and none skipped, however the
\* threads of the players interleave (jeu_devin_para.c, game_np).
ClassementExact ==
    /\ \A t, u \in Joueurs : rangs[t] # 0 /\ rangs[t] = rangs[u] => t = u
    /\ \A t \in Joueurs : rangs[t] <= rang
    /\ verrou = Aucun => \A r \in 1..rang : \E t \in Joueurs : rangs[t] = r

\* The array of sockets of a game and the number of tries, which the threads of
\* its players read through pointers, are freed after the last of them ended.
MemoireVivante ==
    \A g \in Parties : joint[g] = NbJoueurs + 1 =>
        \A j \in 1..NbJoueurs : pc[<<g, j>>] = "fini"

\* The array sockclients holds the sockets of the players (comment of line 29):
\* as long as a player plays, its descriptor stands for its connection.
SocketsDesJoueurs ==
    \A t \in Joueurs : pc[t] \in EnJeu => fd[sock[t]] = t

\* If no player waits for its client for ever, every game that started ends,
\* unless the process does: no thread waits for ever for the lock or for a
\* player, and the tries of every player run out.
FinDePartie ==
    (\A t \in Joueurs : []<>(pc[t] # "bloque")) =>
        \A g \in Parties :
            joint[g] \in 1..NbJoueurs ~> (mort \/ joint[g] = NbJoueurs + 1)
-----------------------------------------------------------------------------
\* The lock belongs to the thread inside the critical section, and only to it.
VerrouExact ==
    \A t \in Joueurs : pc[t] \in {"section", "annonce"} <=> verrou = t

\* The games that did not start yet have no thread, and the game being filled
\* has a descriptor for each place taken.
PartiesAVenir ==
    /\ \A g \in Parties : g >= nb_partie <=> joint[g] = 0
    /\ \A t \in Joueurs : t[1] >= nb_partie <=> pc[t] = "absent"
    /\ \A j \in 1..places : nb_partie \in Parties => sock[<<nb_partie, j>>] # 0

\* A player in front of the lock has a try left.
EssaiRestant ==
    \A t \in Joueurs : pc[t] \in EnJeu \ {"ecrire"} => tent[t] # 0

\* A player has a rank only once it won; between the counter and the answer
\* the new rank belongs to the thread in the critical section.
RangsExacts ==
    /\ \A t \in Joueurs :
        pc[t] \in (EnJeu \ {"ecrire"}) \cup {"absent"} => rangs[t] = 0
    /\ \A t \in Joueurs : rangs[t] <= rang
    /\ \A t, u \in Joueurs : rangs[t] # 0 /\ rangs[t] = rangs[u] => t = u
    /\ \A t \in Joueurs : pc[t] = "annonce" =>
        rang # 0 /\ \A u \in Joueurs : rangs[u] # rang
    /\ \A r \in 1..rang :
        \/ \E t \in Joueurs : rangs[t] = r
        \/ r = rang /\ \E t \in Joueurs : pc[t] = "annonce"

\* A game joined every player before the one it waits for.
JointsFinis ==
    \A g \in Parties, j \in 1..NbJoueurs : j < joint[g] => pc[<<g, j>>] = "fini"

\* The inductive invariant: what each step of the threads keeps, and needs, for
\* the ranks to be exact and the shared memory to be alive.
IInv ==
    /\ TypeOK /\ VerrouExact /\ PartiesAVenir /\ EssaiRestant
    /\ RangsExacts /\ JointsFinis
=============================================================================
