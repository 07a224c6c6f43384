-------------------------- MODULE MembershipAccord --------------------------
(* What the queues, connections and lists of Membership say of whom.         *)
EXTENDS Membership

\* --- types ---------------------------------------------------------------------
Messages == [code : Nat, id : Ids, lmess : Nat, lsig : Nat, mess : Seq(Nat), sig : Seq(Nat),
             nb : Nat, numv : Nat, prix : Nat, ip : Pairs \cup {NUL},
             port : {0, LIAISON_PORT}, cle : Seq(Nat)]

\* What is in the sockets is well formed: an answer, a request, an announcement
\* and the entries of a list name peers, and nobody waits behind an announcement.
Nomme(m) == PairDe(m) \in PairsPossibles
Demande(c) == c.msgs[1].code = 5
Annonce(c) == c.msgs[1].code = 6
EstListe(envoi) == envoi[1].code = 7
EstReponse(envoi) == envoi[1].code \in {50, 51}

Datagrammes == {d \in [de : Pairs, msg : Messages] : d.msg.code = 4 => Nomme(d.msg)}
Connexions ==
    {c \in [de : Pairs, vif : BOOLEAN, msgs : Seq(Messages)] :
        /\ Len(c.msgs) = 1 /\ Nomme(c.msgs[1])
        /\ Demande(c) \/ (Annonce(c) /\ ~c.vif)}
Envois ==
    {e \in Seq(Messages) :
        /\ e # <<>> /\ (EstListe(e) \/ EstReponse(e))
        /\ EstListe(e) => Len(e) = e[1].nb + 1 /\ \A j \in 2..Len(e) : Nomme(e[j])}
Services == [de : Pairs \cup {Personne}, vif : BOOLEAN, reste : SUBSET Nat,
             pair : PairsPossibles \cup {Pair(0, NUL)}]

Types ==
    /\ etape \in [Pairs -> Etapes] /\ essais \in [Pairs -> 0..MAX_JOIN_ATTEMPTS]
    /\ moi \in [Pairs -> Ids] /\ enchere \in [Pairs -> BOOLEAN]
    /\ vue \in [Pairs -> Seq(PairsPossibles)] /\ candidats \in [Pairs -> Seq(PairsPossibles)]
    /\ parrain \in [Pairs -> Pairs \cup {Personne}]
    /\ udp \in [Pairs -> SUBSET Datagrammes] /\ file \in [Pairs -> Seq(Connexions)]
    /\ service \in [Pairs -> Services] /\ recu \in [Pairs -> Seq(Envois)]
    /\ pannes \in 0..MaxPannes

\* A sponsor serves somebody, and waits with it for as long as it announces it.
TypesDuService ==
    \A s \in Pairs :
        /\ etape[s] \in {"annonce", "dort"} => service[s].de \in Pairs /\ service[s].pair \in PairsPossibles
        /\ etape[s] = "annonce" => service[s].reste \subseteq 1..Len(vue[s])

\* --- without failures ----------------------------------------------------------
\* The one request of a newcomer waits until a sponsor takes it.
Patiente(p) == etape[p] = "attend50" /\ recu[p] = <<>>
Inconnu(p) == etape[p] \in {"absent", "cherche", "essaie"} \/ Patiente(p)
DemandesUniques ==
    /\ \A s \in Pairs : \A k \in 1..Len(file[s]) :
        LET c == file[s][k] IN
        Demande(c) =>
            /\ c.vif /\ Patiente(c.de) /\ PairDe(c.msgs[1]) = Pair(moi[c.de], c.de)
            /\ \A t \in Pairs : service[t].de # c.de
            /\ \A t \in Pairs : \A l \in 1..Len(file[t]) :
                   Demande(file[t][l]) /\ file[t][l].de = c.de => t = s /\ l = k
    /\ \A p \in Pairs : Patiente(p) =>
            \E s \in Pairs : \E k \in 1..Len(file[s]) : Demande(file[s][k]) /\ file[s][k].de = p

\* A sponsor that announces is waited for.
ServicesAttendus ==
    \A s \in Pairs :
        /\ etape[s] \notin {"annonce", "dort"} => service[s] = RienAServir
        /\ etape[s] \in {"annonce", "dort"} => ~Inconnu(service[s].de)
        /\ etape[s] = "annonce" =>
            LET p == service[s].de IN
            /\ service[s].vif /\ service[s].pair.ip = p
            /\ \/ etape[p] = "attend50" /\ Len(recu[p]) = 1
               \/ etape[p] = "attend7" /\ recu[p] = <<>>
            /\ \A t \in Pairs : service[t].de = p => t = s

\* What a newcomer has to read.
LecturesEnOrdre ==
    \A p \in Pairs :
        /\ etape[p] # "mort"
        /\ recu[p] # <<>> => etape[p] \in {"attend50", "attend7"}
        /\ \A k \in 1..Len(recu[p]) :
                EstReponse(recu[p][k]) <=> etape[p] = "attend50" /\ k = 1

\* The identifier a peer has, or will have once it read its answer.
Reponse(p) == recu[p][1][1]
Changera(p) == etape[p] = "attend50" /\ recu[p] # <<>> /\ Reponse(p).code = 51
IdFinal(p) == IF Changera(p) THEN Reponse(p).id ELSE moi[p]

\* A peer is named by others under that identifier, once a sponsor accepted it.
Sincere(q) == ~Inconnu(q.ip) /\ q.id = IdFinal(q.ip)

NomsSinceres ==
    /\ \A s \in Pairs : etape[s] \in EnChemin => vue[s] = <<Pair(moi[s], s)>>
    /\ \A s \in Pairs : etape[s] = "absent" => vue[s] = <<>>
    /\ \A s \in Pairs : etape[s] \notin EnChemin => \A x \in ToSet(vue[s]) : Sincere(x)
    /\ \A s \in Pairs : \A c \in ToSet(file[s]) : Annonce(c) => Sincere(PairDe(c.msgs[1]))
    /\ \A s \in Pairs : etape[s] = "annonce" => Sincere(service[s].pair)
    /\ \A s \in Pairs : \A e \in ToSet(recu[s]) :
            EstListe(e) => \A j \in 2..Len(e) : Sincere(PairDe(e[j]))

SansPanne == DemandesUniques /\ ServicesAttendus /\ LecturesEnOrdre /\ NomsSinceres

\* A list that is broken was counted as a failure.
RompuesComptees ==
    \A p \in Pairs : \A k \in 1..Len(recu[p]) : Rompue(recu[p][k]) => pannes > 0

\* Whatever waits in a socket is about peers that are there, and as long as
\* nothing fails a newcomer has one request on its way, which one sponsor
\* answers, and nobody names it under another identifier than the one that the
\* sponsor gave it (join.c:48-97, 164-346).
IInvMembership ==
    /\ Types /\ TypesDuService /\ SoiEnTete /\ RompuesComptees
    /\ pannes = 0 => SansPanne

\* --- who knows whom ------------------------------------------------------------
\* Whom the entries of a list name.
Nommes(l) == {l[k].ip : k \in 1..Len(l)}
Presente(t, p) == etape[t] = "annonce" /\ service[t].de = p

\* Whom a peer has in its list, or will once what is on its way was read: the
\* announcements, the lists, that which its sponsor will send when it announced
\* it to all, and the newcomer it is, or will be, told of.
Annoncee(p, q) == \E k \in 1..Len(file[p]) : Annonce(file[p][k]) /\ file[p][k].msgs[1].ip = q
Listee(p, q) ==
    \E k \in 1..Len(recu[p]) :
        EstListe(recu[p][k]) /\ \E j \in 2..Len(recu[p][k]) : recu[p][k][j].ip = q
DuParrain(p, q) == \E t \in Pairs : Presente(t, p) /\ q \in Nommes(vue[t])
AAnnoncer(p, q) ==
    \E t \in Pairs : Presente(t, q) /\ (t = p \/ \E k \in service[t].reste : vue[t][k].ip = p)
Saura(p, q) ==
    q \in Nommes(vue[p]) \/ Annoncee(p, q) \/ Listee(p, q) \/ DuParrain(p, q) \/ AAnnoncer(p, q)

\* A newcomer has no sponsor and no list yet, and of its sponsor it has at most
\* the list to read; its sponsor is the one that got its request and announces it
\* to others than itself, from inside its loop.
SurLeChemin(p) ==
    /\ etape[p] \in {"absent", "cherche", "essaie"} => parrain[p] = Personne
    /\ etape[p] \in EnChemin \cup {"absent"} => ~enchere[p]
    /\ etape[p] = "attend7" => Len(recu[p]) <= 1
EnFile(s) ==
    \A k \in 1..Len(file[s]) :
        LET c == file[s][k] IN
        /\ Demande(c) => parrain[c.de] = s
        /\ Annonce(c) => parrain[c.msgs[1].ip] = c.de /\ c.de # s
Parrains ==
    \A s, p \in Pairs :
        /\ SurLeChemin(p) /\ EnFile(s)
        /\ Presente(s, p) => parrain[p] = s /\ \A k \in service[s].reste : vue[s][k].ip # s
        /\ ~Inconnu(p) /\ parrain[p] = s => etape[s] \notin EnChemin \cup {"absent"}

\* Nobody has the identifier of another, and whoever is, or will be, in the loop
\* got its list: what SymetrieAuRepos requires, before everybody is at rest.
Distincts == \A p, q \in Pairs : ~Inconnu(p) /\ ~Inconnu(q) /\ IdFinal(p) = IdFinal(q) => p = q
Informes ==
    \A p \in Pairs :
        /\ etape[p] \notin EnChemin \cup {"absent"} => enchere[p]
        /\ etape[p] = "attend7" => recu[p] # <<>> \/ \E t \in Pairs : Presente(t, p)

\* Two peers will know each other or neither will know the other, and those of
\* one sponsor will know each other and whom it knows from before them.
Relies ==
    /\ \A p, s \in Pairs : ~Inconnu(p) /\ parrain[p] = s => p \in Nommes(vue[s]) \/ Presente(s, p)
    /\ \A p, q \in Pairs : Saura(p, q) => Saura(q, p)
    /\ \A p, q, s \in Pairs :
        ~Inconnu(p) /\ parrain[p] = s /\ parrain[q] \in {s, Personne} /\ Saura(s, q) => Saura(p, q)

\* As long as nothing failed and no two peers got one identifier, what is known
\* and what is on its way make the lists of any two peers agree (join.c:48-97,
\* 164-346; peers.c:83-120).
IInvRelations ==
    /\ IInvMembership
    /\ pannes = 0 => Parrains
    /\ pannes = 0 /\ Distincts /\ Informes => Relies
=============================================================================
