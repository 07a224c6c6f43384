----------------------------- MODULE EchoProofs -----------------------------
(* The tables and buffers of the echo servers never mix two clients, proved  *)
(* for any number of clients and any size of the tables.                     *)
EXTENDS EchoAccord, SequenceTheorems, FiniteSetTheorems, WellFoundedInduction, TLAPS

\* --- helpers ---------------------------------------------------------------
PlusPetit == {ab \in Nat \X Nat : ab[1] < ab[2]}

\* A set of numbers has a smallest one.
LEMMA PremierDe ==
  ASSUME NEW S, S \subseteq Nat, S # {}
  PROVE  Premier(S) \in S /\ \A y \in S : Premier(S) <= y
<1>1. PlusPetit = OpToRel(<, Nat)
  BY Zenon DEF PlusPetit, OpToRel
<1>2. IsWellFoundedOn(PlusPetit, Nat)
  BY <1>1, NatLessThanWellFounded, Zenon
<1>3. PICK x \in S : \A y \in S : ~(<<y, x>> \in PlusPetit)
  BY <1>2, WFMin, Zenon
<1>4. ASSUME NEW y \in S PROVE x <= y
  <2>1. y < x => <<y, x>> \in PlusPetit
    BY DEF PlusPetit
  <2>. QED BY <1>3, <2>1
<1>. QED BY <1>4 DEF Premier

LEMMA Constantes ==
  /\ MAX \in Nat /\ MAX > 1 /\ MAX_POLL \in Nat /\ MAX_POLL > 1
  /\ SIZE \in Nat /\ SIZE > 1 /\ Plancher \in Nat /\ Personne \notin Clients
  /\ Programmes \subseteq {"serEcho", "servPoll", "poll_recv"}
BY EchoAssumption, PlancherAssumption

LEMMA Descripteurs == Fds \subseteq Nat \ {0} /\ 0 \notin Fds
BY Constantes DEF Fds

\* --- the pieces of one client -----------------------------------------------
LEMMA VideDeLui == <<>> \in Seq(Pieces) /\ Len(<<>>) = 0 /\ \A c : DeLui(<<>>, c)
BY EmptySeq DEF DeLui

LEMMA SuiteDeLui ==
  ASSUME NEW c, NEW s \in Seq(Pieces), NEW t \in Seq(Pieces), DeLui(s, c), DeLui(t, c)
  PROVE  s \o t \in Seq(Pieces) /\ DeLui(s \o t, c) /\ Len(s \o t) = Len(s) + Len(t)
<1>1. Len(s) \in Nat /\ Len(t) \in Nat
  BY LenProperties
<1>2. /\ s \o t \in Seq(Pieces) /\ Len(s \o t) = Len(s) + Len(t)
      /\ \A k \in 1..Len(s) + Len(t) :
            (s \o t)[k] = IF k <= Len(s) THEN s[k] ELSE t[k - Len(s)]
  BY ConcatProperties
<1>3. ASSUME NEW k \in 1..Len(s \o t) PROVE (s \o t)[k].de = c
  <2>1. CASE k <= Len(s)
    BY <1>1, <1>2, <2>1 DEF DeLui
  <2>2. CASE k > Len(s)
    <3>1. k - Len(s) \in 1..Len(t)
      BY <1>1, <1>2, <2>2
    <3>. QED BY <1>1, <1>2, <2>2, <3>1 DEF DeLui
  <2>. QED BY <1>1, <1>2, <2>1, <2>2
<1>. QED BY <1>2, <1>3 DEF DeLui

LEMMA MorceauDeLui ==
  ASSUME NEW c, NEW s \in Seq(Pieces), DeLui(s, c), NEW m \in Nat \ {0}, NEW n \in Nat, n <= Len(s)
  PROVE  /\ SubSeq(s, m, n) \in Seq(Pieces) /\ DeLui(SubSeq(s, m, n), c)
         /\ Len(SubSeq(s, m, n)) <= n
<1>1. Len(s) \in Nat /\ \A k \in m..n : s[k] \in Pieces /\ s[k].de = c
  BY LenProperties, ElementOfSeq DEF DeLui
<1>2. /\ SubSeq(s, m, n) \in Seq(Pieces)
      /\ Len(SubSeq(s, m, n)) = IF m <= n THEN n - m + 1 ELSE 0
      /\ \A k \in 1..n - m + 1 : SubSeq(s, m, n)[k] = s[m + k - 1]
  BY <1>1, SubSeqProperties
<1>3. ASSUME NEW k \in 1..Len(SubSeq(s, m, n)) PROVE SubSeq(s, m, n)[k].de = c
  <2>1. k \in 1..n - m + 1 /\ m + k - 1 \in m..n
    BY <1>2
  <2>. QED BY <1>1, <1>2, <2>1
<1>. QED BY <1>2, <1>3 DEF DeLui

LEMMA AjoutDeLui ==
  ASSUME NEW c, NEW s \in Seq(Pieces), DeLui(s, c), NEW m \in Pieces, m.de = c
  PROVE  Append(s, m) \in Seq(Pieces) /\ DeLui(Append(s, m), c)
<1>1. Len(s) \in Nat
  BY LenProperties
<1>2. /\ Append(s, m) \in Seq(Pieces) /\ Len(Append(s, m)) = Len(s) + 1
      /\ \A k \in 1..Len(s) : Append(s, m)[k] = s[k]
      /\ Append(s, m)[Len(s) + 1] = m
  BY AppendProperties
<1>3. ASSUME NEW k \in 1..Len(s) + 1 PROVE Append(s, m)[k].de = c
  <2>1. CASE k = Len(s) + 1
    BY <1>2, <2>1
  <2>2. CASE k # Len(s) + 1
    BY <1>1, <1>2, <2>2 DEF DeLui
  <2>. QED BY <2>1, <2>2
<1>. QED BY <1>2, <1>3 DEF DeLui

\* --- the calls on a descriptor -------------------------------------------------
LEMMA LuSien ==
  ASSUME Types, Propres, NEW f \in Fds, prises[f] # Personne
  PROVE  /\ prises[f] \in Clients
         /\ Lu(f) \in Seq(Pieces) /\ DeLui(Lu(f), prises[f])
         /\ Len(Lu(f)) \in Nat /\ Len(Lu(f)) <= Len(flux[prises[f]])
         /\ Len(buffer) + Len(Lu(f)) < SIZE
<1>. DEFINE c == prises[f]
            x == flux[c]
            n == IF Place < Len(x) THEN Place ELSE Len(x)
<1>1. c \in Clients
  BY DEF Types
<1>2. x \in Seq(Pieces) /\ DeLui(x, c)
  BY <1>1 DEF Types, Propres
<1>3. /\ Len(x) \in Nat /\ Len(buffer) \in Nat /\ Len(buffer) < SIZE /\ SIZE \in Nat
      /\ Place \in Nat
  BY <1>2, LenProperties, Constantes DEF Types, Place
<1>4. n \in Nat /\ n <= Len(x) /\ n <= Place
  BY <1>3
<1>5. Lu(f) = SubSeq(x, 1, n)
  BY DEF Lu
<1>. HIDE DEF x, n
<1>6. Lu(f) \in Seq(Pieces) /\ DeLui(Lu(f), c) /\ Len(Lu(f)) <= n
  BY <1>2, <1>4, <1>5, MorceauDeLui
<1>7. Len(Lu(f)) \in Nat
  BY <1>6, LenProperties
<1>8. Len(buffer) + Len(Lu(f)) < SIZE
  BY <1>3, <1>4, <1>6, <1>7 DEF Place
<1>9. Len(Lu(f)) <= Len(x)
  BY <1>3, <1>4, <1>6, <1>7
<1>. QED BY <1>1, <1>6, <1>7, <1>8, <1>9 DEF x

LEMMA PrendSien ==
  ASSUME Types, Propres, NEW f \in Fds, prises[f] # Personne, Prend(f)
  PROVE  flux' \in [Clients -> Seq(Pieces)] /\ \A c \in Clients : DeLui(flux'[c], c)
<1>. DEFINE c == prises[f]
            n == Len(Lu(f))
            y == SubSeq(flux[c], n + 1, Len(flux[c]))
<1>1. c \in Clients /\ n \in Nat
  BY LuSien
<1>2. flux[c] \in Seq(Pieces) /\ DeLui(flux[c], c)
  BY <1>1 DEF Types, Propres
<1>3. Len(flux[c]) \in Nat /\ n + 1 \in Nat \ {0}
  BY <1>1, <1>2, LenProperties
<1>. HIDE DEF n
<1>4. y \in Seq(Pieces) /\ DeLui(y, c)
  BY <1>2, <1>3, MorceauDeLui
<1>5. flux' = [flux EXCEPT ![c] = y]
  BY DEF Prend, n
<1>. HIDE DEF y, c
<1>6. flux \in [Clients -> Seq(Pieces)] /\ \A d \in Clients : DeLui(flux[d], d)
  BY DEF Types, Propres
<1>. QED BY <1>1, <1>4, <1>5, <1>6

\* What is read goes after the rest of the buffer.
LEMMA RecuSien ==
  ASSUME Types, Propres, NEW f \in Fds, prises[f] # Personne, DeLui(buffer, prises[f])
  PROVE  /\ buffer \o Lu(f) \in Seq(Pieces) /\ Len(buffer \o Lu(f)) < SIZE
         /\ DeLui(buffer \o Lu(f), prises[f])
<1>1. Lu(f) \in Seq(Pieces) /\ DeLui(Lu(f), prises[f]) /\ Len(buffer) + Len(Lu(f)) < SIZE
  BY LuSien
<1>2. buffer \in Seq(Pieces)
  BY DEF Types
<1>. QED BY <1>1, <1>2, SuiteDeLui

LEMMA SuiteLien ==
  ASSUME NEW x \in DOMAIN Suite
  PROVE  Suite[x] \in DOMAIN Suite /\ (x \notin {"dehors", "ouvert"} => Suite[x] \notin {"dehors", "ouvert"})
BY DEF Suite

LEMMA CloseSuit ==
  ASSUME Types, NEW f \in Fds, close(f)
  PROVE  /\ prises' \in [Fds -> Clients \cup {Personne}] /\ lien' \in [Clients -> DOMAIN Suite]
         /\ prises'[f] = Personne /\ \A g \in Fds : g # f => prises'[g] = prises[g]
         /\ Depart => Depart'
         /\ prises[f] # Personne => Depart'
<1>1. "fini" \in DOMAIN Suite
  BY DEF Suite
<1>2. prises' \in [Fds -> Clients \cup {Personne}]
      /\ prises'[f] = Personne /\ \A g \in Fds : g # f => prises'[g] = prises[g]
  BY DEF close, Types
<1>3. lien \in [Clients -> DOMAIN Suite]
  BY DEF Types
<1>4. CASE prises[f] = Personne
  <2>1. lien' = lien
    BY <1>4 DEF close
  <2>. QED BY <1>2, <1>3, <1>4, <2>1 DEF Depart
<1>5. CASE prises[f] # Personne
  <2>1. prises[f] \in Clients
    BY <1>5 DEF Types
  <2>2. lien' = [lien EXCEPT ![prises[f]] = "fini"]
    BY <1>5 DEF close
  <2>3. lien'[prises[f]] = "fini"
    BY <1>3, <2>1, <2>2
  <2>4. Depart'
    BY <2>1, <2>3 DEF Depart
  <2>. QED BY <1>1, <1>2, <1>3, <2>1, <2>2, <2>4
<1>. QED BY <1>4, <1>5

LEMMA SendSuit ==
  ASSUME Types, Propres, NEW f \in Fds, NEW b \in Seq(Pieces), DeLui(b, prises[f]), send(f, b)
  PROVE  /\ lien' \in [Clients -> DOMAIN Suite] /\ echo' \in [Clients -> Seq(Pieces)]
         /\ \A c \in Clients : DeLui(echo'[c], c)
         /\ Depart => Depart'
<1>1. lien \in [Clients -> DOMAIN Suite] /\ echo \in [Clients -> Seq(Pieces)]
      /\ \A c \in Clients : DeLui(echo[c], c)
  BY DEF Types, Propres
<1>2. CASE prises[f] = Personne
  <2>1. lien' = lien /\ echo' = echo
    BY <1>2 DEF send
  <2>. QED BY <1>1, <2>1 DEF Depart
<1>3. CASE prises[f] # Personne
  <2>. DEFINE c == prises[f]
              e == IF lien[c] = "ouvert" THEN echo[c] \o b ELSE echo[c]
  <2>1. c \in Clients /\ DeLui(b, c)
    BY <1>3 DEF Types
  <2>2. lien' = [lien EXCEPT ![c] = Suite[@]] /\ echo' = [echo EXCEPT ![c] = e]
    BY <1>3 DEF send
  <2>3. e \in Seq(Pieces) /\ DeLui(e, c)
    <3>1. echo[c] \in Seq(Pieces) /\ DeLui(echo[c], c)
      BY <1>1, <2>1
    <3>2. echo[c] \o b \in Seq(Pieces) /\ DeLui(echo[c] \o b, c)
      BY <2>1, <3>1, SuiteDeLui
    <3>. QED BY <3>1, <3>2
  <2>. HIDE DEF e, c
  <2>4. echo' \in [Clients -> Seq(Pieces)] /\ \A d \in Clients : DeLui(echo'[d], d)
    BY <1>1, <2>1, <2>2, <2>3
  <2>5. lien[c] \in DOMAIN Suite
    BY <1>1, <2>1
  <2>6. /\ Suite[lien[c]] \in DOMAIN Suite
        /\ lien[c] \notin {"dehors", "ouvert"} => Suite[lien[c]] \notin {"dehors", "ouvert"}
    BY <2>5, SuiteLien
  <2>7. lien' \in [Clients -> DOMAIN Suite] /\ lien'[c] = Suite[lien[c]]
        /\ \A d \in Clients : d # c => lien'[d] = lien[d]
    BY <1>1, <2>1, <2>2, <2>6
  <2>8. Depart => Depart'
    BY <2>1, <2>6, <2>7 DEF Depart
  <2>. QED BY <2>4, <2>7, <2>8
<1>. QED BY <1>2, <1>3

LEMMA AcceptSuit ==
  ASSUME Types, FdLibre \in Fds, accept
  PROVE  /\ prises' \in [Fds -> Clients \cup {Personne}] /\ attente' \in Seq(Clients)
         /\ prises'[FdLibre] \in Clients /\ prises'[FdLibre] # Personne
         /\ \A g \in Fds : g # FdLibre => prises'[g] = prises[g]
<1>1. attente \in Seq(Clients) /\ attente # <<>>
  BY DEF Types, accept
<1>2. Head(attente) \in Clients /\ Tail(attente) \in Seq(Clients)
  BY <1>1, HeadTailProperties
<1>3. Head(attente) # Personne
  BY <1>2, Constantes
<1>. QED BY <1>2, <1>3 DEF accept, Types

\* --- the table -------------------------------------------------------------------
LEMMA Intervalle ==
  ASSUME NEW n \in Nat
  PROVE  IsFiniteSet(1..n) /\ Cardinality(1..n) = n
<1>1. 1 \in Int /\ n \in Int
  OBVIOUS
<1>2. IsFiniteSet(1..n) /\ Cardinality(1..n) = IF 1 > n THEN 0 ELSE n - 1 + 1
  BY <1>1, FS_Interval, Zenon
<1>. QED BY <1>2

\* There is a descriptor for each connection the table has room for.
LEMMA DescripteurLibre ==
  ASSUME Types, Exacte, NEW n \in Nat, n < MAX + MAX_POLL, Entrees \subseteq 1..n
  PROVE  FdLibre \in Fds /\ prises[FdLibre] = Personne
<1>. DEFINE L == {f \in Fds : prises[f] = Personne}
            D == [k \in Entrees |-> Descripteur(k)]
<1>1. IsFiniteSet(Entrees) /\ Cardinality(Entrees) <= n
  <2>1. IsFiniteSet(1..n) /\ Cardinality(1..n) = n
    BY Intervalle
  <2>. QED BY <2>1, FS_Subset
<1>2. Ouverts = {Descripteur(k) : k \in Entrees}
  BY DEF Exacte
<1>3. D \in Surjection(Entrees, Ouverts)
  <2>1. D \in [Entrees -> Ouverts]
    BY <1>2
  <2>2. \A f \in Ouverts : \E k \in Entrees : D[k] = f
    BY <1>2
  <2>. QED BY <2>1, <2>2 DEF Surjection
<1>4. IsFiniteSet(Ouverts) /\ Cardinality(Ouverts) <= Cardinality(Entrees)
  <2>. HIDE DEF D
  <2>. QED BY <1>1, <1>3, FS_Surjection
<1>5. Cardinality(Ouverts) <= n
  BY <1>1, <1>4, FS_CardinalityType
<1>6. Cardinality(Fds) = MAX + MAX_POLL
  <2>1. MAX + MAX_POLL \in Nat
    BY Constantes
  <2>. QED BY <2>1, Intervalle DEF Fds
<1>7. Ouverts # Fds
  BY <1>5, <1>6, Constantes
<1>8. L # {} /\ L \subseteq Nat
  BY <1>7, Descripteurs DEF Ouverts
<1>9. Premier(L) \in L
  BY <1>8, PremierDe
<1>. QED BY <1>9 DEF FdLibre

\* What an exact table is, entry by entry, before and after a step.
LEMMA ExacteAvant ==
  ASSUME Exacte
  PROVE  /\ \A k, l \in Entrees : Descripteur(k) = Descripteur(l) => k = l
         /\ \A k \in Entrees : Descripteur(k) \in Fds /\ prises[Descripteur(k)] # Personne
         /\ \A f \in Fds : prises[f] # Personne => \E k \in Entrees : Descripteur(k) = f
BY DEF Exacte, Ouverts

LEMMA ExacteApres ==
  ASSUME \A k, l \in Entrees' : Descripteur(k)' = Descripteur(l)' => k = l,
         \A k \in Entrees' : Descripteur(k)' \in Fds /\ prises'[Descripteur(k)'] # Personne,
         \A f \in Fds : prises'[f] # Personne => \E k \in Entrees' : Descripteur(k)' = f
  PROVE  Exacte'
<1>1. {Descripteur(k) : k \in Entrees}' = {Descripteur(k)' : k \in Entrees'}
  OBVIOUS
<1>2. Ouverts' = {f \in Fds : prises'[f] # Personne}
  BY DEF Ouverts
<1>3. {Descripteur(k)' : k \in Entrees'} = {f \in Fds : prises'[f] # Personne}
  OBVIOUS
<1>. QED BY <1>1, <1>2, <1>3 DEF Exacte

\* --- serEcho -----------------------------------------------------------------
LEMMA AvanceJuste ==
  ASSUME NEW k \in Nat \ {0}, Avance(k)
  PROVE  \/ etape' = "attend" /\ i' = 0
         \/ etape' = "scan" /\ i' \in k..MAX /\ client_sockets'[i'] \in lcpy' \cup ecpy'
<1>. DEFINE S == {j \in k..MAX : client_sockets'[j] \in lcpy' \cup ecpy'}
<1>1. etape' = (IF S = {} THEN "attend" ELSE "scan") /\ i' = IF S = {} THEN 0 ELSE Premier(S)
  BY DEF Avance
<1>2. CASE S = {}
  BY <1>1, <1>2
<1>3. CASE S # {}
  <2>1. S \subseteq Nat
    BY Constantes
  <2>2. Premier(S) \in S
    BY <1>3, <2>1, PremierDe
  <2>. QED BY <1>1, <1>3, <2>2
<1>. QED BY <1>2, <1>3

\* The state of the scan after Avance.
LEMMA AvanceTypes ==
  ASSUME NEW k \in Nat \ {0}, Avance(k), lcpy' \subseteq Fds, ecpy' \subseteq Fds
  PROVE  /\ etape' \in {"attend", "scan"} /\ i' \in 0..MAX
         /\ etape' = "scan" => i' > 0 /\ sd' # 0
<1>1. CASE etape' = "attend" /\ i' = 0
  BY <1>1, Constantes
<1>2. CASE etape' = "scan" /\ i' \in k..MAX /\ client_sockets'[i'] \in lcpy' \cup ecpy'
  BY <1>2, Constantes, Descripteurs DEF sd
<1>. QED BY <1>1, <1>2, AvanceJuste

\* The table of serEcho, entry by entry.
LEMMA TableSelect ==
  ASSUME Types, AccordSelect, programme = "serEcho"
  PROVE  /\ \A k, l \in 1..MAX : client_sockets[k] = client_sockets[l] /\ client_sockets[k] # 0 => k = l
         /\ \A k \in 1..MAX : client_sockets[k] # 0 =>
                client_sockets[k] \in Fds /\ prises[client_sockets[k]] \in Clients
         /\ \A f \in Fds : prises[f] # Personne => \E k \in 1..MAX : client_sockets[k] = f
         /\ lecture \subseteq Fds /\ ecriture \subseteq Fds
<1>1. Entrees = {k \in 1..MAX : client_sockets[k] # 0} /\ \A k : Descripteur(k) = client_sockets[k]
  BY DEF Entrees, Descripteur
<1>2. Exacte /\ client_sockets \in [1..MAX -> Fds \cup {0}] /\ ecriture \subseteq lecture
  BY DEF AccordSelect, EntreesSelect, TypesSelect
<1>3. lecture \subseteq Fds
  BY <1>2 DEF lecture, Range
<1>4. prises \in [Fds -> Clients \cup {Personne}]
  BY DEF Types
<1>. QED BY <1>1, <1>2, <1>3, <1>4, ExacteAvant

LEMMA TableSelectApres ==
  ASSUME programme' = "serEcho",
         \A k, l \in 1..MAX :
            client_sockets'[k] = client_sockets'[l] /\ client_sockets'[k] # 0 => k = l,
         \A k \in 1..MAX : client_sockets'[k] # 0 =>
                client_sockets'[k] \in Fds /\ prises'[client_sockets'[k]] # Personne,
         \A f \in Fds : prises'[f] # Personne => \E k \in 1..MAX : client_sockets'[k] = f
  PROVE  Exacte'
<1>1. Entrees' = {k \in 1..MAX : client_sockets'[k] # 0}
      /\ \A k : Descripteur(k)' = client_sockets'[k]
  BY DEF Entrees, Descripteur
<1>2. \A f \in Fds : f # 0
  BY Descripteurs
<1>. QED BY <1>1, <1>2, ExacteApres

LEMMA ExacteReste ==
  ASSUME Exacte, UNCHANGED <<programme, prises, client_sockets>>, programme = "serEcho"
  PROVE  Exacte'
BY DEF Exacte, Entrees, Descripteur, Ouverts

LEMMA SelectJuste ==
  ASSUME Types, Propres, AccordSelect, programme = "serEcho", programme' = programme, select
  PROVE  Types' /\ Propres' /\ AccordSelect'
<1>1. /\ etape = "attend" /\ lcpy' = {f \in lecture : Lisible(f)} /\ ecpy' = ecriture /\ Avance(1)
      /\ buffer' = buffer /\ ecriture' = ecriture /\ donnees' = donnees
      /\ envoye' = envoye /\ flux' = flux /\ echo' = echo
  BY DEF select, clients
<1>2. lcpy' \subseteq Fds /\ ecpy' \subseteq Fds
  BY <1>1, TableSelect
<1>3. /\ etape' \in {"attend", "scan"} /\ i' \in 0..MAX
      /\ etape' = "scan" => i' > 0 /\ sd' # 0
  BY <1>1, <1>2, AvanceTypes
<1>4. TypesSelect /\ EntreesSelect /\ Exacte /\ ecriture \subseteq lecture
  BY DEF AccordSelect, EntreesSelect
<1>5. /\ client_sockets \in [1..MAX -> Fds \cup {0}] /\ donnees \in [1..MAX -> Seq(Pieces)]
      /\ \A k \in 1..MAX : donnees[k] # <<>> =>
            client_sockets[k] # 0 /\ DeLui(donnees[k], prises[client_sockets[k]])
  BY <1>4 DEF TypesSelect, EntreesSelect
<1>6. Propres'
  BY <1>1 DEF Propres
<1>7. CASE attente' = attente /\ lien' = lien /\ prises' = prises /\ client_sockets' = client_sockets
  <2>1. Exacte'
    BY <1>4, <1>7, ExacteReste
  <2>2. Types'
    BY <1>1, <1>3, <1>7 DEF Types, Etapes
  <2>3. TypesSelect'
    BY <1>1, <1>2, <1>3, <1>5, <1>7 DEF TypesSelect
  <2>4. EntreesSelect'
    BY <1>1, <1>3, <1>4, <1>5, <1>7, <2>1 DEF EntreesSelect, lecture
  <2>. QED BY <1>6, <2>2, <2>3, <2>4 DEF AccordSelect
<1>8. CASE /\ Vides = {} /\ attente # <<>>
           /\ lien' = [lien EXCEPT ![Head(attente)] = "fini"] /\ attente' = Tail(attente)
           /\ prises' = prises /\ client_sockets' = client_sockets
  <2>1. Exacte'
    BY <1>4, <1>8, ExacteReste
  <2>2. attente' \in Seq(Clients) /\ lien' \in [Clients -> DOMAIN Suite]
    <3>1. attente \in Seq(Clients)
      BY DEF Types
    <3>2. Head(attente) \in Clients /\ Tail(attente) \in Seq(Clients)
      BY <1>8, <3>1, HeadTailProperties
    <3>3. lien \in [Clients -> DOMAIN Suite] /\ "fini" \in DOMAIN Suite
      BY DEF Types, Suite
    <3>. QED BY <1>8, <3>2, <3>3
  <2>3. Types'
    BY <1>1, <1>3, <1>8, <2>2 DEF Types, Etapes
  <2>4. TypesSelect'
    BY <1>1, <1>2, <1>3, <1>5, <1>8 DEF TypesSelect
  <2>5. EntreesSelect'
    BY <1>1, <1>3, <1>4, <1>5, <1>8, <2>1 DEF EntreesSelect, lecture
  <2>. QED BY <1>6, <2>3, <2>4, <2>5 DEF AccordSelect
<1>9. CASE /\ Vides # {} /\ accept /\ lien' = lien
           /\ client_sockets' = [client_sockets EXCEPT ![Premier(Vides)] = FdLibre]
  <2>. DEFINE v == Premier(Vides)
              f == FdLibre
  <2>1. v \in 1..MAX /\ client_sockets[v] = 0
    <3>1. Vides \subseteq Nat
      BY Constantes DEF Vides
    <3>2. Premier(Vides) \in Vides
      BY <1>9, <3>1, PremierDe
    <3>. QED BY <3>2 DEF Vides
  <2>2. f \in Fds /\ prises[f] = Personne
    <3>1. MAX \in Nat /\ MAX < MAX + MAX_POLL /\ Entrees \subseteq 1..MAX
      BY Constantes DEF Entrees
    <3>. QED BY <1>4, <3>1, DescripteurLibre
  <2>3. /\ prises' \in [Fds -> Clients \cup {Personne}] /\ attente' \in Seq(Clients)
        /\ prises'[f] \in Clients /\ prises'[f] # Personne
        /\ \A g \in Fds : g # f => prises'[g] = prises[g]
    BY <1>9, <2>2, AcceptSuit
  <2>. HIDE DEF v, f
  <2>4. /\ client_sockets' \in [1..MAX -> Fds \cup {0}] /\ client_sockets'[v] = f
        /\ \A k \in 1..MAX : k # v => client_sockets'[k] = client_sockets[k]
    BY <1>5, <1>9, <2>1, <2>2 DEF v, f
  <2>5. /\ \A k, l \in 1..MAX : client_sockets[k] = client_sockets[l] /\ client_sockets[k] # 0 => k = l
        /\ \A k \in 1..MAX : client_sockets[k] # 0 =>
                client_sockets[k] \in Fds /\ prises[client_sockets[k]] \in Clients
        /\ \A g \in Fds : prises[g] # Personne => \E k \in 1..MAX : client_sockets[k] = g
    BY TableSelect
  <2>6. \A k \in 1..MAX : client_sockets[k] # 0 => client_sockets[k] # f
    BY <2>2, <2>5, Constantes
  <2>7. Exacte'
    <3>1. \A k, l \in 1..MAX :
            client_sockets'[k] = client_sockets'[l] /\ client_sockets'[k] # 0 => k = l
      BY <2>1, <2>4, <2>5, <2>6
    <3>2. \A k \in 1..MAX : client_sockets'[k] # 0 =>
                client_sockets'[k] \in Fds /\ prises'[client_sockets'[k]] # Personne
      BY <2>1, <2>2, <2>3, <2>4, <2>5, <2>6, Constantes
    <3>3. ASSUME NEW g \in Fds, prises'[g] # Personne PROVE \E k \in 1..MAX : client_sockets'[k] = g
      <4>1. CASE g = f
        BY <2>1, <2>4, <4>1
      <4>2. CASE g # f
        <5>1. PICK k \in 1..MAX : client_sockets[k] = g
          BY <2>3, <2>5, <3>3, <4>2
        <5>2. k # v
          BY <2>1, <5>1, Descripteurs
        <5>. QED BY <2>4, <5>1, <5>2
      <4>. QED BY <4>1, <4>2
    <3>. QED BY <3>1, <3>2, <3>3, TableSelectApres
  <2>8. Types'
    BY <1>1, <1>3, <1>9, <2>3 DEF Types, Etapes
  <2>9. TypesSelect'
    BY <1>1, <1>2, <1>3, <1>5, <2>4 DEF TypesSelect
  <2>10. ecriture' \subseteq lecture'
    <3>1. ASSUME NEW g \in lecture PROVE g \in lecture'
      <4>1. PICK k \in 1..MAX : client_sockets[k] = g /\ g # 0
        BY <1>5 DEF lecture, Range
      <4>2. client_sockets'[k] = g
        BY <2>1, <2>4, <4>1
      <4>. QED BY <2>4, <4>1, <4>2 DEF lecture, Range
    <3>. QED BY <1>1, <1>4, <3>1
  <2>11. ASSUME NEW k \in 1..MAX, donnees'[k] # <<>>
         PROVE  client_sockets'[k] # 0 /\ DeLui(donnees'[k], prises'[client_sockets'[k]])
    <3>1. client_sockets[k] # 0 /\ DeLui(donnees[k], prises[client_sockets[k]]) /\ donnees'[k] = donnees[k]
      BY <1>1, <1>5, <2>11
    <3>2. client_sockets'[k] = client_sockets[k] /\ client_sockets[k] # f /\ client_sockets[k] \in Fds
      BY <2>1, <2>4, <2>5, <2>6, <3>1
    <3>3. prises'[client_sockets'[k]] = prises[client_sockets[k]]
      BY <2>3, <3>2
    <3>. QED BY <3>1, <3>2, <3>3
  <2>12. EntreesSelect'
    BY <1>3, <2>7, <2>10, <2>11 DEF EntreesSelect
  <2>. QED BY <1>6, <2>8, <2>9, <2>12 DEF AccordSelect
<1>. QED BY <1>1, <1>7, <1>8, <1>9 DEF select, clients

\* What the steps of serEcho use of the tables.
LEMMA FaitsSelect ==
  ASSUME Types, AccordSelect, programme = "serEcho"
  PROVE  /\ client_sockets \in [1..MAX -> Fds \cup {0}] /\ donnees \in [1..MAX -> Seq(Pieces)]
         /\ lcpy \subseteq Fds /\ ecpy \subseteq Fds /\ i \in 0..MAX
         /\ etape \in {"scan", "lit", "ecrit"} => i \in 1..MAX
         /\ etape \in {"scan", "lit"} => sd \in Fds /\ prises[sd] \in Clients /\ prises[sd] # Personne
         /\ etape = "lit" => DeLui(buffer, prises[sd])
         /\ Exacte /\ ecriture \subseteq lecture
         /\ \A k \in 1..MAX : donnees[k] # <<>> =>
                client_sockets[k] # 0 /\ DeLui(donnees[k], prises[client_sockets[k]])
<1>1. TypesSelect /\ EntreesSelect
  BY DEF AccordSelect
<1>2. etape \in {"scan", "lit", "ecrit"} => i \in 1..MAX
  BY <1>1, Constantes DEF TypesSelect
<1>3. etape \in {"scan", "lit"} => sd # 0
  BY <1>1 DEF EntreesSelect
<1>4. etape \in {"scan", "lit"} => sd \in Fds /\ prises[sd] \in Clients
  BY <1>2, <1>3, TableSelect DEF sd
<1>. QED BY <1>1, <1>2, <1>4, Constantes DEF TypesSelect, EntreesSelect

LEMMA CommenceJuste ==
  ASSUME Types, Propres, AccordSelect, programme = "serEcho", programme' = programme, Commence
  PROVE  Types' /\ Propres' /\ AccordSelect'
<1>1. /\ etape = "scan" /\ etape' = "lit" /\ buffer' = <<>> /\ i' = i /\ prises' = prises
      /\ UNCHANGED <<clients, selection>>
  BY DEF Commence, memset
<1>2. /\ lien' = lien /\ envoye' = envoye /\ flux' = flux /\ echo' = echo /\ attente' = attente
      /\ client_sockets' = client_sockets /\ ecriture' = ecriture /\ lcpy' = lcpy /\ ecpy' = ecpy
      /\ donnees' = donnees
  BY <1>1 DEF clients, selection
<1>3. Types'
  BY <1>1, <1>2, VideDeLui, Constantes DEF Types, Etapes
<1>4. Propres'
  BY <1>2 DEF Propres
<1>5. sd' = sd /\ DeLui(<<>>, prises[sd])
  BY <1>1, <1>2, VideDeLui DEF sd
<1>6. TypesSelect'
  BY <1>1, <1>2, FaitsSelect, Constantes DEF TypesSelect
<1>7. Exacte'
  BY <1>1, <1>2, FaitsSelect, ExacteReste
<1>8. EntreesSelect'
  BY <1>1, <1>2, <1>5, <1>7, FaitsSelect, Descripteurs DEF EntreesSelect, lecture
<1>. QED BY <1>3, <1>4, <1>6, <1>8 DEF AccordSelect

LEMMA RecoitJuste ==
  ASSUME Types, Propres, AccordSelect, programme = "serEcho", programme' = programme, Recoit
  PROVE  Types' /\ Propres' /\ AccordSelect'
<1>1. /\ etape = "lit" /\ Prend(sd) /\ buffer' = buffer \o Lu(sd)
      /\ lien' = lien /\ envoye' = envoye /\ echo' = echo /\ attente' = attente
      /\ prises' = prises /\ i' = i /\ client_sockets' = client_sockets
      /\ lcpy' = lcpy /\ ecpy' = ecpy
  BY DEF Recoit
<1>2. \/ etape' = "ecrit" /\ donnees' = [donnees EXCEPT ![i] = buffer'] /\ ecriture' = ecriture \cup {sd}
      \/ etape' = etape /\ donnees' = donnees /\ ecriture' = ecriture
  BY DEF Recoit
<1>3. sd \in Fds /\ prises[sd] # Personne /\ DeLui(buffer, prises[sd]) /\ i \in 1..MAX
  BY <1>1, FaitsSelect
<1>4. /\ buffer' \in Seq(Pieces) /\ Len(buffer') < SIZE /\ DeLui(buffer', prises[sd])
  BY <1>1, <1>3, RecuSien
<1>5. flux' \in [Clients -> Seq(Pieces)] /\ \A c \in Clients : DeLui(flux'[c], c)
  BY <1>1, <1>3, PrendSien
<1>6. Types'
  BY <1>1, <1>2, <1>4, <1>5 DEF Types, Etapes
<1>7. Propres'
  BY <1>1, <1>5 DEF Propres
<1>8. Exacte' /\ sd' = sd /\ lecture' = lecture
  BY <1>1, FaitsSelect, ExacteReste DEF sd, lecture
<1>9. TypesSelect'
  <2>1. donnees' \in [1..MAX -> Seq(Pieces)]
    BY <1>2, <1>3, <1>4, FaitsSelect
  <2>2. etape' \in {"lit", "ecrit"} /\ i' > 0 /\ i' \in 0..MAX
    BY <1>1, <1>2, <1>3, Constantes
  <2>. QED BY <1>1, <2>1, <2>2, FaitsSelect DEF TypesSelect
<1>10. sd \in lecture
  BY <1>3, FaitsSelect, Descripteurs DEF lecture, sd, Range
<1>11. ASSUME NEW k \in 1..MAX, donnees'[k] # <<>>
       PROVE  client_sockets'[k] # 0 /\ DeLui(donnees'[k], prises'[client_sockets'[k]])
  <2>1. CASE donnees'[k] = donnees[k]
    BY <1>1, <1>11, <2>1, FaitsSelect
  <2>2. CASE donnees'[k] # donnees[k]
    <3>1. k = i /\ donnees'[k] = buffer'
      BY <1>2, <2>2, FaitsSelect
    <3>2. client_sockets'[k] = sd
      BY <1>1, <3>1 DEF sd
    <3>. QED BY <1>1, <1>3, <1>4, <3>1, <3>2, Descripteurs
  <2>. QED BY <2>1, <2>2
<1>12. ecriture' \subseteq lecture'
  BY <1>2, <1>8, <1>10, FaitsSelect
<1>13. EntreesSelect'
  BY <1>1, <1>2, <1>3, <1>4, <1>8, <1>11, <1>12, Descripteurs DEF EntreesSelect
<1>. QED BY <1>6, <1>7, <1>9, <1>13 DEF AccordSelect

LEMMA DeconnecteJuste ==
  ASSUME Types, Propres, AccordSelect, programme = "serEcho", programme' = programme, Deconnecte
  PROVE  Types' /\ Propres' /\ AccordSelect'
<1>1. /\ etape = "lit" /\ close(sd) /\ client_sockets' = [client_sockets EXCEPT ![i] = 0]
      /\ ecriture' = ecriture \ {sd} /\ donnees' = [donnees EXCEPT ![i] = <<>>] /\ etape' = "ecrit"
      /\ envoye' = envoye /\ flux' = flux /\ echo' = echo /\ attente' = attente /\ i' = i
      /\ buffer' = buffer /\ lcpy' = lcpy /\ ecpy' = ecpy
  BY DEF Deconnecte
<1>2. sd \in Fds /\ i \in 1..MAX /\ sd = client_sockets[i]
  BY <1>1, FaitsSelect DEF sd
<1>3. /\ prises' \in [Fds -> Clients \cup {Personne}] /\ lien' \in [Clients -> DOMAIN Suite]
      /\ prises'[sd] = Personne /\ \A g \in Fds : g # sd => prises'[g] = prises[g]
  BY <1>1, <1>2, CloseSuit
<1>4. Types'
  BY <1>1, <1>3 DEF Types, Etapes
<1>5. Propres'
  BY <1>1 DEF Propres
<1>6. /\ client_sockets' \in [1..MAX -> Fds \cup {0}] /\ client_sockets'[i] = 0
      /\ \A k \in 1..MAX : k # i => client_sockets'[k] = client_sockets[k]
      /\ donnees' \in [1..MAX -> Seq(Pieces)] /\ donnees'[i] = <<>>
      /\ \A k \in 1..MAX : k # i => donnees'[k] = donnees[k]
  BY <1>1, <1>2, FaitsSelect, VideDeLui
<1>7. TypesSelect'
  BY <1>1, <1>2, <1>6, FaitsSelect, Constantes DEF TypesSelect
<1>8. /\ \A k, l \in 1..MAX : client_sockets[k] = client_sockets[l] /\ client_sockets[k] # 0 => k = l
      /\ \A k \in 1..MAX : client_sockets[k] # 0 =>
              client_sockets[k] \in Fds /\ prises[client_sockets[k]] \in Clients
      /\ \A g \in Fds : prises[g] # Personne => \E k \in 1..MAX : client_sockets[k] = g
  BY TableSelect
<1>9. \A k \in 1..MAX : k # i => client_sockets[k] # sd
  BY <1>2, <1>8, Descripteurs
<1>10. Exacte'
  <2>1. \A k, l \in 1..MAX :
          client_sockets'[k] = client_sockets'[l] /\ client_sockets'[k] # 0 => k = l
    BY <1>6, <1>8
  <2>2. \A k \in 1..MAX : client_sockets'[k] # 0 =>
              client_sockets'[k] \in Fds /\ prises'[client_sockets'[k]] # Personne
    <3>. SUFFICES ASSUME NEW k \in 1..MAX, client_sockets'[k] # 0
                  PROVE  client_sockets'[k] \in Fds /\ prises'[client_sockets'[k]] # Personne
      OBVIOUS
    <3>1. k # i /\ client_sockets'[k] = client_sockets[k]
      BY <1>6
    <3>2. client_sockets[k] \in Fds /\ client_sockets[k] # sd /\ prises[client_sockets[k]] \in Clients
      BY <1>8, <1>9, <3>1
    <3>3. prises'[client_sockets[k]] = prises[client_sockets[k]]
      BY <1>3, <3>2
    <3>. QED BY <3>1, <3>2, <3>3, Constantes
  <2>3. ASSUME NEW g \in Fds, prises'[g] # Personne PROVE \E k \in 1..MAX : client_sockets'[k] = g
    <3>1. g # sd
      BY <1>3, <2>3
    <3>2. PICK k \in 1..MAX : client_sockets[k] = g
      BY <1>3, <1>8, <2>3, <3>1
    <3>. QED BY <1>2, <1>6, <3>1, <3>2
  <2>. QED BY <2>1, <2>2, <2>3, TableSelectApres
<1>11. ASSUME NEW k \in 1..MAX, donnees'[k] # <<>>
       PROVE  client_sockets'[k] # 0 /\ DeLui(donnees'[k], prises'[client_sockets'[k]])
  <2>1. k # i /\ donnees'[k] = donnees[k] /\ client_sockets'[k] = client_sockets[k]
    BY <1>6, <1>11
  <2>2. client_sockets[k] # 0 /\ DeLui(donnees[k], prises[client_sockets[k]])
    BY <1>11, <2>1, FaitsSelect
  <2>3. prises'[client_sockets[k]] = prises[client_sockets[k]]
    BY <1>3, <1>8, <1>9, <2>1, <2>2
  <2>. QED BY <2>1, <2>2, <2>3
<1>12. ecriture' \subseteq lecture'
  <2>1. ASSUME NEW g \in lecture, g # sd PROVE g \in lecture'
    <3>1. PICK k \in 1..MAX : client_sockets[k] = g /\ g # 0
      BY FaitsSelect DEF lecture, Range
    <3>2. client_sockets'[k] = g
      BY <1>2, <1>6, <2>1, <3>1
    <3>. QED BY <1>6, <3>1, <3>2 DEF lecture, Range
  <2>. QED BY <1>1, <2>1, FaitsSelect
<1>13. EntreesSelect'
  BY <1>1, <1>10, <1>11, <1>12 DEF EntreesSelect
<1>. QED BY <1>4, <1>5, <1>7, <1>13 DEF AccordSelect

LEMMA EcritJuste ==
  ASSUME Types, Propres, AccordSelect, programme = "serEcho", programme' = programme, Ecrit
  PROVE  Types' /\ Propres' /\ AccordSelect'
<1>1. /\ etape \in {"scan", "ecrit"} /\ Avance(i + 1)
      /\ envoye' = envoye /\ flux' = flux /\ attente' = attente /\ prises' = prises
      /\ buffer' = buffer /\ client_sockets' = client_sockets /\ lcpy' = lcpy /\ ecpy' = ecpy
  BY DEF Ecrit
<1>2. \/ /\ sd \in ecpy /\ send(sd, donnees[i]) /\ donnees[i] # <<>>
         /\ donnees' = [donnees EXCEPT ![i] = <<>>] /\ ecriture' = ecriture \ {sd}
      \/ lien' = lien /\ echo' = echo /\ donnees' = donnees /\ ecriture' = ecriture
  BY DEF Ecrit, AEcrire
<1>3. i \in 1..MAX /\ sd = client_sockets[i] /\ i + 1 \in Nat \ {0}
  BY <1>1, FaitsSelect, Constantes DEF sd
<1>4. /\ lien' \in [Clients -> DOMAIN Suite] /\ echo' \in [Clients -> Seq(Pieces)]
      /\ \A c \in Clients : DeLui(echo'[c], c)
  <2>1. CASE lien' = lien /\ echo' = echo
    BY <2>1 DEF Types, Propres
  <2>2. CASE sd \in ecpy /\ send(sd, donnees[i]) /\ donnees[i] # <<>>
    <3>1. sd \in Fds /\ donnees[i] \in Seq(Pieces) /\ DeLui(donnees[i], prises[sd])
      BY <1>3, <2>2, FaitsSelect
    <3>. QED BY <2>2, <3>1, SendSuit
  <2>. QED BY <1>2, <2>1, <2>2
<1>5. /\ etape' \in {"attend", "scan"} /\ i' \in 0..MAX
      /\ etape' = "scan" => i' > 0 /\ sd' # 0
  BY <1>1, <1>3, FaitsSelect, AvanceTypes
<1>6. Types'
  BY <1>1, <1>4, <1>5 DEF Types, Etapes
<1>7. Propres'
  BY <1>1, <1>4 DEF Propres
<1>8. /\ donnees' \in [1..MAX -> Seq(Pieces)]
      /\ \A k \in 1..MAX : donnees'[k] # <<>> => donnees'[k] = donnees[k]
      /\ ecriture' \subseteq ecriture
  BY <1>2, <1>3, FaitsSelect, VideDeLui
<1>9. TypesSelect'
  BY <1>1, <1>5, <1>8, FaitsSelect DEF TypesSelect
<1>10. Exacte' /\ lecture' = lecture
  BY <1>1, FaitsSelect, ExacteReste DEF lecture
<1>11. EntreesSelect'
  BY <1>1, <1>5, <1>8, <1>10, FaitsSelect DEF EntreesSelect
<1>. QED BY <1>6, <1>7, <1>9, <1>11 DEF AccordSelect

LEMMA MeurtSelectJuste ==
  ASSUME Types, Propres, AccordSelect, programme = "serEcho", programme' = programme, MeurtEnEcrivant
  PROVE  Types' /\ Propres' /\ AccordSelect'
<1>1. etape' = "mort" /\ i' = i /\ prises' = prises /\ buffer' = buffer /\ UNCHANGED <<clients, selection>>
  BY DEF MeurtEnEcrivant
<1>2. /\ lien' = lien /\ envoye' = envoye /\ flux' = flux /\ echo' = echo /\ attente' = attente
      /\ client_sockets' = client_sockets /\ ecriture' = ecriture /\ lcpy' = lcpy /\ ecpy' = ecpy
      /\ donnees' = donnees
  BY <1>1 DEF clients, selection
<1>3. Types' /\ Propres'
  BY <1>1, <1>2 DEF Types, Etapes, Propres
<1>4. TypesSelect'
  BY <1>1, <1>2, FaitsSelect DEF TypesSelect
<1>5. Exacte'
  BY <1>1, <1>2, FaitsSelect, ExacteReste
<1>6. EntreesSelect'
  BY <1>1, <1>2, <1>5, FaitsSelect DEF EntreesSelect, lecture
<1>. QED BY <1>3, <1>4, <1>6 DEF AccordSelect

LEMMA SerEchoJuste ==
  ASSUME Types, Propres, AccordSelect, programme = "serEcho", programme' = programme, serEcho
  PROVE  Types' /\ Propres' /\ AccordSelect'
BY SelectJuste, CommenceJuste, RecoitJuste, DeconnecteJuste, EcritJuste, MeurtSelectJuste DEF serEcho

\* --- the clients -------------------------------------------------------------
LEMMA AgitJuste ==
  ASSUME Types, Propres, NEW c \in Clients, Agit(c)
  PROVE  /\ Types' /\ Propres' /\ (Depart => Depart')
         /\ programme' = programme /\ prises' = prises /\ etape' = etape /\ i' = i /\ buffer' = buffer
<1>1. programme' = programme /\ prises' = prises /\ etape' = etape /\ i' = i /\ buffer' = buffer
  BY DEF Agit, serveur
<1>2. /\ lien \in [Clients -> DOMAIN Suite] /\ envoye \in [Clients -> Seq(Pieces)]
      /\ flux \in [Clients -> Seq(Pieces)] /\ echo \in [Clients -> Seq(Pieces)] /\ attente \in Seq(Clients)
      /\ \A d \in Clients : DeLui(flux[d], d) /\ DeLui(echo[d], d)
  BY DEF Types, Propres
<1>3. {"dehors", "ouvert", "ferme", "coupe"} \subseteq DOMAIN Suite
  BY DEF Suite
<1>4. CASE Connecte(c)
  <2>1. /\ lien[c] = "dehors" /\ lien' = [lien EXCEPT ![c] = "ouvert"] /\ attente' = Append(attente, c)
        /\ envoye' = envoye /\ flux' = flux /\ echo' = echo
    BY <1>4 DEF Connecte
  <2>2. attente' \in Seq(Clients)
    BY <1>2, <2>1, AppendProperties
  <2>3. lien' \in [Clients -> DOMAIN Suite]
    BY <1>2, <1>3, <2>1
  <2>4. Depart => Depart'
    <3>1. ASSUME NEW d \in Clients, lien[d] \notin {"dehors", "ouvert"} PROVE lien'[d] = lien[d]
      BY <1>2, <2>1, <3>1
    <3>. QED BY <3>1 DEF Depart
  <2>. QED BY <1>1, <2>1, <2>2, <2>3, <2>4 DEF Types, Propres
<1>5. CASE \E fin \in BOOLEAN : Envoie(c, fin)
  <2>1. PICK fin \in BOOLEAN : Envoie(c, fin)
    BY <1>5
  <2>. DEFINE m == [de |-> c, n |-> Len(envoye[c]) + 1, fin |-> fin]
  <2>2. /\ envoye' = [envoye EXCEPT ![c] = Append(@, m)] /\ flux' = [flux EXCEPT ![c] = Append(@, m)]
        /\ lien' = lien /\ echo' = echo /\ attente' = attente
    BY <2>1 DEF Envoie
  <2>3. m \in Pieces /\ m.de = c
    <3>1. envoye[c] \in Seq(Pieces)
      BY <1>2
    <3>2. Len(envoye[c]) \in Nat
      BY <3>1, LenProperties
    <3>. QED BY <3>2 DEF Pieces
  <2>. HIDE DEF m
  <2>4. envoye[c] \in Seq(Pieces) /\ flux[c] \in Seq(Pieces) /\ DeLui(flux[c], c)
    BY <1>2
  <2>5. Append(envoye[c], m) \in Seq(Pieces) /\ Append(flux[c], m) \in Seq(Pieces)
        /\ DeLui(Append(flux[c], m), c)
    BY <2>3, <2>4, AjoutDeLui, AppendProperties
  <2>6. /\ envoye' \in [Clients -> Seq(Pieces)] /\ flux' \in [Clients -> Seq(Pieces)]
        /\ \A d \in Clients : DeLui(flux'[d], d)
    BY <1>2, <2>2, <2>5
  <2>. QED BY <1>1, <1>2, <2>2, <2>6 DEF Types, Propres, Depart
<1>6. CASE Part(c)
  <2>1. PICK fin \in {"ferme", "coupe"} : lien' = [lien EXCEPT ![c] = fin]
    BY <1>6 DEF Part
  <2>2. envoye' = envoye /\ flux' = flux /\ echo' = echo /\ attente' = attente
    BY <1>6 DEF Part
  <2>3. lien' \in [Clients -> DOMAIN Suite] /\ lien'[c] \notin {"dehors", "ouvert"}
    BY <1>2, <1>3, <2>1
  <2>4. Depart'
    BY <2>3 DEF Depart
  <2>. QED BY <1>1, <2>2, <2>3, <2>4 DEF Types, Propres
<1>. QED BY <1>4, <1>5, <1>6 DEF Agit

\* The tables do not move when the server does not.
LEMMA AccordReste ==
  ASSUME programme' = programme, prises' = prises, etape' = etape, i' = i, buffer' = buffer,
         UNCHANGED <<selection, table>>, Depart => Depart'
  PROVE  /\ programme = "serEcho" /\ AccordSelect => AccordSelect'
         /\ programme # "serEcho" /\ AccordLecture => AccordLecture'
         /\ programme # "serEcho" /\ AccordPoll => AccordPoll'
         /\ InitSelect => InitSelect'
         /\ InitPoll => InitPoll'
<1>1. /\ client_sockets' = client_sockets /\ ecriture' = ecriture /\ lcpy' = lcpy /\ ecpy' = ecpy
      /\ donnees' = donnees /\ pfds' = pfds /\ fd_count' = fd_count /\ buff_client' = buff_client
  BY DEF selection, table
<1>2. InitSelect => InitSelect'
  BY <1>1 DEF InitSelect
<1>3. InitPoll => InitPoll'
  BY <1>1 DEF InitPoll
<1>4. Exacte => Exacte'
  BY <1>1 DEF Exacte, Entrees, Descripteur, Ouverts
<1>5. AccordSelect => AccordSelect'
  BY <1>1, <1>4 DEF AccordSelect, TypesSelect, EntreesSelect, sd, lecture
<1>6. TypesPoll => TypesPoll'
  BY <1>1 DEF TypesPoll
<1>7. AccordLecture => AccordLecture'
  BY <1>1, <1>4, <1>6 DEF AccordLecture
<1>8. EntreesPoll => EntreesPoll'
  BY <1>1, <1>4 DEF EntreesPoll, Sien, EnBalayage
<1>9. Condamne => Condamne'
  BY <1>1 DEF Condamne, EnBalayage
<1>10. AccordPoll => AccordPoll'
  BY <1>1, <1>6, <1>8, <1>9 DEF AccordPoll, EnBalayage
<1>. QED BY <1>2, <1>3, <1>5, <1>7, <1>10

\* --- the table of pollfd -------------------------------------------------------
LEMMA PasseJuste ==
  ASSUME NEW k \in Nat \ {0}, NEW n \in Int, Passe(k, n)
  PROVE  /\ \/ etape' = "attend" /\ i' = 0 /\ \A j \in k..n : pfds'[j].revents = {}
            \/ /\ etape' = "scan" /\ i' \in k..n /\ pfds'[i'].revents # {}
               /\ \A j \in k..n : pfds'[j].revents # {} => i' <= j
<1>. DEFINE S == {j \in k..n : pfds'[j].revents # {}}
<1>1. etape' = (IF S = {} THEN "attend" ELSE "scan") /\ i' = IF S = {} THEN 0 ELSE Premier(S)
  BY DEF Passe
<1>2. CASE S = {}
  BY <1>1, <1>2
<1>3. CASE S # {}
  <2>1. S \subseteq Nat
    OBVIOUS
  <2>2. Premier(S) \in S /\ \A j \in S : Premier(S) <= j
    BY <1>3, <2>1, PremierDe
  <2>. QED BY <1>1, <1>3, <2>2
<1>. QED BY <1>2, <1>3

\* The entries in use, one by one.
LEMMA TablePoll ==
  ASSUME Types, Exacte, programme # "serEcho", fd_count \in 1..MAX_POLL
  PROVE  /\ \A k, l \in 2..fd_count : pfds[k].fd = pfds[l].fd => k = l
         /\ \A k \in 2..fd_count : pfds[k].fd \in Fds /\ pfds[k].fd # 0 /\ prises[pfds[k].fd] \in Clients
         /\ \A k \in 2..fd_count : prises[pfds[k].fd] # Personne
         /\ \A f \in Fds : prises[f] # Personne => \E k \in 2..fd_count : pfds[k].fd = f
<1>1. Entrees = 2..fd_count /\ \A k : Descripteur(k) = pfds[k].fd
  BY DEF Entrees, Descripteur
<1>2. prises \in [Fds -> Clients \cup {Personne}]
  BY DEF Types
<1>3. /\ \A k, l \in 2..fd_count : pfds[k].fd = pfds[l].fd => k = l
      /\ \A k \in 2..fd_count : pfds[k].fd \in Fds /\ prises[pfds[k].fd] # Personne
      /\ \A f \in Fds : prises[f] # Personne => \E k \in 2..fd_count : pfds[k].fd = f
  BY <1>1, ExacteAvant
<1>4. \A k \in 2..fd_count : pfds[k].fd # 0 /\ prises[pfds[k].fd] \in Clients
  <2>. SUFFICES ASSUME NEW k \in 2..fd_count PROVE pfds[k].fd # 0 /\ prises[pfds[k].fd] \in Clients
    OBVIOUS
  <2>. DEFINE f == pfds[k].fd
  <2>1. f \in Fds /\ prises[f] # Personne
    BY <1>3
  <2>. HIDE DEF f
  <2>2. f # 0 /\ prises[f] \in Clients
    BY <1>2, <2>1, Descripteurs
  <2>. QED BY <2>2 DEF f
<1>. QED BY <1>3, <1>4

LEMMA TablePollApres ==
  ASSUME programme' # "serEcho",
         \A k, l \in 2..fd_count' : pfds'[k].fd = pfds'[l].fd => k = l,
         \A k \in 2..fd_count' : pfds'[k].fd \in Fds /\ prises'[pfds'[k].fd] # Personne,
         \A f \in Fds : prises'[f] # Personne => \E k \in 2..fd_count' : pfds'[k].fd = f
  PROVE  Exacte'
<1>1. Entrees' = 2..fd_count' /\ \A k : Descripteur(k)' = pfds'[k].fd
  BY DEF Entrees, Descripteur
<1>. QED BY <1>1, ExacteApres

LEMMA ExactePollReste ==
  ASSUME Exacte, programme # "serEcho", programme' = programme, prises' = prises,
         fd_count' = fd_count, \A k \in 2..fd_count : pfds'[k].fd = pfds[k].fd
  PROVE  Exacte'
<1>1. /\ Entrees = 2..fd_count /\ \A k : Descripteur(k) = pfds[k].fd
      /\ Entrees' = 2..fd_count /\ \A k : Descripteur(k)' = pfds'[k].fd
  BY DEF Entrees, Descripteur
<1>2. /\ \A k, l \in Entrees' : Descripteur(k)' = Descripteur(l)' => k = l
      /\ \A k \in Entrees' : Descripteur(k)' \in Fds /\ prises'[Descripteur(k)'] # Personne
      /\ \A f \in Fds : prises'[f] # Personne => \E k \in Entrees' : Descripteur(k)' = f
  BY <1>1, ExacteAvant
<1>. QED BY <1>2, ExacteApres

Fiches == [fd : Fds \cup {0}, events : SUBSET Conditions, revents : SUBSET Conditions]

LEMMA PollSuit ==
  ASSUME TypesPoll, poll, fd_count \in Int
  PROVE  /\ etape = "attend" /\ prises' = prises /\ buffer' = buffer /\ fd_count' = fd_count
         /\ buff_client' = buff_client /\ UNCHANGED clients
         /\ pfds' \in [1..MAX_POLL -> Fiches]
         /\ \A k \in 1..MAX_POLL :
                /\ pfds'[k].fd = pfds[k].fd /\ pfds'[k].events = pfds[k].events
                /\ k > fd_count => pfds'[k].revents = pfds[k].revents
                /\ k <= fd_count => pfds'[k].revents \subseteq pfds[k].events
<1>1. /\ etape = "attend" /\ prises' = prises /\ buffer' = buffer /\ fd_count' = fd_count
      /\ buff_client' = buff_client /\ UNCHANGED clients
      /\ pfds' = [k \in 1..MAX_POLL |-> IF k > fd_count THEN pfds[k]
                                        ELSE [pfds[k] EXCEPT !.revents = Evenements(pfds[k])]]
  BY DEF poll
<1>2. pfds \in [1..MAX_POLL -> Fiches]
  BY DEF TypesPoll, Fiches
<1>3. ASSUME NEW k \in 1..MAX_POLL
      PROVE  /\ pfds'[k] \in Fiches
             /\ pfds'[k].fd = pfds[k].fd /\ pfds'[k].events = pfds[k].events
             /\ k > fd_count => pfds'[k].revents = pfds[k].revents
             /\ ~(k > fd_count) => pfds'[k].revents \subseteq pfds[k].events
  <2>. DEFINE e == pfds[k]
              v == Evenements(e)
  <2>1. e \in Fiches
    BY <1>2
  <2>2. v \subseteq e.events
    BY DEF Evenements
  <2>3. CASE k > fd_count
    <3>1. pfds'[k] = e
      BY <1>1, <2>3
    <3>. QED BY <2>1, <2>3, <3>1
  <2>4. CASE ~(k > fd_count)
    <3>1. pfds'[k] = [e EXCEPT !.revents = v]
      BY <1>1, <2>4
    <3>. HIDE DEF v
    <3>2. [e EXCEPT !.revents = v] \in Fiches
      BY <2>1, <2>2 DEF Fiches
    <3>3. /\ [e EXCEPT !.revents = v].fd = e.fd /\ [e EXCEPT !.revents = v].events = e.events
          /\ [e EXCEPT !.revents = v].revents = v
      BY <2>1 DEF Fiches
    <3>. HIDE DEF e
    <3>4. pfds'[k] \in Fiches /\ pfds'[k].fd = e.fd /\ pfds'[k].events = e.events /\ pfds'[k].revents = v
      BY <3>1, <3>2, <3>3
    <3>. QED BY <2>2, <2>4, <3>4 DEF e
  <2>. QED BY <2>3, <2>4
<1>4. pfds' \in [1..MAX_POLL -> Fiches]
  BY <1>1, <1>3
<1>5. \A k \in 1..MAX_POLL : k <= fd_count => pfds'[k].revents \subseteq pfds[k].events
  <2>. SUFFICES ASSUME NEW k \in 1..MAX_POLL, k <= fd_count PROVE pfds'[k].revents \subseteq pfds[k].events
    OBVIOUS
  <2>. QED BY <1>3
<1>. QED BY <1>1, <1>3, <1>4, <1>5

\* A connection that is taken has an entry of its own, past the others.
LEMMA AccepteSuit ==
  ASSUME Types, TypesPoll, Exacte, programme # "serEcho", programme' = programme,
         fd_count \in 1..MAX_POLL, accepte
  PROVE  /\ lien' = lien /\ envoye' = envoye /\ flux' = flux /\ echo' = echo /\ buffer' = buffer
         /\ buff_client' = buff_client /\ attente' \in Seq(Clients)
         /\ prises' \in [Fds -> Clients \cup {Personne}]
         /\ \A k \in 2..fd_count : prises'[pfds[k].fd] = prises[pfds[k].fd]
         /\ pfds' \in [1..MAX_POLL -> Fiches] /\ fd_count' \in fd_count..MAX_POLL
         /\ \A k \in 1..MAX_POLL :
                /\ pfds'[k].revents = pfds[k].revents
                /\ k \in 1..fd_count \/ k > fd_count' =>
                        pfds'[k].fd = pfds[k].fd /\ pfds'[k].events = pfds[k].events
                /\ k > fd_count /\ k <= fd_count' => pfds'[k].fd # 0 /\ pfds'[k].events = {"POLLIN"}
         /\ Exacte'
<1>1. /\ lien' = lien /\ envoye' = envoye /\ flux' = flux /\ echo' = echo /\ buffer' = buffer
      /\ buff_client' = buff_client
  BY DEF accepte
<1>2. pfds \in [1..MAX_POLL -> Fiches] /\ prises \in [Fds -> Clients \cup {Personne}]
      /\ attente \in Seq(Clients) /\ MAX_POLL \in Nat
  BY Constantes DEF TypesPoll, Fiches, Types
<1>3. CASE ~APlace
  <2>1. attente' = attente /\ prises' = prises /\ pfds' = pfds /\ fd_count' = fd_count
    BY <1>3 DEF accepte
  <2>2. Exacte'
    BY <2>1, ExactePollReste
  <2>3. fd_count' \in fd_count..MAX_POLL
    BY <2>1, <1>2
  <2>. QED BY <1>1, <1>2, <2>1, <2>2, <2>3
<1>4. CASE APlace
  <2>. DEFINE f == FdLibre
              n == fd_count + 1
  <2>1. /\ accept /\ fd_count' = fd_count + 1 /\ fd_count < MAX_POLL
        /\ pfds' = [pfds EXCEPT ![n].fd = f, ![n].events = {"POLLIN"}]
    BY <1>4 DEF accepte, APlace
  <2>2. f \in Fds /\ prises[f] = Personne
    <3>1. MAX_POLL \in Nat /\ MAX_POLL < MAX + MAX_POLL /\ Entrees \subseteq 1..MAX_POLL
      BY Constantes DEF Entrees
    <3>. QED BY <3>1, DescripteurLibre
  <2>3. /\ prises' \in [Fds -> Clients \cup {Personne}] /\ attente' \in Seq(Clients)
        /\ prises'[f] \in Clients /\ prises'[f] # Personne
        /\ \A g \in Fds : g # f => prises'[g] = prises[g]
    BY <2>1, <2>2, AcceptSuit
  <2>. HIDE DEF f
  <2>4. n \in 2..MAX_POLL /\ n \in 1..MAX_POLL
    BY <1>2, <2>1
  <2>5. /\ pfds' = [pfds EXCEPT ![n] = [[pfds[n] EXCEPT !.fd = f] EXCEPT !.events = {"POLLIN"}]]
    BY <1>2, <2>1, <2>4
  <2>. HIDE DEF n
  <2>6. /\ [[pfds[n] EXCEPT !.fd = f] EXCEPT !.events = {"POLLIN"}] \in Fiches
        /\ [[pfds[n] EXCEPT !.fd = f] EXCEPT !.events = {"POLLIN"}].fd = f
        /\ [[pfds[n] EXCEPT !.fd = f] EXCEPT !.events = {"POLLIN"}].events = {"POLLIN"}
        /\ [[pfds[n] EXCEPT !.fd = f] EXCEPT !.events = {"POLLIN"}].revents = pfds[n].revents
    <3>. DEFINE e == pfds[n]
    <3>1. e \in Fiches
      BY <1>2, <2>4
    <3>. HIDE DEF e
    <3>2. /\ [[e EXCEPT !.fd = f] EXCEPT !.events = {"POLLIN"}] \in Fiches
          /\ [[e EXCEPT !.fd = f] EXCEPT !.events = {"POLLIN"}].fd = f
          /\ [[e EXCEPT !.fd = f] EXCEPT !.events = {"POLLIN"}].events = {"POLLIN"}
          /\ [[e EXCEPT !.fd = f] EXCEPT !.events = {"POLLIN"}].revents = e.revents
      BY <2>2, <3>1 DEF Fiches, Conditions
    <3>. QED BY <3>2 DEF e
  <2>7. /\ pfds' \in [1..MAX_POLL -> Fiches]
        /\ pfds'[n].fd = f /\ pfds'[n].events = {"POLLIN"} /\ pfds'[n].revents = pfds[n].revents
        /\ \A k \in 1..MAX_POLL : k # n => pfds'[k] = pfds[k]
    BY <1>2, <2>4, <2>5, <2>6
  <2>8. /\ \A k, l \in 2..fd_count : pfds[k].fd = pfds[l].fd => k = l
        /\ \A k \in 2..fd_count : pfds[k].fd \in Fds
        /\ \A k \in 2..fd_count : prises[pfds[k].fd] # Personne
        /\ \A g \in Fds : prises[g] # Personne => \E k \in 2..fd_count : pfds[k].fd = g
    BY TablePoll
  <2>9. /\ \A k \in 2..fd_count : k # n /\ k \in 1..MAX_POLL /\ pfds[k].fd # f
        /\ 2..fd_count' = (2..fd_count) \cup {n}
    <3>1. 2..fd_count' = (2..fd_count) \cup {n} /\ \A k \in 2..fd_count : k # n /\ k \in 1..MAX_POLL
      BY <1>2, <2>1 DEF n
    <3>. QED BY <2>2, <2>8, <3>1
  <2>10. \A k \in 2..fd_count : pfds'[k] = pfds[k] /\ prises'[pfds[k].fd] = prises[pfds[k].fd]
    BY <2>3, <2>7, <2>8, <2>9
  <2>11. Exacte'
    <3>1. \A k, l \in 2..fd_count' : pfds'[k].fd = pfds'[l].fd => k = l
      BY <2>7, <2>8, <2>9, <2>10
    <3>2. \A k \in 2..fd_count' : pfds'[k].fd \in Fds /\ prises'[pfds'[k].fd] # Personne
      BY <2>2, <2>3, <2>7, <2>8, <2>9, <2>10
    <3>3. ASSUME NEW g \in Fds, prises'[g] # Personne PROVE \E k \in 2..fd_count' : pfds'[k].fd = g
      <4>1. CASE g = f
        BY <2>7, <2>9, <4>1
      <4>2. CASE g # f
        <5>1. PICK k \in 2..fd_count : pfds[k].fd = g
          BY <2>3, <2>8, <3>3, <4>2
        <5>. QED BY <2>9, <2>10, <5>1
      <4>. QED BY <4>1, <4>2
    <3>. QED BY <3>1, <3>2, <3>3, TablePollApres
  <2>12. fd_count' \in fd_count..MAX_POLL /\ fd_count' = n
    BY <1>2, <2>1 DEF n
  <2>13. \A k \in 1..MAX_POLL :
            /\ pfds'[k].revents = pfds[k].revents
            /\ k \in 1..fd_count \/ k > fd_count' =>
                        pfds'[k].fd = pfds[k].fd /\ pfds'[k].events = pfds[k].events
            /\ k > fd_count /\ k <= fd_count' => pfds'[k].fd # 0 /\ pfds'[k].events = {"POLLIN"}
    <3>. SUFFICES ASSUME NEW k \in 1..MAX_POLL
                  PROVE  /\ pfds'[k].revents = pfds[k].revents
                         /\ k \in 1..fd_count \/ k > fd_count' =>
                                pfds'[k].fd = pfds[k].fd /\ pfds'[k].events = pfds[k].events
                         /\ k > fd_count /\ k <= fd_count' =>
                                pfds'[k].fd # 0 /\ pfds'[k].events = {"POLLIN"}
      OBVIOUS
    <3>1. CASE k = n
      <4>1. ~(k \in 1..fd_count \/ k > fd_count') /\ f # 0
        BY <1>2, <2>1, <2>2, <3>1, Descripteurs DEF n
      <4>. QED BY <2>7, <3>1, <4>1
    <3>2. CASE k # n
      <4>1. ~(k > fd_count /\ k <= fd_count')
        BY <1>2, <2>1, <3>2 DEF n
      <4>. QED BY <2>7, <3>2, <4>1
    <3>. QED BY <3>1, <3>2
  <2>. QED BY <1>1, <2>3, <2>7, <2>10, <2>11, <2>12, <2>13
<1>. QED BY <1>3, <1>4

\* --- poll_recv -----------------------------------------------------------------
LEMMA AttendLectureJuste ==
  ASSUME Types, Propres, AccordLecture, programme # "serEcho", programme' = programme, AttendLecture
  PROVE  Types' /\ Propres' /\ AccordLecture'
<1>1. TypesPoll /\ Exacte /\ fd_count \in 1..MAX_POLL /\ fd_count \in Int /\ poll /\ Passe(1, fd_count)
      /\ pfds[1].fd = listener
  BY Constantes DEF AccordLecture, AttendLecture, TypesPoll
<1>2. /\ etape = "attend" /\ prises' = prises /\ buffer' = buffer /\ fd_count' = fd_count
      /\ buff_client' = buff_client /\ UNCHANGED clients
      /\ pfds' \in [1..MAX_POLL -> Fiches]
      /\ \A k \in 1..MAX_POLL : pfds'[k].fd = pfds[k].fd
  BY <1>1, PollSuit
<1>3. \/ etape' = "attend" /\ i' = 0
      \/ etape' = "scan" /\ i' \in 1..fd_count
  BY <1>1, PasseJuste
<1>4. Types' /\ Propres'
  BY <1>2, <1>3 DEF Types, Propres, Etapes, clients
<1>5. \A k \in 2..fd_count : pfds'[k].fd = pfds[k].fd
  <2>. SUFFICES ASSUME NEW k \in 2..fd_count PROVE pfds'[k].fd = pfds[k].fd
    OBVIOUS
  <2>1. k \in 1..MAX_POLL
    BY <1>1, Constantes
  <2>. QED BY <1>2, <2>1
<1>6. Exacte'
  BY <1>1, <1>2, <1>5, ExactePollReste
<1>7. 1 \in 1..MAX_POLL
  BY Constantes
<1>8. TypesPoll'
  BY <1>1, <1>2, <1>3, <1>7, Constantes DEF TypesPoll, Fiches
<1>. QED BY <1>1, <1>2, <1>3, <1>4, <1>6, <1>8 DEF AccordLecture

LEMMA AccepteLectureJuste ==
  ASSUME Types, Propres, AccordLecture, programme # "serEcho", programme' = programme, AccepteLecture
  PROVE  Types' /\ Propres' /\ AccordLecture'
<1>1. TypesPoll /\ Exacte /\ fd_count \in 1..MAX_POLL /\ accepte /\ Passe(i + 1, fd_count')
      /\ pfds[1].fd = listener /\ i \in 0..MAX_POLL /\ buffer = <<>>
  BY DEF AccordLecture, AccepteLecture, TypesPoll
<1>2. /\ lien' = lien /\ envoye' = envoye /\ flux' = flux /\ echo' = echo /\ buffer' = buffer
      /\ buff_client' = buff_client /\ attente' \in Seq(Clients)
      /\ prises' \in [Fds -> Clients \cup {Personne}]
      /\ pfds' \in [1..MAX_POLL -> Fiches] /\ fd_count' \in fd_count..MAX_POLL
      /\ \A k \in 1..MAX_POLL : k \in 1..fd_count \/ k > fd_count' => pfds'[k].fd = pfds[k].fd
      /\ Exacte'
  BY <1>1, AccepteSuit
<1>3. \/ etape' = "attend" /\ i' = 0
      \/ etape' = "scan" /\ i' \in i + 1..fd_count'
  <2>1. i + 1 \in Nat \ {0} /\ fd_count' \in Int
    BY <1>1, <1>2
  <2>. QED BY <1>1, <2>1, PasseJuste
<1>4. Types' /\ Propres'
  BY <1>2, <1>3 DEF Types, Propres, Etapes
<1>5. pfds'[1].fd = listener /\ fd_count' \in 1..MAX_POLL
  BY <1>1, <1>2, Constantes
<1>6. i' \in 0..MAX_POLL /\ (etape' = "scan" => i' > 0 /\ i' <= fd_count')
  BY <1>1, <1>2, <1>3, Constantes
<1>7. TypesPoll'
  BY <1>1, <1>2, <1>3, <1>5, <1>6 DEF TypesPoll, Fiches
<1>. QED BY <1>1, <1>2, <1>3, <1>4, <1>5, <1>6, <1>7 DEF AccordLecture

LEMMA RecoitLectureJuste ==
  ASSUME Types, Propres, AccordLecture, programme # "serEcho", programme' = programme, RecoitUneFois
  PROVE  Types' /\ Propres' /\ AccordLecture'
<1>1. TypesPoll /\ Exacte /\ fd_count \in 1..MAX_POLL /\ Passe(i + 1, fd_count)
      /\ pfds[1].fd = listener /\ i \in 0..MAX_POLL
      /\ etape = "scan" /\ Prend(pfds[i].fd) /\ pfds[i].fd # listener /\ i <= fd_count /\ i > 0
      /\ lien' = lien /\ envoye' = envoye /\ echo' = echo /\ attente' = attente /\ prises' = prises
      /\ buffer' = buffer /\ pfds' = pfds /\ fd_count' = fd_count /\ buff_client' = buff_client
  BY DEF AccordLecture, RecoitUneFois, TypesPoll, Lit, EstListener, table
<1>2. i \in 2..fd_count
  BY <1>1
<1>3. pfds[i].fd \in Fds /\ prises[pfds[i].fd] # Personne
  BY <1>1, <1>2, TablePoll
<1>4. flux' \in [Clients -> Seq(Pieces)] /\ \A c \in Clients : DeLui(flux'[c], c)
  BY <1>1, <1>3, PrendSien
<1>5. \/ etape' = "attend" /\ i' = 0
      \/ etape' = "scan" /\ i' \in i + 1..fd_count
  <2>1. i + 1 \in Nat \ {0} /\ fd_count \in Int
    BY <1>1
  <2>. QED BY <1>1, <2>1, PasseJuste
<1>6. Types' /\ Propres'
  BY <1>1, <1>4, <1>5 DEF Types, Propres, Etapes
<1>7. Exacte'
  BY <1>1, ExactePollReste
<1>8. i' \in 0..MAX_POLL /\ (etape' = "scan" => i' > 0 /\ i' <= fd_count')
  BY <1>1, <1>5, Constantes
<1>9. TypesPoll'
  BY <1>1, <1>5, <1>8 DEF TypesPoll
<1>. QED BY <1>1, <1>5, <1>6, <1>7, <1>8, <1>9 DEF AccordLecture

\* The last entry takes the place of the one that left.
LEMMA RetireLectureJuste ==
  ASSUME Types, Propres, AccordLecture, programme # "serEcho", programme' = programme, RetireLecture
  PROVE  Types' /\ Propres' /\ AccordLecture'
<1>. DEFINE f == pfds[i].fd
<1>1. TypesPoll /\ Exacte /\ fd_count \in 1..MAX_POLL /\ Passe(i + 1, fd_count')
      /\ pfds[1].fd = listener /\ i \in 0..MAX_POLL
      /\ etape = "scan" /\ close(f) /\ f # listener /\ i <= fd_count /\ i > 0
      /\ envoye' = envoye /\ flux' = flux /\ echo' = echo /\ attente' = attente
      /\ buffer' = buffer /\ pfds' = [pfds EXCEPT ![i] = pfds[fd_count]] /\ fd_count' = fd_count - 1
      /\ buff_client' = buff_client
  BY DEF AccordLecture, RetireLecture, TypesPoll, Lit, EstListener, Remplace
<1>2. i \in 2..fd_count /\ i \in 1..MAX_POLL /\ MAX_POLL \in Nat /\ fd_count' \in 1..MAX_POLL
  BY <1>1, Constantes
<1>3. f \in Fds
  BY <1>1, <1>2, TablePoll
<1>4. /\ prises' \in [Fds -> Clients \cup {Personne}] /\ lien' \in [Clients -> DOMAIN Suite]
      /\ prises'[f] = Personne /\ \A g \in Fds : g # f => prises'[g] = prises[g]
  BY <1>1, <1>3, CloseSuit
<1>5. /\ \A k, l \in 2..fd_count : pfds[k].fd = pfds[l].fd => k = l
      /\ \A k \in 2..fd_count : pfds[k].fd \in Fds
      /\ \A k \in 2..fd_count : prises[pfds[k].fd] # Personne
      /\ \A g \in Fds : prises[g] # Personne => \E k \in 2..fd_count : pfds[k].fd = g
  BY <1>1, TablePoll
<1>6. pfds \in [1..MAX_POLL -> Fiches]
  BY <1>1 DEF TypesPoll, Fiches
<1>7. /\ pfds' \in [1..MAX_POLL -> Fiches] /\ pfds'[i] = pfds[fd_count]
      /\ \A k \in 1..MAX_POLL : k # i => pfds'[k] = pfds[k]
  BY <1>1, <1>2, <1>6
<1>. DEFINE de(k) == IF k = i THEN fd_count ELSE k
<1>8. \A k \in 2..fd_count' : de(k) \in 2..fd_count /\ de(k) # i /\ pfds'[k] = pfds[de(k)]
  BY <1>1, <1>2, <1>7
<1>9. \A k, l \in 2..fd_count' : de(k) = de(l) => k = l
  BY <1>1, <1>2
<1>10. \A k \in 2..fd_count : k # i => \E l \in 2..fd_count' : de(l) = k
  <2>. SUFFICES ASSUME NEW k \in 2..fd_count, k # i PROVE \E l \in 2..fd_count' : de(l) = k
    OBVIOUS
  <2>1. CASE k = fd_count
    <3>1. i \in 2..fd_count' /\ de(i) = k
      BY <1>1, <1>2, <2>1
    <3>. QED BY <3>1
  <2>2. CASE k # fd_count
    <3>1. k \in 2..fd_count' /\ de(k) = k
      BY <1>1, <1>2, <2>2
    <3>. QED BY <3>1
  <2>. QED BY <2>1, <2>2
<1>. HIDE DEF de
<1>11. \A k \in 2..fd_count : k # i => pfds[k].fd # f
  BY <1>2, <1>5
<1>12. Exacte'
  <2>1. \A k, l \in 2..fd_count' : pfds'[k].fd = pfds'[l].fd => k = l
    BY <1>5, <1>8, <1>9
  <2>2. ASSUME NEW k \in 2..fd_count' PROVE pfds'[k].fd \in Fds /\ prises'[pfds'[k].fd] # Personne
    <3>1. pfds[de(k)].fd \in Fds /\ pfds[de(k)].fd # f /\ prises[pfds[de(k)].fd] # Personne
      BY <1>5, <1>8, <1>11
    <3>2. prises'[pfds[de(k)].fd] # Personne
      BY <1>4, <3>1
    <3>. QED BY <1>8, <3>1, <3>2
  <2>3. ASSUME NEW g \in Fds, prises'[g] # Personne PROVE \E k \in 2..fd_count' : pfds'[k].fd = g
    <3>1. g # f /\ prises[g] # Personne
      BY <1>4, <2>3
    <3>2. PICK k \in 2..fd_count : pfds[k].fd = g
      BY <1>5, <3>1
    <3>3. PICK l \in 2..fd_count' : de(l) = k
      BY <1>10, <3>1, <3>2
    <3>. QED BY <1>8, <3>2, <3>3
  <2>. QED BY <2>1, <2>2, <2>3, TablePollApres
<1>13. \/ etape' = "attend" /\ i' = 0
       \/ etape' = "scan" /\ i' \in i + 1..fd_count'
  <2>1. i + 1 \in Nat \ {0} /\ fd_count' \in Int
    BY <1>1
  <2>. QED BY <1>1, <2>1, PasseJuste
<1>14. Types' /\ Propres'
  BY <1>1, <1>4, <1>13 DEF Types, Propres, Etapes
<1>15. i' \in 0..MAX_POLL /\ (etape' = "scan" => i' > 0 /\ i' <= fd_count')
  BY <1>1, <1>2, <1>13
<1>16. pfds'[1].fd = listener
  BY <1>1, <1>2, <1>7
<1>17. TypesPoll'
  BY <1>1, <1>7, <1>13, <1>15, <1>16 DEF TypesPoll, Fiches
<1>18. buffer' = <<>>
  BY <1>1 DEF AccordLecture
<1>. QED BY <1>2, <1>12, <1>13, <1>14, <1>15, <1>17, <1>18 DEF AccordLecture

LEMMA PollRecvJuste ==
  ASSUME Types, Propres, AccordLecture, programme # "serEcho", programme' = programme, poll_recv
  PROVE  Types' /\ Propres' /\ AccordLecture'
BY AttendLectureJuste, AccepteLectureJuste, RecoitLectureJuste, RetireLectureJuste DEF poll_recv

\* --- servPoll --------------------------------------------------------------------
LEMMA PassePoll ==
  ASSUME NEW k \in Nat \ {0}, Passe(k, MAX_POLL)
  PROVE  /\ etape' \in {"attend", "scan"} /\ i' \in 0..MAX_POLL
         /\ EnBalayage' <=> etape' = "scan"
         /\ etape' = "scan" => i' \in k..MAX_POLL /\ i' > 0 /\ pfds'[i'].revents # {}
         /\ \A j \in k..MAX_POLL : pfds'[j].revents # {} => etape' = "scan" /\ i' <= j
<1>1. \/ etape' = "attend" /\ i' = 0 /\ \A j \in k..MAX_POLL : pfds'[j].revents = {}
      \/ /\ etape' = "scan" /\ i' \in k..MAX_POLL /\ pfds'[i'].revents # {}
         /\ \A j \in k..MAX_POLL : pfds'[j].revents # {} => i' <= j
  <2>1. MAX_POLL \in Int
    BY Constantes
  <2>. QED BY <2>1, PasseJuste
<1>2. EnBalayage' <=> etape' \in {"scan", "lit", "mort"}
  BY DEF EnBalayage
<1>3. CASE etape' = "attend"
  BY <1>1, <1>2, <1>3, Constantes
<1>4. CASE etape' = "scan"
  <2>1. i' \in k..MAX_POLL /\ pfds'[i'].revents # {} /\ \A j \in k..MAX_POLL : pfds'[j].revents # {} => i' <= j
    BY <1>1, <1>4
  <2>2. i' > 0 /\ i' \in 0..MAX_POLL
    BY <2>1, Constantes
  <2>. QED BY <1>2, <1>4, <2>1, <2>2
<1>. QED BY <1>1, <1>3, <1>4

\* What the entries say, part by part.
LEMMA FaitsPoll ==
  ASSUME Types, TypesPoll, EntreesPoll, programme # "serEcho"
  PROVE  /\ Exacte /\ fd_count \in 1..MAX_POLL /\ fd_count \in Int /\ MAX_POLL \in Int
         /\ pfds \in [1..MAX_POLL -> Fiches] /\ buff_client \in [1..MAX_POLL -> Seq(Pieces)]
         /\ pfds[1].fd = 0 /\ 1 \in 1..MAX_POLL /\ i \in 0..MAX_POLL
         /\ pfds[1].events = {"POLLIN"} /\ pfds[1].revents \subseteq {"POLLIN"}
         /\ \A k \in 2..fd_count : /\ k \in 2..MAX_POLL /\ k \in 1..MAX_POLL
                                   /\ pfds[k].fd \in Fds /\ pfds[k].fd # 0
                                   /\ prises[pfds[k].fd] # Personne
                                   /\ pfds[k].events \in {{"POLLIN"}, {"POLLOUT"}}
                                   /\ "POLLOUT" \in pfds[k].events => Sien(k)
         /\ \A k \in 2..MAX_POLL :
              /\ k \in 1..MAX_POLL
              /\ pfds[k].revents # {} => pfds[k].fd # 0 /\ (k > fd_count => Depart)
              /\ pfds[k].revents # {} /\ "POLLIN" \notin pfds[k].revents /\ buff_client[k] # <<>> =>
                    /\ EnBalayage /\ k >= i /\ Sien(k)
                    /\ k > fd_count => i > 1 /\ fd_count > 1 /\ pfds[k].fd = pfds[fd_count].fd
<1>1. Exacte /\ fd_count \in 1..MAX_POLL
  BY DEF EntreesPoll
<1>2. /\ pfds \in [1..MAX_POLL -> Fiches] /\ buff_client \in [1..MAX_POLL -> Seq(Pieces)]
      /\ pfds[1].fd = 0 /\ i \in 0..MAX_POLL
  BY DEF TypesPoll, Fiches, listener
<1>3. MAX_POLL \in Int /\ 1 \in 1..MAX_POLL /\ fd_count \in Int
  BY <1>1, Constantes
<1>4. \A k \in 2..fd_count : pfds[k].fd \in Fds /\ pfds[k].fd # 0 /\ prises[pfds[k].fd] # Personne
  BY <1>1, TablePoll
<1>5. \A k \in 2..fd_count : k \in 2..MAX_POLL /\ k \in 1..MAX_POLL
  BY <1>1, <1>3
<1>6. \A k \in 2..MAX_POLL : k \in 1..MAX_POLL
  BY <1>3
<1>7. /\ pfds[1].events = {"POLLIN"} /\ pfds[1].revents \subseteq {"POLLIN"}
      /\ \A k \in 2..fd_count : /\ pfds[k].events \in {{"POLLIN"}, {"POLLOUT"}}
                                /\ "POLLOUT" \in pfds[k].events => Sien(k)
      /\ \A k \in 2..MAX_POLL :
              /\ pfds[k].revents # {} => pfds[k].fd # 0 /\ (k > fd_count => Depart)
              /\ pfds[k].revents # {} /\ "POLLIN" \notin pfds[k].revents /\ buff_client[k] # <<>> =>
                    /\ EnBalayage /\ k >= i /\ Sien(k)
                    /\ k > fd_count => i > 1 /\ fd_count > 1 /\ pfds[k].fd = pfds[fd_count].fd
  BY DEF EntreesPoll
<1>8. \A k \in 2..fd_count : /\ k \in 2..MAX_POLL /\ k \in 1..MAX_POLL
                             /\ pfds[k].fd \in Fds /\ pfds[k].fd # 0
                             /\ prises[pfds[k].fd] # Personne
                             /\ pfds[k].events \in {{"POLLIN"}, {"POLLOUT"}}
                             /\ "POLLOUT" \in pfds[k].events => Sien(k)
  BY <1>4, <1>5, <1>7
<1>. QED BY <1>1, <1>2, <1>3, <1>6, <1>7, <1>8

\* Every part holds afterwards.
LEMMA FaitsPollApres ==
  ASSUME Exacte', fd_count' \in 1..MAX_POLL,
         pfds'[1].events = {"POLLIN"}, pfds'[1].revents \subseteq {"POLLIN"},
         \A k \in 2..fd_count' : /\ pfds'[k].events \in {{"POLLIN"}, {"POLLOUT"}}
                                 /\ "POLLOUT" \in pfds'[k].events => Sien(k)',
         \A k \in 2..MAX_POLL : pfds'[k].revents # {} => pfds'[k].fd # 0 /\ (k > fd_count' => Depart'),
         \A k \in 2..MAX_POLL :
            pfds'[k].revents # {} /\ "POLLIN" \notin pfds'[k].revents /\ buff_client'[k] # <<>> =>
                /\ EnBalayage' /\ k >= i' /\ Sien(k)'
                /\ k > fd_count' => i' > 1 /\ fd_count' > 1 /\ pfds'[k].fd = pfds'[fd_count'].fd
  PROVE  EntreesPoll'
BY DEF EntreesPoll

LEMMA AttendJuste ==
  ASSUME Types, Propres, AccordPoll, programme # "serEcho", programme' = programme, Attend
  PROVE  Types' /\ Propres' /\ AccordPoll'
<1>1. TypesPoll /\ etape = "attend" /\ poll /\ Passe(1, MAX_POLL)
  BY DEF AccordPoll, Attend, poll
<1>2. EntreesPoll /\ ~EnBalayage
  BY <1>1 DEF AccordPoll, Condamne, EnBalayage
<1>3. /\ Exacte /\ fd_count \in 1..MAX_POLL /\ fd_count \in Int /\ MAX_POLL \in Int
      /\ pfds[1].fd = 0 /\ 1 \in 1..MAX_POLL /\ pfds[1].events = {"POLLIN"}
  BY <1>1, <1>2, FaitsPoll
<1>4. /\ prises' = prises /\ buffer' = buffer /\ fd_count' = fd_count
      /\ buff_client' = buff_client /\ UNCHANGED clients
      /\ pfds' \in [1..MAX_POLL -> Fiches]
      /\ \A k \in 1..MAX_POLL :
            /\ pfds'[k].fd = pfds[k].fd /\ pfds'[k].events = pfds[k].events
            /\ k > fd_count => pfds'[k].revents = pfds[k].revents
            /\ k <= fd_count => pfds'[k].revents \subseteq pfds[k].events
  BY <1>1, <1>3, PollSuit
<1>5. /\ etape' \in {"attend", "scan"} /\ i' \in 0..MAX_POLL
      /\ EnBalayage' <=> etape' = "scan"
      /\ etape' = "scan" => i' > 0 /\ pfds'[i'].revents # {}
      /\ \A j \in 1..MAX_POLL : pfds'[j].revents # {} => etape' = "scan" /\ i' <= j
  BY <1>1, PassePoll
<1>6. Types' /\ Propres' /\ (Depart' <=> Depart)
  BY <1>4, <1>5 DEF Types, Propres, Etapes, clients, Depart
<1>7. \A k \in 2..MAX_POLL : /\ k \in 1..MAX_POLL /\ k \in Int
                             /\ pfds'[k].fd = pfds[k].fd /\ pfds'[k].events = pfds[k].events
  BY <1>3, <1>4
<1>8. \A k \in 2..fd_count : /\ k \in 2..MAX_POLL
                             /\ pfds[k].fd \in Fds /\ pfds[k].fd # 0 /\ prises[pfds[k].fd] # Personne
                             /\ pfds[k].events \in {{"POLLIN"}, {"POLLOUT"}}
                             /\ "POLLOUT" \in pfds[k].events => Sien(k)
  BY <1>1, <1>2, FaitsPoll
<1>9. \A k \in 2..MAX_POLL :
              /\ pfds[k].revents # {} => pfds[k].fd # 0 /\ (k > fd_count => Depart)
              /\ ~(pfds[k].revents # {} /\ "POLLIN" \notin pfds[k].revents /\ buff_client[k] # <<>>)
  BY <1>1, <1>2, FaitsPoll
<1>10. \A k \in 2..MAX_POLL : Sien(k) => Sien(k)'
  BY <1>4, <1>7 DEF Sien
<1>11. Exacte'
  <2>1. \A k \in 2..fd_count : pfds'[k].fd = pfds[k].fd
    BY <1>7, <1>8
  <2>. QED BY <1>3, <1>4, <2>1, ExactePollReste
<1>12. \A k \in 2..fd_count' : /\ pfds'[k].events \in {{"POLLIN"}, {"POLLOUT"}}
                               /\ "POLLOUT" \in pfds'[k].events => Sien(k)'
  <2>. SUFFICES ASSUME NEW k \in 2..fd_count
                PROVE  /\ pfds'[k].events \in {{"POLLIN"}, {"POLLOUT"}}
                       /\ "POLLOUT" \in pfds'[k].events => Sien(k)'
    BY <1>4
  <2>. QED BY <1>7, <1>8, <1>10
<1>13. ASSUME NEW k \in 2..MAX_POLL, pfds'[k].revents # {}
       PROVE  /\ pfds'[k].fd # 0 /\ (k > fd_count' => Depart')
              /\ "POLLIN" \notin pfds'[k].revents /\ buff_client'[k] # <<>> =>
                    EnBalayage' /\ k >= i' /\ Sien(k)' /\ k <= fd_count'
  <2>1. CASE k > fd_count
    <3>1. pfds'[k] = [fd |-> pfds[k].fd, events |-> pfds[k].events, revents |-> pfds[k].revents]
      BY <1>4, <1>7, <2>1 DEF Fiches
    <3>2. pfds'[k].revents = pfds[k].revents
      BY <3>1
    <3>. QED BY <1>4, <1>6, <1>7, <1>9, <1>13, <3>2
  <2>2. CASE k <= fd_count
    <3>1. k \in 2..fd_count
      BY <1>3, <2>2
    <3>2. pfds'[k].revents \subseteq pfds[k].events
      BY <1>4, <1>7, <2>2
    <3>3. pfds'[k].fd # 0
      BY <1>7, <1>8, <3>1
    <3>4. ASSUME "POLLIN" \notin pfds'[k].revents PROVE Sien(k)'
      <4>1. "POLLOUT" \in pfds[k].events
        <5>1. pfds[k].events = {"POLLIN"} => FALSE
          BY <1>13, <3>2, <3>4
        <5>2. pfds[k].events \in {{"POLLIN"}, {"POLLOUT"}}
          BY <1>8, <3>1
        <5>. QED BY <5>1, <5>2
      <4>. QED BY <1>8, <1>10, <3>1, <4>1
    <3>5. etape' = "scan" /\ i' <= k
      BY <1>5, <1>7, <1>13
    <3>6. EnBalayage' /\ k >= i'
      BY <1>5, <1>7, <3>5
    <3>7. ~(k > fd_count')
      BY <1>3, <1>4, <1>7, <2>2
    <3>. QED BY <1>4, <2>2, <3>3, <3>4, <3>6, <3>7
  <2>3. k > fd_count \/ k <= fd_count
    BY <1>3, <1>7
  <2>. QED BY <2>1, <2>2, <2>3
<1>14. pfds'[1].events = {"POLLIN"} /\ pfds'[1].revents \subseteq {"POLLIN"} /\ pfds'[1].fd = 0
  <2>1. 1 <= fd_count
    BY <1>3
  <2>. QED BY <1>3, <1>4, <2>1
<1>15. fd_count' \in 1..MAX_POLL /\ \A k \in 2..MAX_POLL : k <= fd_count' => ~(k > fd_count')
  BY <1>3, <1>4, <1>7
<1>16. EntreesPoll'
  <2>1. \A k \in 2..MAX_POLL : pfds'[k].revents # {} => pfds'[k].fd # 0 /\ (k > fd_count' => Depart')
    BY <1>13
  <2>2. \A k \in 2..MAX_POLL :
            pfds'[k].revents # {} /\ "POLLIN" \notin pfds'[k].revents /\ buff_client'[k] # <<>> =>
                /\ EnBalayage' /\ k >= i' /\ Sien(k)'
                /\ k > fd_count' => i' > 1 /\ fd_count' > 1 /\ pfds'[k].fd = pfds'[fd_count'].fd
    BY <1>13, <1>15
  <2>. QED BY <1>11, <1>12, <1>14, <1>15, <2>1, <2>2, FaitsPollApres
<1>17. TypesPoll'
  <2>1. buff_client' \in [1..MAX_POLL -> Seq(Pieces)]
    BY <1>1, <1>4 DEF TypesPoll
  <2>. QED BY <1>4, <1>5, <1>14, <2>1 DEF TypesPoll, Fiches, listener
<1>. QED BY <1>5, <1>6, <1>16, <1>17 DEF AccordPoll

LEMMA AccepteJuste ==
  ASSUME Types, Propres, AccordPoll, programme # "serEcho", programme' = programme, Accepte
  PROVE  Types' /\ Propres' /\ AccordPoll'
<1>1. /\ TypesPoll /\ accepte /\ Passe(i + 1, MAX_POLL)
      /\ etape = "scan" /\ "POLLIN" \in pfds[i].revents /\ pfds[i].fd = 0
  BY DEF AccordPoll, Accepte, accepte, Lit, EstListener, listener
<1>2. EntreesPoll
  BY <1>1 DEF AccordPoll, Condamne
<1>3. /\ Exacte /\ fd_count \in 1..MAX_POLL /\ fd_count \in Int /\ MAX_POLL \in Int
      /\ 1 \in 1..MAX_POLL /\ pfds[1].fd = 0
      /\ pfds[1].events = {"POLLIN"} /\ pfds[1].revents \subseteq {"POLLIN"}
  BY <1>1, <1>2, FaitsPoll
<1>4. \A k \in 2..fd_count : /\ k \in 2..MAX_POLL
                             /\ pfds[k].events \in {{"POLLIN"}, {"POLLOUT"}}
                             /\ "POLLOUT" \in pfds[k].events => Sien(k)
  BY <1>1, <1>2, FaitsPoll
<1>5. \A k \in 2..MAX_POLL :
              /\ k \in 1..MAX_POLL
              /\ pfds[k].revents # {} => pfds[k].fd # 0 /\ (k > fd_count => Depart)
              /\ pfds[k].revents # {} /\ "POLLIN" \notin pfds[k].revents /\ buff_client[k] # <<>> =>
                    /\ EnBalayage /\ k >= i /\ Sien(k)
                    /\ k > fd_count => i > 1 /\ fd_count > 1 /\ pfds[k].fd = pfds[fd_count].fd
  BY <1>1, <1>2, FaitsPoll
<1>6. i = 1
  <2>1. i \in 1..MAX_POLL
    BY <1>1 DEF TypesPoll
  <2>2. i \notin 2..MAX_POLL
    BY <1>1, <1>5
  <2>. QED BY <2>1, <2>2
<1>7. /\ lien' = lien /\ envoye' = envoye /\ flux' = flux /\ echo' = echo /\ buffer' = buffer
      /\ buff_client' = buff_client /\ attente' \in Seq(Clients)
      /\ prises' \in [Fds -> Clients \cup {Personne}]
      /\ pfds' \in [1..MAX_POLL -> Fiches] /\ fd_count' \in fd_count..MAX_POLL
      /\ Exacte'
  BY <1>1, <1>3, AccepteSuit
<1>8. /\ \A k \in 2..fd_count : prises'[pfds[k].fd] = prises[pfds[k].fd]
      /\ \A k \in 1..MAX_POLL :
            /\ pfds'[k].revents = pfds[k].revents
            /\ k \in 1..fd_count \/ k > fd_count' =>
                        pfds'[k].fd = pfds[k].fd /\ pfds'[k].events = pfds[k].events
            /\ k > fd_count /\ k <= fd_count' => pfds'[k].fd # 0 /\ pfds'[k].events = {"POLLIN"}
  BY <1>1, <1>3, AccepteSuit
<1>9. /\ etape' \in {"attend", "scan"} /\ i' \in 0..MAX_POLL
      /\ EnBalayage' <=> etape' = "scan"
      /\ etape' = "scan" => i' > 0 /\ pfds'[i'].revents # {}
      /\ \A j \in 2..MAX_POLL : pfds'[j].revents # {} => etape' = "scan" /\ i' <= j
  <2>1. 2 \in Nat \ {0} /\ Passe(2, MAX_POLL)
    BY <1>1, <1>6
  <2>. QED BY <2>1, PassePoll
<1>10. Types' /\ Propres' /\ (Depart' <=> Depart)
  BY <1>7, <1>9 DEF Types, Propres, Etapes, Depart
<1>11. fd_count' \in 1..MAX_POLL /\ fd_count' \in Int
  BY <1>3, <1>7
<1>12. \A k \in 2..fd_count : Sien(k) => Sien(k)'
  <2>. SUFFICES ASSUME NEW k \in 2..fd_count, Sien(k) PROVE Sien(k)'
    OBVIOUS
  <2>1. pfds'[k].fd = pfds[k].fd /\ prises'[pfds[k].fd] = prises[pfds[k].fd]
    <3>1. k \in 1..MAX_POLL /\ k \in 1..fd_count
      BY <1>3, <1>4
    <3>. QED BY <1>8, <3>1
  <2>. QED BY <1>7, <2>1 DEF Sien
<1>13. ASSUME NEW k \in 2..fd_count'
       PROVE  /\ pfds'[k].events \in {{"POLLIN"}, {"POLLOUT"}}
              /\ "POLLOUT" \in pfds'[k].events => Sien(k)'
  <2>1. k \in 1..MAX_POLL /\ k \in Int /\ k <= fd_count'
    BY <1>3, <1>11
  <2>2. CASE k <= fd_count
    <3>1. k \in 2..fd_count /\ k \in 1..fd_count
      BY <1>3, <2>1, <2>2
    <3>2. pfds'[k].events = pfds[k].events
      BY <1>8, <2>1, <3>1
    <3>. QED BY <1>4, <1>12, <3>1, <3>2
  <2>3. CASE k > fd_count
    BY <1>8, <2>1, <2>3
  <2>. QED BY <1>3, <2>1, <2>2, <2>3
<1>14. ASSUME NEW k \in 2..MAX_POLL, pfds'[k].revents # {}
       PROVE  pfds'[k].fd # 0 /\ (k > fd_count' => Depart')
  <2>1. k \in 1..MAX_POLL /\ pfds[k].revents # {} /\ k \in Int
    BY <1>3, <1>5, <1>8, <1>14
  <2>2. pfds[k].fd # 0 /\ (k > fd_count => Depart)
    BY <1>5, <2>1
  <2>3. k > fd_count' => k > fd_count
    BY <1>3, <1>7, <2>1
  <2>4. k \in 1..fd_count \/ k > fd_count' \/ (k > fd_count /\ k <= fd_count')
    BY <1>3, <1>11, <2>1
  <2>5. pfds'[k].fd # 0
    BY <1>8, <2>1, <2>2, <2>4
  <2>. QED BY <1>10, <2>2, <2>3, <2>5
<1>15. ASSUME NEW k \in 2..MAX_POLL, pfds'[k].revents # {}, "POLLIN" \notin pfds'[k].revents,
              buff_client'[k] # <<>>
       PROVE  EnBalayage' /\ k >= i' /\ Sien(k)' /\ ~(k > fd_count')
  <2>1. k \in 1..MAX_POLL /\ k \in Int
    BY <1>3
  <2>2. pfds[k].revents # {} /\ "POLLIN" \notin pfds[k].revents /\ buff_client[k] # <<>>
    BY <1>7, <1>8, <1>15, <2>1
  <2>3. Sien(k) /\ ~(k > fd_count)
    BY <1>5, <1>6, <2>2
  <2>4. k \in 2..fd_count /\ ~(k > fd_count')
    BY <1>3, <1>7, <2>1, <2>3
  <2>5. etape' = "scan" /\ i' <= k /\ i' \in Int
    BY <1>9, <1>15
  <2>. QED BY <1>9, <1>12, <2>1, <2>3, <2>4, <2>5
<1>16. pfds'[1].events = {"POLLIN"} /\ pfds'[1].revents \subseteq {"POLLIN"} /\ pfds'[1].fd = 0
  <2>1. 1 \in 1..fd_count
    BY <1>3
  <2>. QED BY <1>3, <1>8, <2>1
<1>17. EntreesPoll'
  BY <1>7, <1>11, <1>13, <1>14, <1>15, <1>16, FaitsPollApres
<1>18. TypesPoll'
  <2>1. buff_client' \in [1..MAX_POLL -> Seq(Pieces)]
    BY <1>1, <1>7 DEF TypesPoll
  <2>. QED BY <1>7, <1>9, <1>16, <2>1 DEF TypesPoll, Fiches, listener
<1>. QED BY <1>9, <1>10, <1>17, <1>18 DEF AccordPoll

\* The scan is at an entry of the table; what is due there is what it was.
LEMMA TableReste ==
  ASSUME table' = table, prises' = prises, programme # "serEcho", programme' = programme, lien' = lien, i' = i,
         etape \in {"scan", "lit"}, EnBalayage', TypesPoll, etape' # "ecrit"
  PROVE  /\ TypesPoll'
         /\ EntreesPoll => EntreesPoll'
         /\ Condamne => Condamne'
<1>1. pfds' = pfds /\ fd_count' = fd_count /\ buff_client' = buff_client
  BY DEF table
<1>2. \A k : Sien(k) => Sien(k)'
  BY <1>1 DEF Sien
<1>3. Depart => Depart'
  BY DEF Depart
<1>4. Exacte => Exacte'
  BY <1>1, ExactePollReste
<1>5. i > 0 /\ i' > 0 /\ EnBalayage
  BY DEF TypesPoll, EnBalayage
<1>6. TypesPoll'
  BY <1>1, <1>5 DEF TypesPoll
<1>7. EntreesPoll => EntreesPoll'
  BY <1>1, <1>2, <1>3, <1>4, <1>5 DEF EntreesPoll
<1>8. Condamne => Condamne'
  BY <1>1, <1>3 DEF Condamne
<1>. QED BY <1>6, <1>7, <1>8

LEMMA CommenceEchoJuste ==
  ASSUME Types, Propres, AccordPoll, programme # "serEcho", programme' = programme, CommenceEcho
  PROVE  Types' /\ Propres' /\ AccordPoll'
<1>1. /\ etape = "scan" /\ etape' = "lit" /\ buffer' = <<>> /\ UNCHANGED <<clients, prises, i, table>>
      /\ "POLLIN" \in pfds[i].revents /\ pfds[i].fd # 0
  BY DEF CommenceEcho, Lit, EstListener, listener
<1>2. <<>> \in Seq(Pieces) /\ Len(<<>>) < SIZE /\ \A c : DeLui(<<>>, c)
  BY VideDeLui, Constantes
<1>3. lien' = lien /\ pfds' = pfds /\ EnBalayage /\ EnBalayage' /\ TypesPoll
  BY <1>1 DEF clients, table, EnBalayage, AccordPoll
<1>4. Types' /\ Propres'
  BY <1>1, <1>2 DEF Types, Propres, clients, Etapes
<1>5. TypesPoll' /\ (EntreesPoll => EntreesPoll') /\ (Condamne => Condamne')
  BY <1>1, <1>3, TableReste
<1>. QED BY <1>1, <1>2, <1>3, <1>4, <1>5 DEF AccordPoll

LEMMA MeurtEnEnvoyantJuste ==
  ASSUME Types, Propres, AccordPoll, programme # "serEcho", programme' = programme, MeurtEnEnvoyant
  PROVE  Types' /\ Propres' /\ AccordPoll'
<1>1. etape = "scan" /\ etape' = "mort" /\ UNCHANGED <<clients, prises, i, buffer, table>>
  BY DEF MeurtEnEnvoyant, AEnvoyer
<1>2. lien' = lien /\ pfds' = pfds /\ EnBalayage /\ EnBalayage' /\ TypesPoll
  BY <1>1 DEF clients, table, EnBalayage, AccordPoll
<1>3. Types' /\ Propres'
  BY <1>1 DEF Types, Propres, clients, Etapes
<1>4. TypesPoll' /\ (EntreesPoll => EntreesPoll') /\ (Condamne => Condamne')
  BY <1>1, <1>2, TableReste
<1>. QED BY <1>1, <1>2, <1>3, <1>4 DEF AccordPoll

LEMMA RecoitEchoJuste ==
  ASSUME Types, Propres, AccordPoll, programme # "serEcho", programme' = programme, RecoitEcho
  PROVE  Types' /\ Propres' /\ AccordPoll'
<1>. DEFINE f == pfds[i].fd
<1>1. /\ etape = "lit" /\ DesOctets(f) /\ Prend(f) /\ buffer' = buffer \o Lu(f)
      /\ lien' = lien /\ envoye' = envoye /\ echo' = echo /\ attente' = attente /\ prises' = prises
      /\ fd_count' = fd_count
      /\ TypesPoll /\ "POLLIN" \in pfds[i].revents /\ f # 0 /\ DeLui(buffer, prises[f])
      /\ EnBalayage
  BY DEF RecoitEcho, AccordPoll, EnBalayage
<1>2. prises[f] # Personne
  BY <1>1 DEF DesOctets
<1>3. EntreesPoll
  BY <1>1, <1>2 DEF AccordPoll, Condamne
<1>4. /\ Exacte /\ fd_count \in 1..MAX_POLL /\ fd_count \in Int /\ MAX_POLL \in Int
      /\ 1 \in 1..MAX_POLL /\ pfds[1].fd = 0
      /\ pfds[1].events = {"POLLIN"} /\ pfds[1].revents \subseteq {"POLLIN"}
      /\ pfds \in [1..MAX_POLL -> Fiches] /\ buff_client \in [1..MAX_POLL -> Seq(Pieces)]
  BY <1>1, <1>3, FaitsPoll
<1>5. \A k \in 2..fd_count : /\ k \in 2..MAX_POLL
                             /\ pfds[k].events \in {{"POLLIN"}, {"POLLOUT"}}
                             /\ "POLLOUT" \in pfds[k].events => Sien(k)
  BY <1>1, <1>3, FaitsPoll
<1>6. \A k \in 2..MAX_POLL :
              /\ k \in 1..MAX_POLL
              /\ pfds[k].revents # {} => pfds[k].fd # 0 /\ (k > fd_count => Depart)
              /\ pfds[k].revents # {} /\ "POLLIN" \notin pfds[k].revents /\ buff_client[k] # <<>> =>
                    /\ EnBalayage /\ k >= i /\ Sien(k)
                    /\ k > fd_count => i > 1 /\ fd_count > 1 /\ pfds[k].fd = pfds[fd_count].fd
  BY <1>1, <1>3, FaitsPoll
<1>7. i \in 2..MAX_POLL /\ i \in 1..MAX_POLL
  <2>1. i \in 1..MAX_POLL
    BY <1>1 DEF TypesPoll
  <2>2. i # 1
    BY <1>1, <1>4
  <2>. QED BY <2>1, <2>2
<1>8. f \in Fds
  <2>1. pfds[i] \in Fiches
    BY <1>4, <1>7
  <2>. QED BY <1>1, <2>1 DEF Fiches
<1>9. flux' \in [Clients -> Seq(Pieces)] /\ \A c \in Clients : DeLui(flux'[c], c)
  BY <1>1, <1>2, <1>8, PrendSien
<1>10. buffer' \in Seq(Pieces) /\ Len(buffer') < SIZE /\ DeLui(buffer', prises[f])
  BY <1>1, <1>2, <1>8, RecuSien
<1>11. Propres' /\ (Depart' <=> Depart)
  BY <1>1, <1>9 DEF Propres, Depart
<1>12. CASE ~FinDeLigne(buffer')
  <2>1. /\ buff_client' = buff_client /\ pfds' = pfds /\ etape' = etape /\ i' = i
    BY <1>12 DEF RecoitEcho
  <2>2. Types'
    BY <1>1, <1>9, <1>10, <2>1 DEF Types
  <2>3. table' = table /\ EnBalayage'
    BY <1>1, <2>1 DEF table, EnBalayage
  <2>4. TypesPoll' /\ EntreesPoll'
    BY <1>1, <1>3, <2>1, <2>3, TableReste
  <2>. QED BY <1>1, <1>10, <1>11, <2>1, <2>2, <2>4 DEF AccordPoll
<1>13. CASE FinDeLigne(buffer')
  <2>1. /\ buff_client' = [buff_client EXCEPT ![i] = buffer']
        /\ pfds' = [pfds EXCEPT ![i].events = {"POLLOUT"}] /\ Passe(i + 1, MAX_POLL)
    BY <1>13 DEF RecoitEcho, ApresLecture
  <2>2. /\ pfds' \in [1..MAX_POLL -> Fiches] /\ buff_client' \in [1..MAX_POLL -> Seq(Pieces)]
    <3>1. pfds[i] \in Fiches /\ {"POLLOUT"} \in SUBSET Conditions
      BY <1>4, <1>7 DEF Conditions
    <3>2. [pfds[i] EXCEPT !.events = {"POLLOUT"}] \in Fiches
      BY <3>1 DEF Fiches
    <3>3. pfds' = [pfds EXCEPT ![i] = [pfds[i] EXCEPT !.events = {"POLLOUT"}]]
      BY <1>4, <1>7, <2>1
    <3>4. pfds' \in [1..MAX_POLL -> Fiches]
      BY <1>4, <1>7, <3>2, <3>3
    <3>. QED BY <1>4, <1>7, <1>10, <2>1, <3>4
  <2>3. \A k \in 1..MAX_POLL : /\ pfds'[k].fd = pfds[k].fd /\ pfds'[k].revents = pfds[k].revents
                               /\ k # i => pfds'[k].events = pfds[k].events
                               /\ k # i => buff_client'[k] = buff_client[k]
    BY <1>4, <1>7, <2>1 DEF Fiches
  <2>4. pfds'[i].events = {"POLLOUT"} /\ buff_client'[i] = buffer'
    BY <1>4, <1>7, <2>1 DEF Fiches
  <2>5. /\ etape' \in {"attend", "scan"} /\ i' \in 0..MAX_POLL
        /\ EnBalayage' <=> etape' = "scan"
        /\ etape' = "scan" => i' \in i + 1..MAX_POLL /\ i' > 0 /\ pfds'[i'].revents # {}
        /\ \A j \in i + 1..MAX_POLL : pfds'[j].revents # {} => etape' = "scan" /\ i' <= j
    <3>1. i + 1 \in Nat \ {0}
      BY <1>7
    <3>. QED BY <2>1, <3>1, PassePoll
  <2>6. Types'
    BY <1>1, <1>9, <1>10, <2>5 DEF Types, Etapes
  <2>7. Exacte'
    <3>1. \A k \in 2..fd_count : pfds'[k].fd = pfds[k].fd
      BY <1>5, <1>6, <2>3
    <3>. QED BY <1>1, <1>4, <3>1, ExactePollReste
  <2>8. ASSUME NEW k \in 1..MAX_POLL, k # i, Sien(k) PROVE Sien(k)'
    BY <1>1, <2>3, <2>8 DEF Sien
  <2>9. \A k \in 1..MAX_POLL : k = i => Sien(k)'
    <3>1. pfds'[i].fd = f
      BY <1>7, <2>3
    <3>. QED BY <1>1, <1>10, <2>4, <3>1 DEF Sien
  <2>10. ASSUME NEW k \in 2..fd_count'
         PROVE  /\ pfds'[k].events \in {{"POLLIN"}, {"POLLOUT"}}
                /\ "POLLOUT" \in pfds'[k].events => Sien(k)'
    <3>1. k \in 2..fd_count /\ k \in 1..MAX_POLL
      BY <1>1, <1>5, <1>6
    <3>2. CASE k = i
      BY <2>4, <2>9, <3>1, <3>2
    <3>3. CASE k # i
      <4>1. pfds'[k].events = pfds[k].events
        BY <2>3, <3>1, <3>3
      <4>. QED BY <1>5, <2>8, <3>1, <3>3, <4>1
    <3>. QED BY <3>2, <3>3
  <2>11. ASSUME NEW k \in 2..MAX_POLL, pfds'[k].revents # {}
         PROVE  pfds'[k].fd # 0 /\ (k > fd_count' => Depart')
    BY <1>1, <1>6, <1>11, <2>3, <2>11
  <2>12. ASSUME NEW k \in 2..MAX_POLL, pfds'[k].revents # {}, "POLLIN" \notin pfds'[k].revents,
                buff_client'[k] # <<>>
         PROVE  /\ EnBalayage' /\ k >= i' /\ Sien(k)'
                /\ k > fd_count' => i' > 1 /\ fd_count' > 1 /\ pfds'[k].fd = pfds'[fd_count'].fd
    <3>1. k \in 1..MAX_POLL /\ pfds[k].revents # {} /\ "POLLIN" \notin pfds[k].revents
      BY <1>6, <2>3, <2>12
    <3>2. k # i /\ buff_client[k] # <<>>
      BY <1>1, <2>3, <2>12, <3>1
    <3>3. /\ k >= i /\ Sien(k)
          /\ k > fd_count => fd_count > 1 /\ pfds[k].fd = pfds[fd_count].fd
      BY <1>6, <3>1, <3>2
    <3>4. k \in i + 1..MAX_POLL
      BY <1>4, <1>7, <3>1, <3>2, <3>3
    <3>5. etape' = "scan" /\ i' <= k /\ i' > 1 /\ i' \in Int
      BY <1>7, <2>5, <2>12, <3>4
    <3>6. Sien(k)'
      BY <2>8, <3>1, <3>2, <3>3
    <3>7. pfds'[k].fd = pfds[k].fd /\ pfds'[fd_count].fd = pfds[fd_count].fd
      BY <1>4, <2>3, <3>1
    <3>. QED BY <1>1, <2>5, <3>1, <3>3, <3>5, <3>6, <3>7
  <2>13. pfds'[1].events = {"POLLIN"} /\ pfds'[1].revents \subseteq {"POLLIN"} /\ pfds'[1].fd = 0
    <3>1. 1 # i
      BY <1>7
    <3>. QED BY <1>4, <2>3, <3>1
  <2>14. EntreesPoll'
    <3>1. fd_count' \in 1..MAX_POLL
      BY <1>1, <1>4
    <3>. QED BY <2>7, <2>10, <2>11, <2>12, <2>13, <3>1, FaitsPollApres
  <2>15. TypesPoll'
    BY <2>2, <2>5, <2>13 DEF TypesPoll, Fiches, listener
  <2>. QED BY <1>11, <2>5, <2>6, <2>14, <2>15 DEF AccordPoll
<1>. QED BY <1>12, <1>13

LEMMA EnvoiJuste ==
  ASSUME Types, Propres, AccordPoll, programme # "serEcho", programme' = programme, Envoi
  PROVE  Types' /\ Propres' /\ AccordPoll'
<1>. DEFINE f == pfds[i].fd
<1>1. /\ etape = "scan" /\ "POLLIN" \notin pfds[i].revents /\ pfds[i].revents # {} /\ EnBalayage
      /\ envoye' = envoye /\ flux' = flux /\ attente' = attente /\ prises' = prises
      /\ buffer' = buffer /\ fd_count' = fd_count
      /\ buff_client' = [buff_client EXCEPT ![i] = <<>>]
      /\ pfds' = [pfds EXCEPT ![i].events = {"POLLIN"}] /\ Passe(i + 1, MAX_POLL)
      /\ TypesPoll
  BY DEF Envoi, AEnvoyer, AccordPoll, EnBalayage, ApresEcho
<1>2. EntreesPoll
  BY <1>1 DEF AccordPoll, Condamne
<1>3. /\ Exacte /\ fd_count \in 1..MAX_POLL /\ fd_count \in Int /\ MAX_POLL \in Int
      /\ 1 \in 1..MAX_POLL /\ pfds[1].fd = 0
      /\ pfds[1].events = {"POLLIN"} /\ pfds[1].revents \subseteq {"POLLIN"}
      /\ pfds \in [1..MAX_POLL -> Fiches] /\ buff_client \in [1..MAX_POLL -> Seq(Pieces)]
  BY <1>1, <1>2, FaitsPoll
<1>4. \A k \in 2..fd_count : /\ k \in 2..MAX_POLL
                             /\ pfds[k].events \in {{"POLLIN"}, {"POLLOUT"}}
                             /\ "POLLOUT" \in pfds[k].events => Sien(k)
  BY <1>1, <1>2, FaitsPoll
<1>5. \A k \in 2..MAX_POLL :
              /\ k \in 1..MAX_POLL
              /\ pfds[k].revents # {} => pfds[k].fd # 0 /\ (k > fd_count => Depart)
              /\ pfds[k].revents # {} /\ "POLLIN" \notin pfds[k].revents /\ buff_client[k] # <<>> =>
                    /\ EnBalayage /\ k >= i /\ Sien(k)
                    /\ k > fd_count => i > 1 /\ fd_count > 1 /\ pfds[k].fd = pfds[fd_count].fd
  BY <1>1, <1>2, FaitsPoll
<1>6. i \in 2..MAX_POLL /\ i \in 1..MAX_POLL
  <2>1. i \in 1..MAX_POLL
    BY <1>1 DEF TypesPoll
  <2>2. i # 1
    BY <1>1, <1>3
  <2>. QED BY <2>1, <2>2
<1>7. /\ pfds[i] \in Fiches /\ f \in Fds /\ buff_client[i] \in Seq(Pieces)
  <2>1. pfds[i] \in Fiches /\ buff_client[i] \in Seq(Pieces)
    BY <1>3, <1>6
  <2>2. f # 0
    BY <1>1, <1>5, <1>6
  <2>. QED BY <2>1, <2>2 DEF Fiches
<1>8. /\ lien' \in [Clients -> DOMAIN Suite] /\ echo' \in [Clients -> Seq(Pieces)]
      /\ \A c \in Clients : DeLui(echo'[c], c)
      /\ Depart => Depart'
  <2>1. CASE buff_client[i] = <<>>
    <3>1. lien' = lien /\ echo' = echo
      BY <2>1 DEF Envoi
    <3>. QED BY <3>1 DEF Types, Propres, Depart
  <2>2. CASE buff_client[i] # <<>>
    <3>1. send(f, buff_client[i])
      BY <2>2 DEF Envoi
    <3>2. DeLui(buff_client[i], prises[f])
      BY <1>1, <1>5, <1>6, <2>2 DEF Sien
    <3>. QED BY <1>7, <3>1, <3>2, SendSuit
  <2>. QED BY <2>1, <2>2
<1>9. /\ etape' \in {"attend", "scan"} /\ i' \in 0..MAX_POLL
      /\ EnBalayage' <=> etape' = "scan"
      /\ etape' = "scan" => i' \in i + 1..MAX_POLL /\ i' > 0 /\ pfds'[i'].revents # {}
      /\ \A j \in i + 1..MAX_POLL : pfds'[j].revents # {} => etape' = "scan" /\ i' <= j
  <2>1. i + 1 \in Nat \ {0}
    BY <1>6
  <2>. QED BY <1>1, <2>1, PassePoll
<1>10. Types' /\ Propres'
  BY <1>1, <1>8, <1>9 DEF Types, Propres, Etapes
<1>11. pfds' \in [1..MAX_POLL -> Fiches]
  <2>1. {"POLLIN"} \in SUBSET Conditions
    BY DEF Conditions
  <2>2. [pfds[i] EXCEPT !.events = {"POLLIN"}] \in Fiches
    BY <1>7, <2>1 DEF Fiches
  <2>3. pfds' = [pfds EXCEPT ![i] = [pfds[i] EXCEPT !.events = {"POLLIN"}]]
    BY <1>1, <1>3, <1>6
  <2>. QED BY <1>3, <1>6, <2>2, <2>3
<1>12. buff_client' \in [1..MAX_POLL -> Seq(Pieces)] /\ buff_client'[i] = <<>>
  BY <1>1, <1>3, <1>6, VideDeLui
<1>13. \A k \in 1..MAX_POLL : /\ pfds'[k].fd = pfds[k].fd /\ pfds'[k].revents = pfds[k].revents
                              /\ k # i => pfds'[k].events = pfds[k].events
                              /\ k # i => buff_client'[k] = buff_client[k]
  BY <1>1, <1>3, <1>6 DEF Fiches
<1>14. pfds'[i].events = {"POLLIN"}
  BY <1>1, <1>3, <1>6, <1>7 DEF Fiches
<1>15. Exacte'
  <2>1. \A k \in 2..fd_count : pfds'[k].fd = pfds[k].fd
    BY <1>4, <1>5, <1>13
  <2>. QED BY <1>1, <1>3, <2>1, ExactePollReste
<1>16. ASSUME NEW k \in 1..MAX_POLL, k # i, Sien(k) PROVE Sien(k)'
  BY <1>1, <1>13, <1>16 DEF Sien
<1>17. ASSUME NEW k \in 2..fd_count'
       PROVE  /\ pfds'[k].events \in {{"POLLIN"}, {"POLLOUT"}}
              /\ "POLLOUT" \in pfds'[k].events => Sien(k)'
  <2>1. k \in 2..fd_count /\ k \in 1..MAX_POLL
    BY <1>1, <1>4, <1>5
  <2>2. CASE k = i
    BY <1>14, <2>2
  <2>3. CASE k # i
    <3>1. pfds'[k].events = pfds[k].events
      BY <1>13, <2>1, <2>3
    <3>. QED BY <1>4, <1>16, <2>1, <2>3, <3>1
  <2>. QED BY <2>2, <2>3
<1>18. ASSUME NEW k \in 2..MAX_POLL, pfds'[k].revents # {}
       PROVE  pfds'[k].fd # 0 /\ (k > fd_count' => Depart')
  BY <1>1, <1>5, <1>8, <1>13, <1>18
<1>19. ASSUME NEW k \in 2..MAX_POLL, pfds'[k].revents # {}, "POLLIN" \notin pfds'[k].revents,
              buff_client'[k] # <<>>
       PROVE  /\ EnBalayage' /\ k >= i' /\ Sien(k)'
              /\ k > fd_count' => i' > 1 /\ fd_count' > 1 /\ pfds'[k].fd = pfds'[fd_count'].fd
  <2>1. k \in 1..MAX_POLL /\ pfds[k].revents # {} /\ "POLLIN" \notin pfds[k].revents
    BY <1>5, <1>13, <1>19
  <2>2. k # i /\ buff_client[k] # <<>>
    BY <1>12, <1>13, <1>19, <2>1
  <2>3. /\ k >= i /\ Sien(k)
        /\ k > fd_count => fd_count > 1 /\ pfds[k].fd = pfds[fd_count].fd
    BY <1>5, <2>1, <2>2
  <2>4. k \in i + 1..MAX_POLL
    BY <1>3, <1>6, <2>1, <2>2, <2>3
  <2>5. etape' = "scan" /\ i' <= k /\ i' > 1 /\ i' \in Int
    BY <1>6, <1>9, <1>19, <2>4
  <2>6. Sien(k)'
    BY <1>16, <2>1, <2>2, <2>3
  <2>7. pfds'[k].fd = pfds[k].fd /\ pfds'[fd_count].fd = pfds[fd_count].fd
    BY <1>3, <1>13, <2>1
  <2>. QED BY <1>1, <1>9, <2>1, <2>3, <2>5, <2>6, <2>7
<1>20. pfds'[1].events = {"POLLIN"} /\ pfds'[1].revents \subseteq {"POLLIN"} /\ pfds'[1].fd = 0
  <2>1. 1 # i
    BY <1>6
  <2>. QED BY <1>3, <1>13, <2>1
<1>21. EntreesPoll'
  <2>1. fd_count' \in 1..MAX_POLL
    BY <1>1, <1>3
  <2>. QED BY <1>15, <1>17, <1>18, <1>19, <1>20, <2>1, FaitsPollApres
<1>22. TypesPoll'
  BY <1>9, <1>11, <1>12, <1>20 DEF TypesPoll, Fiches, listener
<1>. QED BY <1>9, <1>10, <1>21, <1>22 DEF AccordPoll

\* What a departure does whatever entry it is at.
LEMMA RetireSuit ==
  ASSUME Types, Propres, AccordPoll, programme' = programme, Retire
  PROVE  /\ TypesPoll /\ EnBalayage /\ i \in 2..MAX_POLL /\ pfds[i].fd \in Fds
         /\ "POLLIN" \in pfds[i].revents
         /\ pfds \in [1..MAX_POLL -> Fiches] /\ buff_client \in [1..MAX_POLL -> Seq(Pieces)]
         /\ close(pfds[i].fd) /\ Passe(i, MAX_POLL) /\ Reorganise /\ fd_count' = Compte(fd_count)
         /\ prises' \in [Fds -> Clients \cup {Personne}] /\ prises'[pfds[i].fd] = Personne
         /\ \A g \in Fds : g # pfds[i].fd => prises'[g] = prises[g]
         /\ Depart => Depart'
         /\ prises[pfds[i].fd] # Personne => Depart'
         /\ etape' \in {"attend", "scan"} /\ i' \in 0..MAX_POLL
         /\ EnBalayage' <=> etape' = "scan"
         /\ etape' = "scan" => i' \in i..MAX_POLL /\ i' > 0 /\ pfds'[i'].revents # {}
         /\ \A j \in i..MAX_POLL : pfds'[j].revents # {} => etape' = "scan" /\ i' <= j
         /\ Types' /\ Propres'
<1>. DEFINE f == pfds[i].fd
<1>1. /\ etape = "lit" /\ TypesPoll /\ EnBalayage /\ "POLLIN" \in pfds[i].revents /\ f # 0
      /\ close(f) /\ Reorganise /\ fd_count' = Compte(fd_count) /\ Passe(i, MAX_POLL)
      /\ envoye' = envoye /\ flux' = flux /\ echo' = echo /\ attente' = attente /\ buffer' = buffer
  BY DEF Retire, AccordPoll, EnBalayage
<1>2. /\ pfds \in [1..MAX_POLL -> Fiches] /\ buff_client \in [1..MAX_POLL -> Seq(Pieces)]
      /\ pfds[1].fd = 0 /\ i \in 1..MAX_POLL
  BY <1>1 DEF TypesPoll, Fiches, listener
<1>3. i \in 2..MAX_POLL
  <2>1. i # 1
    BY <1>1, <1>2
  <2>. QED BY <1>2, <2>1
<1>4. f \in Fds
  <2>1. pfds[i] \in Fiches
    BY <1>2
  <2>. QED BY <1>1, <2>1 DEF Fiches
<1>5. /\ prises' \in [Fds -> Clients \cup {Personne}] /\ lien' \in [Clients -> DOMAIN Suite]
      /\ prises'[f] = Personne /\ \A g \in Fds : g # f => prises'[g] = prises[g]
      /\ Depart => Depart'
      /\ prises[f] # Personne => Depart'
  BY <1>1, <1>4, CloseSuit
<1>6. /\ etape' \in {"attend", "scan"} /\ i' \in 0..MAX_POLL
      /\ EnBalayage' <=> etape' = "scan"
      /\ etape' = "scan" => i' \in i..MAX_POLL /\ i' > 0 /\ pfds'[i'].revents # {}
      /\ \A j \in i..MAX_POLL : pfds'[j].revents # {} => etape' = "scan" /\ i' <= j
  <2>1. i \in Nat \ {0}
    BY <1>3
  <2>. QED BY <1>1, <2>1, PassePoll
<1>7. Types' /\ Propres'
  BY <1>1, <1>5, <1>6 DEF Types, Propres, Etapes
<1>. QED BY <1>1, <1>2, <1>3, <1>4, <1>5, <1>6, <1>7

\* A departure at the last entry or past it: the entry is looked at again.
LEMMA RetireFinJuste ==
  ASSUME Types, Propres, AccordPoll, programme # "serEcho", programme' = programme, Retire,
         fd_count \in (-Plancher)..MAX_POLL, i >= fd_count, Depart'
  PROVE  AccordPoll'
<1>. DEFINE f == pfds[i].fd
<1>1. /\ TypesPoll /\ i \in 2..MAX_POLL /\ f \in Fds /\ "POLLIN" \in pfds[i].revents
      /\ pfds \in [1..MAX_POLL -> Fiches] /\ buff_client \in [1..MAX_POLL -> Seq(Pieces)]
      /\ Reorganise /\ fd_count' = Compte(fd_count) /\ prises'[f] = Personne
  BY RetireSuit
<1>2. /\ etape' \in {"attend", "scan"} /\ i' \in 0..MAX_POLL
      /\ EnBalayage' <=> etape' = "scan"
      /\ etape' = "scan" => i' \in i..MAX_POLL /\ i' > 0 /\ pfds'[i'].revents # {}
      /\ \A j \in i..MAX_POLL : pfds'[j].revents # {} => etape' = "scan" /\ i' <= j
  BY RetireSuit
<1>3. MAX_POLL \in Int /\ i \in Int /\ fd_count \in Int /\ Plancher \in Nat /\ 1 \in 1..MAX_POLL
  BY <1>1, Constantes
<1>4. \A k \in i..(fd_count - 1) : FALSE
  BY <1>3
<1>5. pfds' = pfds /\ buff_client' = buff_client
  <2>1. /\ pfds' = [k \in 1..MAX_POLL |-> pfds[IF k \in i..(fd_count - 1) THEN k + 1 ELSE k]]
        /\ buff_client' = [k \in 1..MAX_POLL |-> buff_client[IF k \in i..(fd_count - 1) THEN k + 1 ELSE k]]
    BY <1>1 DEF Reorganise
  <2>2. /\ pfds' = [k \in 1..MAX_POLL |-> pfds[k]]
        /\ buff_client' = [k \in 1..MAX_POLL |-> buff_client[k]]
    BY <1>4, <2>1, Zenon
  <2>. QED BY <1>1, <2>2, Zenon
<1>6. i' = i /\ etape' = "scan"
  <2>1. i \in i..MAX_POLL /\ pfds'[i].revents # {}
    BY <1>1, <1>3, <1>5
  <2>2. etape' = "scan" /\ i' <= i
    BY <1>2, <2>1
  <2>. QED BY <1>2, <1>3, <2>2
<1>7. fd_count' \in (-Plancher)..MAX_POLL /\ fd_count' <= fd_count
  BY <1>1, <1>3 DEF Compte
<1>8. Condamne'
  <2>1. i' > 1 /\ i' >= fd_count'
    BY <1>1, <1>3, <1>6, <1>7
  <2>2. pfds'[i'].fd = f /\ "POLLIN" \in pfds'[i'].revents /\ f # 0
    BY <1>1, <1>5, <1>6, Descripteurs
  <2>3. EnBalayage'
    BY <1>2, <1>6
  <2>4. prises'[pfds'[i'].fd] = Personne
    BY <1>1, <2>2
  <2>. QED BY <1>7, <2>1, <2>2, <2>3, <2>4 DEF Condamne
<1>9. TypesPoll'
  BY <1>1, <1>2, <1>5 DEF TypesPoll
<1>. QED BY <1>2, <1>8, <1>9 DEF AccordPoll

\* A departure before the last entry: those after it move by one, and the last
\* one stays where it was too.
LEMMA RetireMilieuJuste ==
  ASSUME Types, Propres, AccordPoll, programme # "serEcho", programme' = programme, Retire,
         EntreesPoll, i < fd_count
  PROVE  AccordPoll'
<1>. DEFINE f == pfds[i].fd
<1>1. /\ TypesPoll /\ EnBalayage /\ i \in 2..MAX_POLL /\ f \in Fds
      /\ Reorganise /\ fd_count' = Compte(fd_count)
      /\ prises' \in [Fds -> Clients \cup {Personne}] /\ prises'[f] = Personne
      /\ \A g \in Fds : g # f => prises'[g] = prises[g]
      /\ prises[f] # Personne => Depart'
  BY RetireSuit
<1>2. /\ etape' \in {"attend", "scan"} /\ i' \in 0..MAX_POLL
      /\ EnBalayage' <=> etape' = "scan"
      /\ etape' = "scan" => i' \in i..MAX_POLL /\ i' > 0 /\ pfds'[i'].revents # {}
      /\ \A j \in i..MAX_POLL : pfds'[j].revents # {} => etape' = "scan" /\ i' <= j
  BY RetireSuit
<1>3. /\ Exacte /\ fd_count \in 1..MAX_POLL /\ fd_count \in Int /\ MAX_POLL \in Int
      /\ 1 \in 1..MAX_POLL /\ pfds[1].fd = 0
      /\ pfds[1].events = {"POLLIN"} /\ pfds[1].revents \subseteq {"POLLIN"}
      /\ pfds \in [1..MAX_POLL -> Fiches] /\ buff_client \in [1..MAX_POLL -> Seq(Pieces)]
  BY <1>1, FaitsPoll
<1>4. \A k \in 2..fd_count : /\ k \in 2..MAX_POLL /\ k \in 1..MAX_POLL
                             /\ pfds[k].fd \in Fds /\ prises[pfds[k].fd] # Personne
                             /\ pfds[k].events \in {{"POLLIN"}, {"POLLOUT"}}
                             /\ "POLLOUT" \in pfds[k].events => Sien(k)
  BY <1>1, FaitsPoll
<1>5. \A k \in 2..MAX_POLL :
              /\ k \in 1..MAX_POLL
              /\ pfds[k].revents # {} => pfds[k].fd # 0
              /\ pfds[k].revents # {} /\ "POLLIN" \notin pfds[k].revents /\ buff_client[k] # <<>> =>
                    /\ EnBalayage /\ k >= i /\ Sien(k)
                    /\ k > fd_count => i > 1 /\ fd_count > 1 /\ pfds[k].fd = pfds[fd_count].fd
  BY <1>1, FaitsPoll
<1>6. i \in 2..fd_count /\ i \in Int /\ i > 1
  BY <1>1, <1>3
<1>7. Depart'
  BY <1>1, <1>4, <1>6
<1>8. fd_count' = fd_count - 1 /\ fd_count' \in 2..MAX_POLL
  <2>1. fd_count > -Plancher
    BY <1>3, Constantes
  <2>. QED BY <1>1, <1>3, <1>6, <2>1 DEF Compte
<1>. DEFINE de(k) == IF k \in i..(fd_count - 1) THEN k + 1 ELSE k
<1>9. /\ pfds' = [k \in 1..MAX_POLL |-> pfds[de(k)]]
      /\ buff_client' = [k \in 1..MAX_POLL |-> buff_client[de(k)]]
  BY <1>1 DEF Reorganise
<1>10. /\ \A k \in 1..MAX_POLL : de(k) \in 1..MAX_POLL /\ de(k) # i /\ (de(k) >= i => k >= i)
       /\ \A k \in 2..MAX_POLL : de(k) \in 2..MAX_POLL /\ k \in 1..MAX_POLL
       /\ \A k \in 2..fd_count' : de(k) \in 2..fd_count /\ k \in 1..MAX_POLL
       /\ \A k \in 2..MAX_POLL : k > fd_count' => de(k) = k /\ k >= fd_count /\ k \in Int
       /\ \A k \in 2..MAX_POLL : de(k) > fd_count => k = de(k)
       /\ de(fd_count') = fd_count /\ de(1) = 1
  BY <1>3, <1>6, <1>8
<1>11. \A k, l \in 2..fd_count' : de(k) = de(l) => k = l
  BY <1>3, <1>6, <1>8
<1>12. \A k \in 2..fd_count : k # i => \E l \in 2..fd_count' : de(l) = k
  <2>. SUFFICES ASSUME NEW k \in 2..fd_count, k # i PROVE \E l \in 2..fd_count' : de(l) = k
    OBVIOUS
  <2>1. CASE k < i
    <3>1. k \in 2..fd_count' /\ de(k) = k
      BY <1>3, <1>6, <1>8, <2>1
    <3>. QED BY <3>1
  <2>2. CASE k > i
    <3>1. k - 1 \in 2..fd_count' /\ de(k - 1) = k
      BY <1>3, <1>6, <1>8, <2>2
    <3>. QED BY <3>1
  <2>3. k < i \/ k > i
    BY <1>3, <1>6
  <2>. QED BY <2>1, <2>2, <2>3
<1>. HIDE DEF de
<1>13. \A k \in 1..MAX_POLL : pfds'[k] = pfds[de(k)] /\ buff_client'[k] = buff_client[de(k)]
  BY <1>9
<1>14. pfds' \in [1..MAX_POLL -> Fiches] /\ buff_client' \in [1..MAX_POLL -> Seq(Pieces)]
  BY <1>3, <1>9, <1>10
<1>15. /\ \A k, l \in 2..fd_count : pfds[k].fd = pfds[l].fd => k = l
       /\ \A g \in Fds : prises[g] # Personne => \E k \in 2..fd_count : pfds[k].fd = g
  BY <1>3, TablePoll
<1>16. \A k \in 2..fd_count : k # i => pfds[k].fd # f
  BY <1>6, <1>15
<1>17. Exacte'
  <2>1. ASSUME NEW k \in 2..fd_count', NEW l \in 2..fd_count', pfds'[k].fd = pfds'[l].fd PROVE k = l
    <3>1. pfds[de(k)].fd = pfds[de(l)].fd
      BY <1>10, <1>13, <2>1
    <3>2. de(k) = de(l)
      BY <1>10, <1>15, <3>1
    <3>. QED BY <1>11, <3>2
  <2>2. ASSUME NEW k \in 2..fd_count' PROVE pfds'[k].fd \in Fds /\ prises'[pfds'[k].fd] # Personne
    <3>1. de(k) \in 2..fd_count /\ de(k) # i /\ pfds'[k] = pfds[de(k)]
      BY <1>10, <1>13
    <3>2. pfds[de(k)].fd \in Fds /\ pfds[de(k)].fd # f /\ prises[pfds[de(k)].fd] # Personne
      BY <1>4, <1>16, <3>1
    <3>3. prises'[pfds[de(k)].fd] # Personne
      BY <1>1, <3>2
    <3>. QED BY <3>1, <3>2, <3>3
  <2>3. ASSUME NEW g \in Fds, prises'[g] # Personne PROVE \E k \in 2..fd_count' : pfds'[k].fd = g
    <3>1. g # f /\ prises[g] # Personne
      BY <1>1, <2>3
    <3>2. PICK k \in 2..fd_count : pfds[k].fd = g
      BY <1>15, <3>1
    <3>3. PICK l \in 2..fd_count' : de(l) = k
      BY <1>12, <3>1, <3>2
    <3>. QED BY <1>10, <1>13, <3>2, <3>3
  <2>. QED BY <2>1, <2>2, <2>3, TablePollApres
\* What is due at an entry goes with it.
<1>18. ASSUME NEW k \in 1..MAX_POLL, NEW d \in 1..MAX_POLL, d = de(k), Sien(d), pfds[d].fd # f
       PROVE  Sien(k)'
  <2>1. pfds'[k] = pfds[d] /\ buff_client'[k] = buff_client[d]
    BY <1>13, <1>18
  <2>2. pfds[d].fd # 0 /\ DeLui(buff_client[d], prises[pfds[d].fd])
    BY <1>18 DEF Sien
  <2>3. pfds[d].fd \in Fds
    <3>1. pfds[d] \in Fiches
      BY <1>3
    <3>. QED BY <2>2, <3>1 DEF Fiches
  <2>4. prises'[pfds[d].fd] = prises[pfds[d].fd]
    BY <1>1, <1>18, <2>3
  <2>. QED BY <2>1, <2>2, <2>4 DEF Sien
<1>19. ASSUME NEW k \in 2..fd_count'
       PROVE  /\ pfds'[k].events \in {{"POLLIN"}, {"POLLOUT"}}
              /\ "POLLOUT" \in pfds'[k].events => Sien(k)'
  <2>. DEFINE d == de(k)
  <2>1. d \in 2..fd_count /\ d # i /\ k \in 1..MAX_POLL
    BY <1>10
  <2>2. pfds'[k] = pfds[d] /\ d = de(k)
    BY <1>13, <2>1
  <2>. HIDE DEF d
  <2>3. /\ pfds[d].events \in {{"POLLIN"}, {"POLLOUT"}} /\ d \in 1..MAX_POLL
        /\ "POLLOUT" \in pfds[d].events => Sien(d)
    BY <1>4, <2>1
  <2>4. pfds[d].fd # f
    BY <1>16, <2>1
  <2>. QED BY <1>18, <2>1, <2>2, <2>3, <2>4
<1>20. ASSUME NEW k \in 2..MAX_POLL, pfds'[k].revents # {}
       PROVE  pfds'[k].fd # 0 /\ (k > fd_count' => Depart')
  <2>1. de(k) \in 2..MAX_POLL /\ pfds'[k] = pfds[de(k)]
    BY <1>10, <1>13
  <2>. QED BY <1>5, <1>7, <1>20, <2>1
<1>21. ASSUME NEW k \in 2..MAX_POLL, pfds'[k].revents # {}, "POLLIN" \notin pfds'[k].revents,
              buff_client'[k] # <<>>
       PROVE  /\ EnBalayage' /\ k >= i' /\ Sien(k)'
              /\ k > fd_count' => i' > 1 /\ fd_count' > 1 /\ pfds'[k].fd = pfds'[fd_count'].fd
  <2>. DEFINE d == de(k)
  <2>1. /\ d \in 2..MAX_POLL /\ d \in 1..MAX_POLL /\ d # i /\ (d >= i => k >= i) /\ k \in 1..MAX_POLL
        /\ pfds'[k] = pfds[d] /\ buff_client'[k] = buff_client[d] /\ d = de(k)
    BY <1>5, <1>10, <1>13
  <2>2. k > fd_count' => d = k /\ k >= fd_count /\ k \in Int
    BY <1>10
  <2>. HIDE DEF d
  <2>3. /\ d >= i /\ Sien(d)
        /\ d > fd_count => fd_count > 1 /\ pfds[d].fd = pfds[fd_count].fd
    BY <1>5, <1>21, <2>1
  <2>4. k \in i..MAX_POLL
    BY <1>3, <1>6, <2>1, <2>3
  <2>5. etape' = "scan" /\ i' <= k /\ i' > 1 /\ i' \in Int /\ k >= i'
    BY <1>2, <1>3, <1>6, <1>21, <2>4
  <2>6. fd_count \in 2..fd_count /\ fd_count # i
    BY <1>3, <1>6
  <2>7. pfds[d].fd # f
    <3>1. CASE d > fd_count
      BY <1>16, <2>3, <2>6, <3>1
    <3>2. CASE d <= fd_count
      <4>1. d \in 2..fd_count
        BY <1>3, <2>1, <3>2
      <4>. QED BY <1>16, <2>1, <4>1
    <3>. QED BY <1>3, <2>1, <3>1, <3>2
  <2>8. Sien(k)'
    BY <1>18, <2>1, <2>3, <2>7
  <2>9. ASSUME k > fd_count' PROVE pfds'[k].fd = pfds'[fd_count'].fd
    <3>1. pfds'[fd_count'] = pfds[fd_count]
      <4>1. fd_count' \in 1..MAX_POLL
        BY <1>8, <1>3
      <4>. QED BY <1>10, <1>13, <4>1
    <3>2. pfds[d].fd = pfds[fd_count].fd
      BY <1>3, <2>2, <2>3, <2>9
    <3>. QED BY <2>1, <3>1, <3>2
  <2>10. fd_count' > 1
    BY <1>8
  <2>. QED BY <1>2, <2>5, <2>8, <2>9, <2>10
<1>22. pfds'[1].events = {"POLLIN"} /\ pfds'[1].revents \subseteq {"POLLIN"} /\ pfds'[1].fd = 0
  BY <1>3, <1>10, <1>13
<1>23. EntreesPoll'
  <2>1. fd_count' \in 1..MAX_POLL
    BY <1>3, <1>8
  <2>. QED BY <1>17, <1>19, <1>20, <1>21, <1>22, <2>1, FaitsPollApres
<1>24. TypesPoll'
  BY <1>2, <1>14, <1>22 DEF TypesPoll, Fiches, listener
<1>. QED BY <1>2, <1>23, <1>24 DEF AccordPoll

LEMMA RetireJuste ==
  ASSUME Types, Propres, AccordPoll, programme # "serEcho", programme' = programme, Retire
  PROVE  Types' /\ Propres' /\ AccordPoll'
<1>1. /\ TypesPoll /\ EnBalayage /\ i \in 2..MAX_POLL /\ pfds[i].fd \in Fds
      /\ "POLLIN" \in pfds[i].revents
      /\ Depart => Depart'
      /\ prises[pfds[i].fd] # Personne => Depart'
      /\ Types' /\ Propres'
  BY RetireSuit
<1>2. CASE Condamne
  <2>1. i >= fd_count /\ fd_count \in (-Plancher)..MAX_POLL /\ Depart
    BY <1>2 DEF Condamne
  <2>. QED BY <1>1, <2>1, RetireFinJuste
<1>3. CASE EntreesPoll
  <2>1. fd_count \in 1..MAX_POLL /\ fd_count \in Int
    BY <1>1, <1>3, FaitsPoll
  <2>2. CASE i < fd_count
    BY <1>1, <1>3, <2>2, RetireMilieuJuste
  <2>3. CASE i >= fd_count
    <3>1. Depart'
      <4>1. CASE i = fd_count
        <5>1. i \in 2..fd_count
          BY <1>1, <2>1, <4>1
        <5>2. prises[pfds[i].fd] # Personne
          BY <1>1, <1>3, <5>1, FaitsPoll
        <5>. QED BY <1>1, <5>2
      <4>2. CASE i > fd_count
        <5>1. pfds[i].revents # {} => (i > fd_count => Depart)
          BY <1>1, <1>3, FaitsPoll
        <5>. QED BY <1>1, <4>2, <5>1
      <4>. QED BY <1>1, <2>1, <2>3, <4>1, <4>2
    <3>2. fd_count \in (-Plancher)..MAX_POLL
      BY <2>1, Constantes
    <3>. QED BY <1>1, <2>3, <3>1, <3>2, RetireFinJuste
  <2>. QED BY <1>1, <2>1, <2>2, <2>3
<1>. QED BY <1>2, <1>3 DEF AccordPoll

LEMMA ServPollJuste ==
  ASSUME Types, Propres, AccordPoll, programme # "serEcho", programme' = programme, servPoll
  PROVE  Types' /\ Propres' /\ AccordPoll'
BY AttendJuste, AccepteJuste, CommenceEchoJuste, RecoitEchoJuste, RetireJuste, EnvoiJuste,
   MeurtEnEnvoyantJuste DEF servPoll

\* --- the invariant ---------------------------------------------------------------
LEMMA DebutJuste == Init => IInvEcho
<1>. SUFFICES ASSUME Init PROVE IInvEcho
  OBVIOUS
<1>1. /\ programme \in Programmes /\ lien = [c \in Clients |-> "dehors"]
      /\ envoye = [c \in Clients |-> <<>>] /\ flux = envoye /\ echo = envoye
      /\ attente = <<>> /\ prises = [f \in Fds |-> Personne]
      /\ etape = "attend" /\ i = 0 /\ buffer = <<>>
      /\ InitSelect /\ InitPoll
  BY DEF Init, InitClients
<1>2. <<>> \in Seq(Pieces) /\ Len(<<>>) < SIZE /\ \A c : DeLui(<<>>, c)
  BY VideDeLui, Constantes
<1>3. Types
  <2>1. "dehors" \in DOMAIN Suite /\ <<>> \in Seq(Clients)
    BY DEF Suite
  <2>. QED BY <1>1, <1>2, <2>1 DEF Types, Etapes
<1>4. Propres
  BY <1>1, <1>2 DEF Propres
<1>5. programme = "serEcho" => AccordSelect
  <2>. SUFFICES ASSUME programme = "serEcho" PROVE AccordSelect
    OBVIOUS
  <2>1. /\ client_sockets = [k \in 1..MAX |-> 0] /\ ecriture = {}
        /\ lcpy = {} /\ ecpy = {} /\ donnees = [k \in 1..MAX |-> <<>>]
    BY <1>1 DEF InitSelect
  <2>2. TypesSelect
    BY <1>1, <1>2, <2>1, Constantes DEF TypesSelect
  <2>3. Exacte
    <3>1. Entrees = {} /\ Ouverts = {}
      BY <1>1, <2>1 DEF Entrees, Ouverts
    <3>. QED BY <3>1 DEF Exacte
  <2>4. EntreesSelect
    BY <1>1, <2>1, <2>3 DEF EntreesSelect
  <2>. QED BY <2>2, <2>4 DEF AccordSelect
<1>6. ASSUME programme # "serEcho" PROVE TypesPoll /\ EntreesPoll /\ fd_count = 1 /\ Exacte
  <2>1. /\ fd_count = 1 /\ buff_client = [k \in 1..MAX_POLL |-> <<>>]
        /\ pfds = [k \in 1..MAX_POLL |-> IF k = 1 THEN [Vide EXCEPT !.events = {"POLLIN"}] ELSE Vide]
    BY <1>1 DEF InitPoll
  <2>2. /\ Vide \in Fiches /\ Vide.fd = 0 /\ Vide.revents = {} /\ Vide.events = {}
        /\ [Vide EXCEPT !.events = {"POLLIN"}] = [fd |-> 0, events |-> {"POLLIN"}, revents |-> {}]
        /\ [fd |-> 0, events |-> {"POLLIN"}, revents |-> {}] \in Fiches
    BY DEF Vide, Fiches, Conditions
  <2>3. 1 \in 1..MAX_POLL /\ 0 \in 0..MAX_POLL /\ MAX_POLL \in Int
    BY Constantes
  <2>4. pfds \in [1..MAX_POLL -> Fiches]
    BY <2>1, <2>2
  <2>5. /\ pfds[1].fd = 0 /\ pfds[1].events = {"POLLIN"} /\ pfds[1].revents = {}
        /\ \A k \in 2..MAX_POLL : pfds[k].revents = {}
    BY <2>1, <2>2, <2>3
  <2>6. TypesPoll
    BY <1>1, <1>2, <2>1, <2>3, <2>4, <2>5 DEF TypesPoll, Fiches, listener
  <2>7. Exacte
    <3>1. Entrees = {}
      BY <1>6, <2>1 DEF Entrees
    <3>2. Ouverts = {}
      BY <1>1 DEF Ouverts
    <3>. QED BY <3>1, <3>2 DEF Exacte
  <2>8. fd_count \in 1..MAX_POLL /\ \A k \in 2..fd_count : FALSE
    BY <2>1, <2>3
  <2>9. EntreesPoll
    BY <2>5, <2>7, <2>8 DEF EntreesPoll
  <2>. QED BY <2>1, <2>6, <2>7, <2>9
<1>7. programme = "poll_recv" => AccordLecture
  BY <1>1, <1>6, Constantes DEF AccordLecture
<1>8. programme = "servPoll" => AccordPoll
  BY <1>1, <1>6 DEF AccordPoll, EnBalayage
<1>. QED BY <1>1, <1>3, <1>4, <1>5, <1>7, <1>8 DEF IInvEcho

LEMMA PasJuste == IInvEcho /\ [Next]_vars => IInvEcho'
<1>. SUFFICES ASSUME IInvEcho, [Next]_vars PROVE IInvEcho'
  OBVIOUS
<1>1. /\ Types /\ Propres /\ programme \in {"serEcho", "servPoll", "poll_recv"}
      /\ programme = "serEcho" => AccordSelect /\ InitPoll
      /\ programme # "serEcho" => InitSelect
      /\ programme = "poll_recv" => AccordLecture
      /\ programme = "servPoll" => AccordPoll
  <2>1. programme \in Programmes
    BY DEF IInvEcho, Types
  <2>2. programme \in {"serEcho", "servPoll", "poll_recv"}
    BY <2>1, Constantes
  <2>. QED BY <2>2 DEF IInvEcho
<1>2. CASE UNCHANGED vars
  <2>1. /\ UNCHANGED <<selection, table>> /\ programme' = programme /\ prises' = prises /\ etape' = etape
        /\ i' = i /\ buffer' = buffer /\ UNCHANGED clients
    BY <1>2 DEF vars, serveur
  <2>2. Types' /\ Propres' /\ (Depart => Depart')
    BY <1>1, <2>1 DEF Types, Propres, clients, Depart
  <2>. QED BY <1>1, <2>1, <2>2, AccordReste DEF IInvEcho
<1>3. ASSUME NEW c \in Clients, Agit(c), UNCHANGED <<selection, table>> PROVE IInvEcho'
  <2>1. /\ Types' /\ Propres' /\ (Depart => Depart')
        /\ programme' = programme /\ prises' = prises /\ etape' = etape /\ i' = i /\ buffer' = buffer
    BY <1>1, <1>3, AgitJuste
  <2>. QED BY <1>1, <1>3, <2>1, AccordReste DEF IInvEcho
<1>4. CASE Serveur
  <2>1. programme' = programme
    BY <1>4 DEF Serveur
  <2>2. CASE programme = "serEcho"
    <3>1. serEcho /\ UNCHANGED table
      BY <1>4, <2>2 DEF Serveur
    <3>2. Types' /\ Propres' /\ AccordSelect'
      BY <1>1, <2>1, <2>2, <3>1, SerEchoJuste
    <3>3. InitPoll'
      BY <1>1, <2>2, <3>1 DEF InitPoll, table
    <3>. QED BY <2>1, <2>2, <3>2, <3>3 DEF IInvEcho
  <2>3. CASE programme = "servPoll"
    <3>1. servPoll /\ UNCHANGED selection
      BY <1>4, <2>3 DEF Serveur
    <3>2. Types' /\ Propres' /\ AccordPoll'
      BY <1>1, <2>1, <2>3, <3>1, ServPollJuste
    <3>3. InitSelect'
      BY <1>1, <2>3, <3>1 DEF InitSelect, selection
    <3>. QED BY <2>1, <2>3, <3>2, <3>3 DEF IInvEcho
  <2>4. CASE programme = "poll_recv"
    <3>1. poll_recv /\ UNCHANGED selection
      BY <1>4, <2>4 DEF Serveur
    <3>2. Types' /\ Propres' /\ AccordLecture'
      BY <1>1, <2>1, <2>4, <3>1, PollRecvJuste
    <3>3. InitSelect'
      BY <1>1, <2>4, <3>1 DEF InitSelect, selection
    <3>. QED BY <2>1, <2>4, <3>2, <3>3 DEF IInvEcho
  <2>. QED BY <1>1, <2>2, <2>3, <2>4
<1>. QED BY <1>2, <1>3, <1>4 DEF Next

\* Whatever the clients send, end or leave, and whatever entries and descriptors
\* serve one after the other, the entry of a table, its buffer and what is to be
\* sent there are one client's; servPoll's table goes wrong only for a scan that
\* is past its last entry (serEcho.c:137-219, servPoll.c:75-190, poll_recv.c).
THEOREM ToujoursIInvEcho == Spec => []IInvEcho
<1>. QED BY DebutJuste, PasJuste, PTL DEF Spec

\* The tables keep their types, and their scans stay inside them.
THEOREM ToujoursTypeOK == Spec => []TypeOK
<1>1. IInvEcho => TypeOK
  <2>. SUFFICES ASSUME IInvEcho PROVE TypeOK
    OBVIOUS
  <2>1. /\ Types /\ programme \in {"serEcho", "servPoll", "poll_recv"}
    <3>1. Types /\ programme \in Programmes
      BY DEF IInvEcho, Types
    <3>. QED BY <3>1, Constantes
  <2>2. 0 \in 0..MAX_POLL /\ 1 \in (-Plancher)..MAX_POLL /\ 1 \in 1..MAX_POLL
    BY Constantes
  <2>3. CASE programme = "serEcho"
    <3>1. AccordSelect /\ InitPoll
      BY <2>3 DEF IInvEcho
    <3>2. fd_count = 1 /\ \A k \in 1..MAX_POLL : pfds[k].fd = 0
      BY <3>1 DEF InitPoll, Vide
    <3>3. /\ client_sockets \in [1..MAX -> Fds \cup {0}] /\ lcpy \subseteq Fds /\ ecpy \subseteq Fds
          /\ i \in 0..MAX /\ (etape \in {"scan", "lit", "ecrit"} => i > 0)
          /\ ecriture \subseteq lecture
      BY <3>1 DEF AccordSelect, TypesSelect, EntreesSelect
    <3>. QED BY <2>1, <2>2, <2>3, <3>2, <3>3 DEF TypeOK, Types
  <2>4. CASE programme # "serEcho"
    <3>1. InitSelect /\ TypesPoll
      BY <2>1, <2>4 DEF IInvEcho, AccordLecture, AccordPoll
    <3>2. client_sockets \in [1..MAX -> Fds \cup {0}] /\ ecriture = {} /\ lcpy = {} /\ ecpy = {}
      BY <3>1 DEF InitSelect
    <3>3. fd_count \in (-Plancher)..MAX_POLL
      <4>1. fd_count \in 1..MAX_POLL \/ fd_count \in (-Plancher)..MAX_POLL
        BY <2>1, <2>4 DEF IInvEcho, AccordLecture, AccordPoll, EntreesPoll, Condamne
      <4>. QED BY <4>1, Constantes
    <3>4. \A k \in 1..MAX_POLL : pfds[k].fd \in Fds \cup {0}
      BY <3>1 DEF TypesPoll
    <3>5. i \in 0..MAX_POLL /\ (etape \in {"scan", "lit", "ecrit"} => i > 0)
      BY <3>1 DEF TypesPoll
    <3>. QED BY <2>1, <2>4, <3>2, <3>3, <3>4, <3>5 DEF TypeOK, Types
  <2>. QED BY <2>3, <2>4
<1>. QED BY <1>1, ToujoursIInvEcho, PTL

\* No client ever gets what another one sent: the buffers of the entries are
\* sent to who wrote what is in them (serEcho.c:196-219, servPoll.c:158-190).
THEOREM ToujoursEchoPersonnel == Spec => []EchoPersonnel
<1>1. IInvEcho => EchoPersonnel
  BY DEF IInvEcho, Propres, DeLui, EchoPersonnel
<1>. QED BY <1>1, ToujoursIInvEcho, PTL

\* The table holds the open connections, each once, whatever comes and goes
\* between and during the scans, in servPoll while nobody left.
THEOREM ToujoursTableExacte == Spec => []TableExacte
<1>1. IInvEcho => TableExacte
  <2>. SUFFICES ASSUME IInvEcho, programme = "servPoll" => ~Depart PROVE Exacte
    BY DEF TableExacte
  <2>1. programme \in {"serEcho", "servPoll", "poll_recv"}
    <3>1. programme \in Programmes
      BY DEF IInvEcho, Types
    <3>. QED BY <3>1, Constantes
  <2>2. CASE programme = "serEcho"
    BY <2>2 DEF IInvEcho, AccordSelect, EntreesSelect
  <2>3. CASE programme = "poll_recv"
    BY <2>3 DEF IInvEcho, AccordLecture
  <2>4. CASE programme = "servPoll"
    BY <2>4 DEF IInvEcho, AccordPoll, EntreesPoll, Condamne
  <2>. QED BY <2>1, <2>2, <2>3, <2>4
<1>. QED BY <1>1, ToujoursIInvEcho, PTL


\* --- numbered sequences ---------------------------------------------------------
LEMMA NumerotesDebut ==
  ASSUME NEW s \in Seq(Pieces), NEW t \in Seq(Pieces), NEW n \in Nat, Numerotes(s \o t, n)
  PROVE  Numerotes(s, n)
<1>1. Len(s) \in Nat /\ Len(t) \in Nat
  BY LenProperties
<1>2. /\ Len(s \o t) = Len(s) + Len(t)
      /\ \A k \in 1..Len(s) + Len(t) : (s \o t)[k] = IF k <= Len(s) THEN s[k] ELSE t[k - Len(s)]
  BY ConcatProperties
<1>3. ASSUME NEW k \in 1..Len(s) PROVE k \in 1..Len(s \o t) /\ (s \o t)[k] = s[k]
  BY <1>1, <1>2
<1>. QED BY <1>3 DEF Numerotes

\* Pieces taken out of the middle leave the others in order.
LEMMA NumerotesSaute ==
  ASSUME NEW s \in Seq(Pieces), NEW t \in Seq(Pieces), NEW u \in Seq(Pieces), NEW n \in Nat,
         Numerotes(s \o (t \o u), n)
  PROVE  Numerotes(s \o u, n)
<1>1. Len(s) \in Nat /\ Len(t) \in Nat /\ Len(u) \in Nat
  BY LenProperties
<1>2. /\ t \o u \in Seq(Pieces) /\ Len(t \o u) = Len(t) + Len(u)
      /\ \A k \in 1..Len(t) + Len(u) : (t \o u)[k] = IF k <= Len(t) THEN t[k] ELSE u[k - Len(t)]
  BY ConcatProperties
<1>3. /\ Len(s \o (t \o u)) = Len(s) + (Len(t) + Len(u))
      /\ \A k \in 1..Len(s) + (Len(t) + Len(u)) :
            (s \o (t \o u))[k] = IF k <= Len(s) THEN s[k] ELSE (t \o u)[k - Len(s)]
  BY <1>2, ConcatProperties
<1>4. /\ Len(s \o u) = Len(s) + Len(u)
      /\ \A k \in 1..Len(s) + Len(u) : (s \o u)[k] = IF k <= Len(s) THEN s[k] ELSE u[k - Len(s)]
  BY ConcatProperties
<1>. DEFINE h(k) == IF k <= Len(s) THEN k ELSE k + Len(t)
<1>5. ASSUME NEW k \in 1..Len(s \o u)
      PROVE  h(k) \in 1..Len(s \o (t \o u)) /\ (s \o (t \o u))[h(k)] = (s \o u)[k]
  <2>1. CASE k <= Len(s)
    BY <1>1, <1>3, <1>4, <2>1
  <2>2. CASE k > Len(s)
    <3>1. h(k) = k + Len(t) /\ h(k) > Len(s) /\ h(k) <= Len(s) + (Len(t) + Len(u))
      BY <1>1, <1>4, <2>2
    <3>2. h(k) - Len(s) \in 1..Len(t) + Len(u) /\ h(k) - Len(s) > Len(t)
          /\ h(k) - Len(s) - Len(t) = k - Len(s)
      BY <1>1, <1>4, <2>2, <3>1
    <3>. HIDE DEF h
    <3>3. (t \o u)[h(k) - Len(s)] = u[k - Len(s)]
      BY <1>1, <1>2, <3>2
    <3>4. (s \o (t \o u))[h(k)] = (t \o u)[h(k) - Len(s)]
      BY <1>1, <1>3, <1>4, <3>1
    <3>5. (s \o u)[k] = u[k - Len(s)]
      BY <1>1, <1>4, <2>2
    <3>. QED BY <1>1, <1>3, <1>4, <3>1, <3>3, <3>4, <3>5
  <2>. QED BY <1>1, <1>4, <2>1, <2>2
<1>6. \A j, k \in 1..Len(s \o u) : j < k => h(j) < h(k)
  BY <1>1, <1>4
<1>. HIDE DEF h
<1>. QED BY <1>5, <1>6 DEF Numerotes

LEMMA NumerotesAjout ==
  ASSUME NEW s \in Seq(Pieces), NEW n \in Nat, NEW m \in Pieces, m.n = n + 1, Numerotes(s, n)
  PROVE  Append(s, m) \in Seq(Pieces) /\ Numerotes(Append(s, m), n + 1)
<1>1. Len(s) \in Nat /\ \A k \in 1..Len(s) : s[k] \in Pieces
  BY LenProperties, ElementOfSeq
<1>2. /\ Append(s, m) \in Seq(Pieces) /\ Len(Append(s, m)) = Len(s) + 1
      /\ \A k \in 1..Len(s) : Append(s, m)[k] = s[k]
      /\ Append(s, m)[Len(s) + 1] = m
  BY AppendProperties
<1>3. \A k \in 1..Len(s) : s[k].n \in Nat /\ s[k].n <= n
  BY <1>1 DEF Numerotes, Pieces
<1>4. \A j, k \in 1..Len(s) : j < k => s[j].n < s[k].n
  BY DEF Numerotes
<1>5. ASSUME NEW j \in 1..Len(s) + 1, NEW k \in 1..Len(s) + 1, j < k
      PROVE  Append(s, m)[j].n < Append(s, m)[k].n
  <2>1. j \in 1..Len(s) /\ Append(s, m)[j] = s[j]
    BY <1>1, <1>2, <1>5
  <2>2. CASE k \in 1..Len(s)
    BY <1>2, <1>4, <1>5, <2>1, <2>2
  <2>3. CASE k = Len(s) + 1
    BY <1>2, <1>3, <2>1, <2>3
  <2>. QED BY <1>1, <2>2, <2>3
<1>6. ASSUME NEW k \in 1..Len(s) + 1 PROVE Append(s, m)[k].n <= n + 1
  <2>1. CASE k \in 1..Len(s)
    BY <1>2, <1>3, <2>1
  <2>2. CASE k = Len(s) + 1
    BY <1>2, <2>2
  <2>. QED BY <1>1, <2>1, <2>2
<1>. QED BY <1>2, <1>5, <1>6 DEF Numerotes

LEMMA NumerotesRangs ==
  ASSUME NEW s \in Seq(Pieces), \A j \in 1..Len(s) : s[j].n = j
  PROVE  Numerotes(s, Len(s))
BY LenProperties DEF Numerotes

LEMMA DebutDeTout ==
  ASSUME NEW s \in Seq(Pieces), NEW t \in Seq(Pieces)
  PROVE  IsPrefix(s, s \o t)
<1>1. Len(s) \in Nat /\ Len(t) \in Nat /\ s \o t \in Seq(Pieces) /\ Len(s \o t) = Len(s) + Len(t)
  BY LenProperties, ConcatProperties
<1>2. SubSeq(s \o t, 1, Len(s)) = SubSeq(s, 1, Len(s))
  <2>1. CASE Len(s) = 0
    BY <2>1, SubSeqEmpty
  <2>2. CASE Len(s) # 0
    <3>1. 1 \in 1..Len(s) /\ Len(s) \in 1..Len(s)
      BY <1>1, <2>2
    <3>. QED BY <3>1, SubSeqOfConcat1
  <2>. QED BY <2>1, <2>2
<1>. QED BY <1>1, <1>2 DEF IsPrefix

LEMMA CouperEnDeux ==
  ASSUME NEW s \in Seq(Pieces), NEW n \in 0..Len(s)
  PROVE  SubSeq(s, 1, n) \o SubSeq(s, n + 1, Len(s)) = s
<1>1. Len(s) \in Nat
  BY LenProperties
<1>2. 1 \in 1..Len(s) + 1 /\ n \in (1 - 1)..Len(s) /\ Len(s) \in n..Len(s)
  BY <1>1
<1>. QED BY <1>2, ConcatAdjacentSubSeq, SubSeqFull

LEMMA Associer ==
  ASSUME NEW s \in Seq(Pieces), NEW t \in Seq(Pieces), NEW u \in Seq(Pieces)
  PROVE  (s \o t) \o u = s \o (t \o u)
BY ConcatAssociative

\* The concatenations a client's way is made of.
LEMMA Assembler ==
  ASSUME NEW e \in Seq(Pieces), NEW d \in Seq(Pieces), NEW x \in Seq(Pieces)
  PROVE  /\ d \o x \in Seq(Pieces) /\ e \o (d \o x) \in Seq(Pieces)
         /\ e \o (<<>> \o x) = e \o x
         /\ (e \o d) \o (<<>> \o x) = e \o (d \o x)
<1>1. d \o x \in Seq(Pieces) /\ e \o d \in Seq(Pieces)
  BY ConcatProperties
<1>2. e \o (d \o x) \in Seq(Pieces)
  BY <1>1, ConcatProperties
<1>3. <<>> \o x = x
  BY ConcatEmptySeq
<1>4. (e \o d) \o x = e \o (d \o x)
  BY Associer
<1>. QED BY <1>1, <1>2, <1>3, <1>4

\* A concatenation of five sequences is too much for the provers at once: AuBout
\* is one for them, and so is Suites.
Suites == Seq(Pieces)
AuBout(e, d, b, f, m) ==
    e \o (d \o (b \o Append(f, m))) = Append(e \o (d \o (b \o f)), m)
LEMMA AjouterAuBout ==
  ASSUME NEW e \in Suites, NEW d \in Suites, NEW b \in Suites, NEW f \in Suites, NEW m \in Pieces
  PROVE  AuBout(e, d, b, f, m)
<1>1. ASSUME NEW s \in Suites, NEW t \in Suites
      PROVE  s \o t \in Suites /\ s \o Append(t, m) = Append(s \o t, m)
  <2>1. s \in Seq(Pieces) /\ t \in Seq(Pieces) /\ <<m>> \in Seq(Pieces)
    BY DEF Suites
  <2>2. s \o t \in Seq(Pieces)
    BY <2>1, ConcatProperties
  <2>3. Append(t, m) = t \o <<m>> /\ Append(s \o t, m) = (s \o t) \o <<m>>
    BY <2>1, <2>2, AppendIsConcat
  <2>4. (s \o t) \o <<m>> = s \o (t \o <<m>>)
    BY <2>1, Associer
  <2>. QED BY <2>2, <2>3, <2>4 DEF Suites
<1>2. b \o f \in Suites /\ b \o Append(f, m) = Append(b \o f, m)
  BY <1>1
<1>3. d \o (b \o f) \in Suites /\ d \o Append(b \o f, m) = Append(d \o (b \o f), m)
  BY <1>1, <1>2
<1>4. e \o Append(d \o (b \o f), m) = Append(e \o (d \o (b \o f)), m)
  BY <1>1, <1>3
<1>. QED BY <1>2, <1>3, <1>4 DEF AuBout

\* --- whose connection is whose ------------------------------------------------
LEMMA UniquesReste ==
  ASSUME Types, Uniques, prises' = prises, attente' = attente,
         \A c \in Clients : lien[c] # "dehors" => lien'[c] # "dehors"
  PROVE  Uniques'
<1>1. \A j \in 1..Len(attente) : attente[j] \in Clients
  BY ElementOfSeq DEF Types
<1>. QED BY <1>1 DEF Uniques, EstAccepte

LEMMA UniquesConnecte ==
  ASSUME Types, Uniques, NEW c \in Clients, prises' = prises, Connecte(c)
  PROVE  Uniques'
<1>1. attente \in Seq(Clients) /\ lien \in [Clients -> DOMAIN Suite] /\ Len(attente) \in Nat
  BY LenProperties DEF Types
<1>2. /\ attente' = Append(attente, c) /\ lien[c] = "dehors"
      /\ \A d \in Clients : lien'[d] = IF d = c THEN "ouvert" ELSE lien[d]
  BY <1>1 DEF Connecte
<1>3. /\ Len(attente') = Len(attente) + 1 /\ attente'[Len(attente) + 1] = c
      /\ \A j \in 1..Len(attente) : attente'[j] = attente[j] /\ attente[j] \in Clients
  BY <1>1, <1>2, AppendProperties, ElementOfSeq
<1>4. ~EstAccepte(c) /\ \A j \in 1..Len(attente) : attente[j] # c
  BY <1>2 DEF Uniques
<1>5. \A d : EstAccepte(d)' <=> EstAccepte(d)
  BY DEF EstAccepte
<1>6. ASSUME NEW j \in 1..Len(attente'), NEW k \in 1..Len(attente'), attente'[j] = attente'[k]
      PROVE  j = k
  <2>1. j \in 1..Len(attente) \/ j = Len(attente) + 1
    BY <1>1, <1>3
  <2>2. k \in 1..Len(attente) \/ k = Len(attente) + 1
    BY <1>1, <1>3
  <2>3. \A l, m \in 1..Len(attente) : attente[l] = attente[m] => l = m
    BY DEF Uniques
  <2>. QED BY <1>3, <1>4, <1>6, <2>1, <2>2, <2>3
<1>7. ASSUME NEW j \in 1..Len(attente')
      PROVE  ~EstAccepte(attente[j])' /\ lien'[attente'[j]] # "dehors"
  <2>1. CASE j \in 1..Len(attente)
    <3>1. attente'[j] \in Clients /\ ~EstAccepte(attente'[j]) /\ lien[attente'[j]] # "dehors"
      BY <1>3, <2>1 DEF Uniques
    <3>. QED BY <1>2, <1>5, <3>1 DEF EstAccepte
  <2>2. CASE j = Len(attente) + 1
    BY <1>2, <1>3, <1>4, <1>5, <2>2 DEF EstAccepte
  <2>. QED BY <1>1, <1>3, <2>1, <2>2
<1>8. \A d \in Clients : EstAccepte(d)' => lien'[d] # "dehors"
  BY <1>2, <1>5 DEF Uniques
<1>9. \A f, g \in Fds : prises'[f] = prises'[g] /\ prises'[f] # Personne => f = g
  BY DEF Uniques
<1>. QED BY <1>6, <1>7, <1>8, <1>9 DEF Uniques

LEMMA UniquesTail ==
  ASSUME Types, Uniques, attente # <<>>, attente' = Tail(attente), prises' = prises,
         \A c \in Clients : lien[c] # "dehors" => lien'[c] # "dehors"
  PROVE  Uniques'
<1>1. /\ Len(attente) \in Nat \ {0} /\ Len(attente') = Len(attente) - 1
      /\ \A j \in 1..Len(attente') : attente'[j] = attente[j + 1]
      /\ \A j \in 1..Len(attente) : attente[j] \in Clients
  BY HeadTailProperties, EmptySeq, ElementOfSeq DEF Types
<1>2. \A j \in 1..Len(attente') : j + 1 \in 1..Len(attente)
  BY <1>1
<1>3. \A d : EstAccepte(d)' <=> EstAccepte(d)
  BY DEF EstAccepte
<1>4. /\ \A j, k \in 1..Len(attente) : attente[j] = attente[k] => j = k
      /\ \A j \in 1..Len(attente) : ~EstAccepte(attente[j]) /\ lien[attente[j]] # "dehors"
      /\ \A c \in Clients : EstAccepte(c) => lien[c] # "dehors"
      /\ \A f, g \in Fds : prises[f] = prises[g] /\ prises[f] # Personne => f = g
  BY DEF Uniques
<1>5. \A j, k \in 1..Len(attente') : attente'[j] = attente'[k] => j = k
  <2>. SUFFICES ASSUME NEW j \in 1..Len(attente'), NEW k \in 1..Len(attente'), attente'[j] = attente'[k]
                PROVE  j = k
    OBVIOUS
  <2>1. j + 1 = k + 1
    BY <1>1, <1>2, <1>4
  <2>. QED BY <2>1
<1>6. \A j \in 1..Len(attente') : ~EstAccepte(attente[j])' /\ lien'[attente'[j]] # "dehors"
  BY <1>1, <1>2, <1>3, <1>4 DEF EstAccepte
<1>7. \A c \in Clients : EstAccepte(c)' => lien'[c] # "dehors"
  BY <1>3, <1>4
<1>. QED BY <1>4, <1>5, <1>6, <1>7 DEF Uniques

LEMMA UniquesAccept ==
  ASSUME Types, Uniques, FdLibre \in Fds, prises[FdLibre] = Personne, accept, lien' = lien
  PROVE  Uniques' /\ Head(attente) \in Clients /\ ~EstAccepte(Head(attente))
         /\ \A c \in Clients : EstAccepte(c)' <=> EstAccepte(c) \/ c = Head(attente)
<1>. DEFINE c == Head(attente)
            g == FdLibre
<1>1. /\ attente # <<>> /\ attente' = Tail(attente)
      /\ prises' = [prises EXCEPT ![g] = c] /\ prises \in [Fds -> Clients \cup {Personne}]
  BY DEF accept, Types
<1>2. /\ Len(attente) \in Nat \ {0} /\ Len(attente') = Len(attente) - 1
      /\ \A j \in 1..Len(attente') : attente'[j] = attente[j + 1]
      /\ \A j \in 1..Len(attente) : attente[j] \in Clients
      /\ c \in Clients
  BY <1>1, HeadTailProperties, EmptySeq, ElementOfSeq DEF Types
<1>3. c = attente[1] /\ 1 \in 1..Len(attente)
  BY <1>2
<1>4. /\ \A j, k \in 1..Len(attente) : attente[j] = attente[k] => j = k
      /\ \A j \in 1..Len(attente) : ~EstAccepte(attente[j]) /\ lien[attente[j]] # "dehors"
      /\ \A d \in Clients : EstAccepte(d) => lien[d] # "dehors"
      /\ \A f, h \in Fds : prises[f] = prises[h] /\ prises[f] # Personne => f = h
  BY DEF Uniques
<1>5. g \in Fds /\ prises[g] = Personne /\ c # Personne
  BY <1>2, Constantes
<1>. HIDE DEF c, g
<1>6. prises'[g] = c /\ \A f \in Fds : f # g => prises'[f] = prises[f]
  BY <1>1, <1>5
<1>7. \A d \in Clients : EstAccepte(d)' <=> EstAccepte(d) \/ d = c
  <2>1. \A d \in Clients : d # Personne
    BY Constantes
  <2>. QED BY <1>5, <1>6, <2>1 DEF EstAccepte
<1>8. \A j \in 1..Len(attente') : j + 1 \in 1..Len(attente) /\ j + 1 # 1
  BY <1>2
<1>9. ASSUME NEW j \in 1..Len(attente'), NEW k \in 1..Len(attente'), attente'[j] = attente'[k]
      PROVE  j = k
  <2>1. j + 1 = k + 1
    BY <1>2, <1>4, <1>8, <1>9
  <2>. QED BY <2>1
<1>10. ASSUME NEW j \in 1..Len(attente') PROVE ~EstAccepte(attente[j])' /\ lien'[attente'[j]] # "dehors"
  <2>1. attente'[j] = attente[j + 1] /\ attente[j + 1] \in Clients /\ attente[j + 1] # c
    BY <1>2, <1>3, <1>4, <1>8
  <2>. QED BY <1>4, <1>7, <1>8, <2>1 DEF EstAccepte
<1>11. \A d \in Clients : EstAccepte(d)' => lien'[d] # "dehors"
  BY <1>3, <1>4, <1>7
<1>12. ASSUME NEW f \in Fds, NEW h \in Fds, prises'[f] = prises'[h], prises'[f] # Personne PROVE f = h
  <2>1. \A q \in Fds : prises[q] # c
    BY <1>3, <1>4 DEF EstAccepte
  <2>. QED BY <1>4, <1>6, <1>12, <2>1
<1>13. Uniques'
  BY <1>9, <1>10, <1>11, <1>12 DEF Uniques
<1>. QED BY <1>2, <1>3, <1>4, <1>7, <1>13 DEF c

LEMMA UniquesClose ==
  ASSUME Types, Uniques, NEW f \in Fds, close(f), attente' = attente
  PROVE  /\ Uniques'
         /\ prises[f] # Personne => lien'[prises[f]] = "fini"
         /\ \A c \in Clients : c # prises[f] => lien'[c] = lien[c] /\ (EstAccepte(c)' <=> EstAccepte(c))
<1>1. lien \in [Clients -> DOMAIN Suite] /\ prises \in [Fds -> Clients \cup {Personne}]
      /\ \A c \in Clients : c # Personne
  BY Constantes DEF Types
<1>2. prises' = [prises EXCEPT ![f] = Personne]
      /\ lien' = IF prises[f] # Personne THEN [lien EXCEPT ![prises[f]] = "fini"] ELSE lien
  BY DEF close
<1>3. prises'[f] = Personne /\ \A g \in Fds : g # f => prises'[g] = prises[g]
  BY <1>1, <1>2
<1>4. /\ prises[f] # Personne => lien'[prises[f]] = "fini"
      /\ \A c \in Clients : c # prises[f] => lien'[c] = lien[c]
  BY <1>1, <1>2
<1>5. \A c \in Clients : lien[c] # "dehors" => lien'[c] # "dehors"
  BY <1>4, <1>1
<1>6. \A c \in Clients : EstAccepte(c)' => EstAccepte(c)
  BY <1>1, <1>3 DEF EstAccepte
<1>7. \A c \in Clients : c # prises[f] => (EstAccepte(c)' <=> EstAccepte(c))
  BY <1>1, <1>3 DEF EstAccepte
<1>8. \A j \in 1..Len(attente) : attente[j] \in Clients
  BY ElementOfSeq DEF Types
<1>9. Uniques'
  <2>1. \A g, h \in Fds : prises'[g] = prises'[h] /\ prises'[g] # Personne => g = h
    BY <1>3 DEF Uniques
  <2>2. \A j \in 1..Len(attente) : ~EstAccepte(attente[j])' /\ lien'[attente[j]] # "dehors"
    BY <1>5, <1>6, <1>8 DEF Uniques
  <2>3. \A c \in Clients : EstAccepte(c)' => lien'[c] # "dehors"
    BY <1>5, <1>6 DEF Uniques
  <2>4. \A j, k \in 1..Len(attente) : attente[j] = attente[k] => j = k
    BY DEF Uniques
  <2>. QED BY <2>1, <2>2, <2>3, <2>4 DEF Uniques
<1>. QED BY <1>4, <1>7, <1>9

\* --- a client's way ---------------------------------------------------------------
LEMMA FaitsVoie ==
  ASSUME IInvEcho, programme = "serEcho" \/ (programme = "servPoll" /\ ~Depart)
  PROVE  /\ Types /\ Propres /\ Exacte
         /\ \A k \in Entrees : /\ Descripteur(k) \in Fds /\ Client(k) \in Clients /\ Client(k) # Personne
                               /\ Du(k) \in Seq(Pieces)
         /\ \A k : EnCours(k) \in Seq(Pieces)
         /\ \A k, l \in Entrees : Descripteur(k) = Descripteur(l) => k = l
         /\ \A f \in Fds : prises[f] # Personne => \E k \in Entrees : Descripteur(k) = f
         /\ programme = "serEcho" => AccordSelect /\ Entrees \subseteq 1..MAX
         /\ programme = "servPoll" => /\ AccordPoll /\ TypesPoll /\ EntreesPoll
                                      /\ Entrees = 2..fd_count /\ fd_count \in 1..MAX_POLL
<1>1. Types /\ Propres
  BY DEF IInvEcho
<1>2. \A k : EnCours(k) \in Seq(Pieces)
  BY <1>1, VideDeLui DEF EnCours, Types
<1>3. CASE programme = "serEcho"
  <2>1. AccordSelect
    BY <1>3 DEF IInvEcho
  <2>2. Exacte /\ donnees \in [1..MAX -> Seq(Pieces)]
    BY <1>1, <1>3, <2>1, FaitsSelect
  <2>3. Entrees \subseteq 1..MAX /\ \A k : Descripteur(k) = client_sockets[k] /\ Du(k) = donnees[k]
    BY <1>3 DEF Entrees, Descripteur, Du
  <2>5. \A k \in Entrees : Descripteur(k) \in Fds /\ prises[Descripteur(k)] # Personne
    BY <2>2, ExacteAvant
  <2>. QED BY <1>1, <1>2, <1>3, <2>1, <2>2, <2>3, <2>5, ExacteAvant DEF Client, Types
<1>4. CASE programme = "servPoll" /\ ~Depart
  <2>1. AccordPoll /\ TypesPoll /\ EntreesPoll
    BY <1>4 DEF IInvEcho, AccordPoll, Condamne
  <2>2. /\ Exacte /\ fd_count \in 1..MAX_POLL /\ buff_client \in [1..MAX_POLL -> Seq(Pieces)]
        /\ \A k \in 2..fd_count : k \in 1..MAX_POLL
    BY <1>1, <1>4, <2>1, FaitsPoll
  <2>3. /\ Entrees = 2..fd_count /\ \A k : Descripteur(k) = pfds[k].fd /\ Du(k) = buff_client[k]
    BY <1>4 DEF Entrees, Descripteur, Du
  <2>4. \A k \in Entrees : Descripteur(k) \in Fds /\ prises[Descripteur(k)] # Personne
    BY <2>2, ExacteAvant
  <2>5. \A k \in Entrees : Du(k) \in Seq(Pieces) /\ Client(k) \in Clients /\ Client(k) # Personne
    BY <1>1, <2>2, <2>3, <2>4 DEF Client, Types
  <2>. QED BY <1>1, <1>2, <1>4, <2>1, <2>2, <2>3, <2>4, <2>5, ExacteAvant
<1>. QED BY <1>3, <1>4

LEMMA UnClient ==
  ASSUME IInvEcho, programme = "serEcho" \/ (programme = "servPoll" /\ ~Depart), Uniques
  PROVE  /\ \A k, l \in Entrees : Client(k) = Client(l) => k = l
         /\ \A c \in Clients : EstAccepte(c) <=> \E k \in Entrees : Client(k) = c
<1>1. /\ \A k \in Entrees : Descripteur(k) \in Fds /\ Client(k) # Personne
      /\ \A k, l \in Entrees : Descripteur(k) = Descripteur(l) => k = l
      /\ \A f \in Fds : prises[f] # Personne => \E k \in Entrees : Descripteur(k) = f
  BY FaitsVoie
<1>2. \A k : Client(k) = prises[Descripteur(k)]
  BY DEF Client
<1>3. \A f, g \in Fds : prises[f] = prises[g] /\ prises[f] # Personne => f = g
  BY DEF Uniques
<1>4. \A c \in Clients : c # Personne
  BY Constantes
<1>. QED BY <1>1, <1>2, <1>3, <1>4 DEF EstAccepte

LEMMA VoieReste ==
  ASSUME NEW k, NEW c, Client(k) = c, Client(k)' = c, programme' = programme,
         Chemin(k)' = Chemin(k), envoye'[c] = envoye[c], Present(c)' => Present(c), Voie(k)
  PROVE  Voie(k)'
BY DEF Voie, Suit, Ecoute, Present

LEMMA VoieRien ==
  ASSUME NEW k, NEW c, Client(k) = c, Client(k)' = c, programme' = programme,
         Du(k)' = Du(k), EnCours(k)' = EnCours(k),
         flux'[c] = flux[c], echo'[c] = echo[c], envoye'[c] = envoye[c],
         Present(c)' => Present(c), Voie(k)
  PROVE  Voie(k)'
<1>1. Chemin(k)' = Chemin(k)
  BY DEF Chemin
<1>. QED BY <1>1, VoieReste

\* What comes back is the beginning of the way.
LEMMA VoieFidele ==
  ASSUME NEW e \in Seq(Pieces), NEW r \in Seq(Pieces), NEW n \in Nat, Numerotes(e \o r, n)
  PROVE  (\A j, k \in 1..Len(e) : j < k => e[j].n < e[k].n) /\ IsPrefix(e, e \o r)
BY NumerotesDebut, DebutDeTout DEF Numerotes

\* --- the steps, entry by entry ----------------------------------------------------
\* Where what comes back is followed.
Suivi == programme = "serEcho" \/ (programme = "servPoll" /\ ~Depart)

LEMMA CheminsRien ==
  ASSUME IInvEcho, Suivi, Chemins, programme' = programme, prises' = prises,
         Entrees' = Entrees,
         \A k \in Entrees : Descripteur(k)' = Descripteur(k) /\ Du(k)' = Du(k) /\ EnCours(k)' = EnCours(k),
         UNCHANGED <<envoye, echo, flux>>, \A c \in Clients : Present(c)' => Present(c)
  PROVE  Chemins'
<1>1. \A k \in Entrees : Client(k) \in Clients
  BY FaitsVoie DEF Suivi
<1>2. ASSUME NEW k \in Entrees PROVE Voie(k)'
  <2>1. Voie(k) /\ Client(k)' = Client(k)
    BY DEF Chemins, Client
  <2>. QED BY <1>1, <2>1, VoieRien
<1>3. \A c \in Clients : EstAccepte(c)' <=> EstAccepte(c)
  BY DEF EstAccepte
<1>4. \A c \in Clients : Fidele(c)'
  BY DEF Chemins, Fidele, Ecoute
<1>. QED BY <1>2, <1>3, <1>4 DEF Chemins

LEMMA CheminsAccept ==
  ASSUME IInvEcho, Suivi, Uniques, Chemins, programme' = programme, lien' = lien,
         FdLibre \in Fds, prises[FdLibre] = Personne, accept,
         NEW n, n \notin Entrees, Entrees' = Entrees \cup {n},
         \A k \in Entrees : Descripteur(k)' = Descripteur(k) /\ Du(k)' = Du(k) /\ EnCours(k)' = EnCours(k),
         Descripteur(n)' = FdLibre, Du(n)' = <<>>, EnCours(n)' = <<>>,
         UNCHANGED <<envoye, echo, flux>>
  PROVE  Chemins'
<1>. DEFINE d == Head(attente)
<1>1. /\ d \in Clients /\ ~EstAccepte(d)
      /\ \A c \in Clients : EstAccepte(c)' <=> EstAccepte(c) \/ c = d
  BY UniquesAccept DEF IInvEcho
<1>2. /\ \A k \in Entrees : Client(k) \in Clients /\ Descripteur(k) \in Fds /\ Client(k) # Personne
      /\ Types
  BY FaitsVoie DEF Suivi
<1>3. prises' = [prises EXCEPT ![FdLibre] = d] /\ prises \in [Fds -> Clients \cup {Personne}]
  BY <1>2 DEF accept, Types
<1>. HIDE DEF d
<1>4. ASSUME NEW k \in Entrees PROVE Voie(k)'
  <2>1. Voie(k)
    BY DEF Chemins
  <2>2. Descripteur(k) # FdLibre
    BY <1>2 DEF Client
  <2>3. Client(k)' = Client(k)
    BY <1>2, <1>3, <2>2 DEF Client
  <2>4. Present(Client(k))' => Present(Client(k))
    BY <2>3 DEF Present
  <2>. QED BY <1>2, <2>1, <2>3, <2>4, VoieRien
<1>5. Voie(n)'
  <2>1. Client(n)' = d
    BY <1>3 DEF Client
  <2>2. CASE lien[d] \in {"dehors", "ouvert"}
    <3>1. echo[d] = <<>> /\ flux[d] = envoye[d] /\ \A j \in 1..Len(envoye[d]) : envoye[d][j].n = j
      BY <1>1, <2>2 DEF Chemins, Present
    <3>2. envoye[d] \in Seq(Pieces) /\ <<>> \in Seq(Pieces)
      BY <1>1, <1>2, VideDeLui DEF Types
    <3>3. Numerotes(envoye[d], Len(envoye[d]))
      BY <3>1, <3>2, NumerotesRangs
    <3>4. <<>> \o (<<>> \o (<<>> \o envoye[d])) = envoye[d]
      BY <3>2, ConcatEmptySeq
    <3>5. Chemin(n)' = envoye[d]
      BY <2>1, <3>1, <3>4 DEF Chemin
    <3>. QED BY <2>1, <3>3, <3>5 DEF Voie, Suit
  <2>3. CASE lien[d] \notin {"dehors", "ouvert"}
    BY <2>1, <2>3 DEF Voie, Present
  <2>. QED BY <2>2, <2>3
<1>6. \A c \in Clients : Fidele(c)'
  BY DEF Chemins, Fidele, Ecoute
<1>7. \A c \in Clients : Present(c)' /\ ~EstAccepte(c)' => echo'[c] = <<>> /\ flux'[c] = envoye'[c]
  BY <1>1 DEF Chemins, Present
<1>. QED BY <1>4, <1>5, <1>6, <1>7 DEF Chemins

\* What was read is still on its way; of a line that takes the place of an
\* echo, only what follows the echo is.
LEMMA CheminsLu ==
  ASSUME IInvEcho, Suivi, Uniques, Chemins, programme' = programme, UNCHANGED <<prises, lien>>,
         NEW k0 \in Entrees, Prend(Descripteur(k0)), Entrees' = Entrees, EnCours(k0) = buffer,
         \A k \in Entrees : Descripteur(k)' = Descripteur(k),
         \A k \in Entrees \ {k0} : Du(k)' = Du(k) /\ EnCours(k)' = EnCours(k),
         \/ Du(k0)' = Du(k0) /\ EnCours(k0)' = buffer \o Lu(Descripteur(k0))
         \/ /\ Du(k0)' = buffer \o Lu(Descripteur(k0)) /\ EnCours(k0)' = <<>>
            /\ Ecoute(Client(k0)) /\ Present(Client(k0)) => Du(k0) = <<>>,
         UNCHANGED <<envoye, echo>>
  PROVE  Chemins'
<1>. DEFINE c == Client(k0)
            x == Lu(Descripteur(k0))
<1>1. /\ \A k \in Entrees : Client(k) \in Clients /\ Du(k) \in Seq(Pieces) /\ EnCours(k) \in Seq(Pieces)
      /\ Descripteur(k0) \in Fds /\ c # Personne /\ c \in Clients /\ Types /\ Propres
  BY FaitsVoie DEF Suivi
<1>2. \A k \in Entrees : Client(k)' = Client(k) /\ (k # k0 => Client(k) # c)
  BY UnClient DEF Suivi, Client
<1>3. /\ x \in Seq(Pieces) /\ Len(x) \in 0..Len(flux[c]) /\ flux[c] \in Seq(Pieces)
      /\ flux \in [Clients -> Seq(Pieces)]
  BY <1>1, LuSien, LenProperties DEF Client, Types
<1>4. flux'[c] = SubSeq(flux[c], Len(x) + 1, Len(flux[c])) /\ \A d \in Clients : d # c => flux'[d] = flux[d]
  BY <1>1, <1>3 DEF Prend, Client
<1>5. x = SubSeq(flux[c], 1, Len(x))
  <2>. DEFINE n == IF Place < Len(flux[c]) THEN Place ELSE Len(flux[c])
  <2>1. Place \in Nat
    BY <1>1, LenProperties, Constantes DEF Types, Place
  <2>2. n \in Nat /\ n <= Len(flux[c])
    BY <1>3, <2>1, LenProperties
  <2>3. x = SubSeq(flux[c], 1, n)
    BY DEF Lu, Client
  <2>. HIDE DEF n
  <2>4. Len(x) = n
    <3>1. \A j \in 1..n : flux[c][j] \in Pieces
      BY <1>3, <2>2, ElementOfSeq, LenProperties
    <3>. QED BY <2>2, <2>3, <3>1, SubSeqProperties
  <2>. QED BY <2>3, <2>4
<1>6. flux[c] = x \o flux'[c] /\ flux'[c] \in Seq(Pieces)
  <2>1. x \o flux'[c] = flux[c]
    BY <1>3, <1>4, <1>5, CouperEnDeux
  <2>2. flux'[c] \in Seq(Pieces)
    BY <1>1, <1>3, PrendSien DEF Client
  <2>. QED BY <2>1, <2>2
<1>. HIDE DEF c, x
<1>7. buffer \in Seq(Pieces) /\ buffer \o flux[c] = (buffer \o x) \o flux'[c] /\ buffer \o x \in Seq(Pieces)
  <2>1. buffer \in Seq(Pieces)
    BY <1>1 DEF Types
  <2>2. (buffer \o x) \o flux'[c] = buffer \o (x \o flux'[c])
    <3>. DEFINE y == flux'[c]
    <3>1. y \in Seq(Pieces)
      BY <1>6
    <3>. HIDE DEF y
    <3>2. (buffer \o x) \o y = buffer \o (x \o y)
      BY <1>3, <2>1, <3>1, Associer
    <3>. QED BY <3>2 DEF y
  <2>3. buffer \o x \in Seq(Pieces)
    BY <1>3, <2>1, ConcatProperties
  <2>. QED BY <1>6, <2>1, <2>2, <2>3
<1>8. ASSUME NEW k \in Entrees, k # k0 PROVE Voie(k)'
  <2>1. Voie(k)
    BY DEF Chemins
  <2>2. flux'[Client(k)] = flux[Client(k)]
    BY <1>1, <1>2, <1>4, <1>8
  <2>. QED BY <1>1, <1>2, <1>8, <2>1, <2>2, VoieRien DEF Present
<1>9. Voie(k0)'
  <2>1. Voie(k0) /\ Client(k0)' = c /\ Client(k0) = c
    BY <1>2 DEF Chemins, c
  <2>2. CASE Du(k0)' = Du(k0) /\ EnCours(k0)' = buffer \o x
    <3>1. Chemin(k0)' = Chemin(k0)
      BY <1>7, <2>1, <2>2 DEF Chemin
    <3>. QED BY <2>1, <3>1, VoieReste DEF Present
  <2>3. CASE /\ Du(k0)' = buffer \o x /\ EnCours(k0)' = <<>>
             /\ Ecoute(c) /\ Present(c) => Du(k0) = <<>>
    <3>. DEFINE r == buffer \o flux[c]
    <3>1. echo[c] \in Seq(Pieces) /\ Du(k0) \in Seq(Pieces) /\ r \in Seq(Pieces)
      BY <1>1, <1>3, <1>7, ConcatProperties DEF Types
    <3>2. Chemin(k0) = echo[c] \o (Du(k0) \o r)
      BY <2>1 DEF Chemin
    <3>3. Chemin(k0)' = echo[c] \o r
      <4>1. Chemin(k0)' = echo[c] \o ((buffer \o x) \o (<<>> \o flux'[c]))
        BY <2>1, <2>3 DEF Chemin
      <4>2. <<>> \o flux'[c] = flux'[c]
        BY <1>6, ConcatEmptySeq
      <4>. QED BY <1>7, <4>1, <4>2
    <3>. HIDE DEF r
    <3>4. ASSUME Present(c) PROVE Suit(c, echo[c] \o r)
      <4>1. Suit(c, echo[c] \o (Du(k0) \o r))
        BY <2>1, <3>2, <3>4 DEF Voie
      <4>2. Len(envoye[c]) \in Nat
        BY <1>1, LenProperties DEF Types
      <4>3. Numerotes(echo[c] \o r, Len(envoye[c]))
        BY <3>1, <4>1, <4>2, NumerotesSaute DEF Suit
      <4>4. Ecoute(c) => echo[c] \o r = envoye[c]
        <5>1. <<>> \o r = r
          BY <3>1, ConcatEmptySeq
        <5>. QED BY <2>3, <3>4, <4>1, <5>1 DEF Suit
      <4>. QED BY <4>3, <4>4 DEF Suit
    <3>. QED BY <2>1, <3>3, <3>4 DEF Voie, Suit, Present, Ecoute
  <2>. QED BY <2>2, <2>3 DEF x, c
<1>10. \A d \in Clients : Fidele(d)'
  BY DEF Chemins, Fidele, Ecoute
<1>11. ASSUME NEW d \in Clients, Present(d)', ~EstAccepte(d)'
       PROVE  echo'[d] = <<>> /\ flux'[d] = envoye'[d]
  <2>1. Present(d) /\ ~EstAccepte(d)
    BY <1>11 DEF Present, EstAccepte
  <2>2. d # c
    BY <1>1, <2>1 DEF EstAccepte, Client, c
  <2>. QED BY <1>4, <2>1, <2>2 DEF Chemins
<1>. QED BY <1>8, <1>9, <1>10, <1>11 DEF Chemins

\* What is sent goes from the entry to the client.
LEMMA CheminsSend ==
  ASSUME IInvEcho, Suivi, Uniques, Chemins, programme' = programme, UNCHANGED prises,
         NEW k0 \in Entrees, send(Descripteur(k0), Du(k0)), Entrees' = Entrees,
         \A k \in Entrees : Descripteur(k)' = Descripteur(k) /\ EnCours(k)' = EnCours(k),
         \A k \in Entrees \ {k0} : Du(k)' = Du(k),
         Du(k0)' = <<>>, UNCHANGED <<envoye, flux>>
  PROVE  Chemins' /\ \A d \in Clients : Present(d)' => Present(d)
<1>a. PICK c : c = Client(k0)
  OBVIOUS
<1>1. /\ \A k \in Entrees : Client(k) \in Clients /\ Du(k) \in Seq(Pieces) /\ EnCours(k) \in Seq(Pieces)
      /\ Descripteur(k0) \in Fds /\ c # Personne /\ c \in Clients /\ Types /\ Propres
  BY <1>a, FaitsVoie DEF Suivi
<1>2. \A k \in Entrees : Client(k)' = Client(k) /\ (k # k0 => Client(k) # c)
  BY <1>a, UnClient DEF Suivi, Client
<1>3. /\ lien' = [lien EXCEPT ![c] = Suite[@]]
      /\ echo' = [echo EXCEPT ![c] = IF lien[c] = "ouvert" THEN @ \o Du(k0) ELSE @]
  BY <1>a, <1>1 DEF send, Client
<1>4. /\ \A d \in Clients : d # c => lien'[d] = lien[d] /\ echo'[d] = echo[d]
      /\ lien'[c] = Suite[lien[c]] /\ lien[c] \in DOMAIN Suite
      /\ echo'[c] = IF lien[c] = "ouvert" THEN echo[c] \o Du(k0) ELSE echo[c]
  BY <1>1, <1>3 DEF Types
<1>5. (Present(c)' => Present(c)) /\ lien[c] # "dehors"
  <2>1. EstAccepte(c)
    BY <1>a, <1>1 DEF Client, EstAccepte
  <2>. QED BY <1>1, <1>4, <2>1 DEF Suite, Present, Uniques
<1>6. \A d \in Clients : Present(d)' => Present(d)
  BY <1>4, <1>5 DEF Present
<1>7. ASSUME NEW k \in Entrees, k # k0 PROVE Voie(k)'
  <2>1. Voie(k) /\ Client(k) # c
    BY <1>2, <1>7 DEF Chemins
  <2>2. Client(k) \in Clients /\ Client(k)' = Client(k)
    BY <1>1, <1>2
  <2>3. Present(Client(k))' => Present(Client(k))
    BY <1>4, <2>1, <2>2 DEF Present
  <2>. QED BY <1>4, <1>7, <2>1, <2>2, <2>3, VoieRien
<1>8. Voie(k0)' /\ Fidele(c)'
  <2>1. Voie(k0) /\ Client(k0)' = c /\ Client(k0) = c
    BY <1>a, <1>2 DEF Chemins
  <2>2. CASE lien[c] = "ouvert"
    <3>. DEFINE y == EnCours(k0) \o flux[c]
    <3>1. echo[c] \in Seq(Pieces) /\ flux[c] \in Seq(Pieces) /\ envoye[c] \in Seq(Pieces)
          /\ Du(k0) \in Seq(Pieces) /\ EnCours(k0) \in Seq(Pieces)
      BY <1>1 DEF Types
    <3>2. y \in Seq(Pieces)
      BY <3>1, ConcatProperties
    <3>3. Chemin(k0)' = (echo[c] \o Du(k0)) \o (<<>> \o y)
      BY <1>4, <2>1, <2>2 DEF Chemin
    <3>4. Chemin(k0) = echo[c] \o (Du(k0) \o y)
      BY <2>1 DEF Chemin
    <3>. HIDE DEF y
    <3>5. Chemin(k0)' = Chemin(k0)
      <4>1. \A u, v, w \in Seq(Pieces) : (u \o v) \o (<<>> \o w) = u \o (v \o w)
        BY Assembler
      <4>2. (echo[c] \o Du(k0)) \o (<<>> \o y) = echo[c] \o (Du(k0) \o y)
        BY <3>1, <3>2, <4>1
      <4>. QED BY <3>3, <3>4, <4>2
    <3>6. Voie(k0)'
      BY <1>5, <2>1, <3>5, VoieReste
    <3>7. Suit(c, Chemin(k0))
      BY <2>1, <2>2 DEF Voie, Present
    <3>8. echo'[c] \in Seq(Pieces) /\ <<>> \o y \in Seq(Pieces) /\ Len(envoye[c]) \in Nat
          /\ Chemin(k0) = echo'[c] \o (<<>> \o y)
      <4>1. echo[c] \o Du(k0) \in Seq(Pieces)
        BY <3>1, ConcatProperties
      <4>2. <<>> \o y = y
        BY <3>2, ConcatEmptySeq
      <4>3. Len(envoye[c]) \in Nat
        BY <3>1, LenProperties
      <4>. QED BY <1>4, <2>2, <3>2, <3>3, <3>5, <4>1, <4>2, <4>3
    <3>. DEFINE e == echo'[c]
                r == <<>> \o y
    <3>9. /\ e \in Seq(Pieces) /\ r \in Seq(Pieces) /\ Len(envoye[c]) \in Nat /\ Numerotes(e \o r, Len(envoye[c]))
          /\ Ecoute(c) => e \o r = envoye[c]
      BY <3>7, <3>8 DEF Suit
    <3>. HIDE DEF e, r
    <3>10. (\A j, k \in 1..Len(e) : j < k => e[j].n < e[k].n) /\ (Ecoute(c) => IsPrefix(e, envoye[c]))
      BY <3>9, VoieFidele
    <3>. QED BY <3>6, <3>10 DEF e, Fidele, Ecoute
  <2>3. CASE lien[c] # "ouvert"
    <3>1. ~Present(c)
      BY <1>5, <2>3 DEF Present
    <3>2. echo'[c] = echo[c]
      BY <1>4, <2>3
    <3>3. ~Present(c)'
      BY <1>5, <3>1
    <3>4. Fidele(c)'
      BY <1>1, <3>2 DEF Chemins, Fidele, Ecoute
    <3>. QED BY <2>1, <3>3, <3>4 DEF Voie, Present
  <2>. QED BY <2>2, <2>3
<1>9. \A d \in Clients : Fidele(d)'
  BY <1>4, <1>8 DEF Chemins, Fidele, Ecoute
<1>10. ASSUME NEW d \in Clients, Present(d)', ~EstAccepte(d)'
       PROVE  echo'[d] = <<>> /\ flux'[d] = envoye'[d]
  <2>1. Present(d) /\ ~EstAccepte(d)
    BY <1>6, <1>10 DEF EstAccepte
  <2>2. d # c
    BY <1>a, <1>1, <2>1 DEF EstAccepte, Client
  <2>. QED BY <1>4, <2>1, <2>2 DEF Chemins
<1>. QED BY <1>6, <1>7, <1>8, <1>9, <1>10 DEF Chemins

\* A connection that the server closes takes its entry with it.
LEMMA CheminsClose ==
  ASSUME IInvEcho, Suivi, Uniques, Chemins, programme' = programme, attente' = attente,
         NEW k0 \in Entrees, close(Descripteur(k0)), Entrees' = Entrees \ {k0},
         \A k \in Entrees \ {k0} :
            Descripteur(k)' = Descripteur(k) /\ Du(k)' = Du(k) /\ EnCours(k)' = EnCours(k),
         UNCHANGED <<envoye, echo, flux>>
  PROVE  Chemins' /\ \A d \in Clients : Present(d)' => Present(d)
<1>. DEFINE c == Client(k0)
<1>1. /\ \A k \in Entrees : Client(k) \in Clients /\ Descripteur(k) \in Fds
      /\ \A k, l \in Entrees : Descripteur(k) = Descripteur(l) => k = l
      /\ c # Personne /\ c \in Clients /\ Types
  BY FaitsVoie DEF Suivi
<1>2. \A k \in Entrees : k # k0 => Client(k) # c
  BY UnClient DEF Suivi
<1>3. /\ lien'[c] = "fini"
      /\ \A d \in Clients : d # c => lien'[d] = lien[d] /\ (EstAccepte(d)' <=> EstAccepte(d))
  BY <1>1, UniquesClose DEF Client
<1>4. \A g \in Fds : g # Descripteur(k0) => prises'[g] = prises[g]
  BY <1>1, CloseSuit
<1>5. \A d \in Clients : Present(d)' => Present(d) /\ d # c
  BY <1>3 DEF Present
<1>6. ASSUME NEW k \in Entrees' PROVE Voie(k)'
  <2>1. k \in Entrees /\ k # k0 /\ Voie(k)
    BY <1>6 DEF Chemins
  <2>2. Client(k)' = Client(k) /\ Client(k) \in Clients
    BY <1>1, <1>4, <2>1 DEF Client
  <2>3. Present(Client(k))' => Present(Client(k))
    BY <1>5, <2>2 DEF Present
  <2>. QED BY <2>1, <2>2, <2>3, VoieRien
<1>7. \A d \in Clients : Fidele(d)'
  BY DEF Chemins, Fidele, Ecoute
<1>8. \A d \in Clients : Present(d)' /\ ~EstAccepte(d)' => echo'[d] = <<>> /\ flux'[d] = envoye'[d]
  BY <1>3, <1>5 DEF Chemins
<1>. QED BY <1>5, <1>6, <1>7, <1>8 DEF Chemins

\* --- the clients ---------------------------------------------------------------------
LEMMA CheminsConnecte ==
  ASSUME IInvEcho, Suivi, Chemins, programme' = programme, NEW c \in Clients, Connecte(c),
         UNCHANGED <<serveur, selection, table>>
  PROVE  Chemins' /\ \A d \in Clients : Present(d)' => Present(d)
<1>1. /\ lien[c] = "dehors" /\ lien' = [lien EXCEPT ![c] = "ouvert"]
      /\ UNCHANGED <<envoye, flux, echo, prises, etape, i, buffer>>
  BY DEF Connecte, serveur
<1>2. /\ Entrees' = Entrees
      /\ \A k : Descripteur(k)' = Descripteur(k) /\ Du(k)' = Du(k) /\ EnCours(k)' = EnCours(k)
  BY <1>1 DEF Entrees, Descripteur, Du, EnCours, selection, table
<1>3. lien \in [Clients -> DOMAIN Suite]
  BY DEF IInvEcho, Types
<1>4. \A d \in Clients : Present(d)' => Present(d)
  BY <1>1, <1>3 DEF Present
<1>. QED BY <1>1, <1>2, <1>4, CheminsRien

LEMMA CheminsPart ==
  ASSUME IInvEcho, Suivi, Chemins, programme' = programme, NEW c \in Clients, Part(c),
         UNCHANGED <<serveur, selection, table>>
  PROVE  Chemins' /\ \A d \in Clients : Present(d)' => Present(d)
<1>1. PICK fin \in {"ferme", "coupe"} : lien' = [lien EXCEPT ![c] = fin]
  BY DEF Part
<1>2. UNCHANGED <<envoye, flux, echo, prises, etape, i, buffer>>
  BY DEF Part, serveur
<1>3. /\ Entrees' = Entrees
      /\ \A k : Descripteur(k)' = Descripteur(k) /\ Du(k)' = Du(k) /\ EnCours(k)' = EnCours(k)
  BY <1>2 DEF Entrees, Descripteur, Du, EnCours, selection, table
<1>4. lien \in [Clients -> DOMAIN Suite]
  BY DEF IInvEcho, Types
<1>5. \A d \in Clients : Present(d)' => Present(d)
  BY <1>1, <1>4 DEF Present
<1>. QED BY <1>2, <1>3, <1>5, CheminsRien

\* What a client sends is the end of its way.
LEMMA CheminsEnvoie ==
  ASSUME IInvEcho, Suivi, Uniques, Chemins, programme' = programme, NEW c \in Clients, NEW fin \in BOOLEAN,
         Envoie(c, fin), UNCHANGED <<serveur, selection, table>>
  PROVE  Chemins'
<1>1. PICK m : m = [de |-> c, n |-> Len(envoye[c]) + 1, fin |-> fin]
  OBVIOUS
<1>2. /\ envoye' = [envoye EXCEPT ![c] = Append(@, m)] /\ flux' = [flux EXCEPT ![c] = Append(@, m)]
      /\ lien[c] = "ouvert" /\ UNCHANGED <<lien, echo, prises, etape, i, buffer>>
  BY <1>1 DEF Envoie, serveur
<1>3. /\ Entrees' = Entrees
      /\ \A k : Descripteur(k)' = Descripteur(k) /\ Du(k)' = Du(k) /\ EnCours(k)' = EnCours(k)
      /\ \A k : Client(k)' = Client(k)
  BY <1>2 DEF Entrees, Descripteur, Du, EnCours, selection, table, Client
<1>4. /\ \A k \in Entrees : Client(k) \in Clients /\ Du(k) \in Seq(Pieces) /\ EnCours(k) \in Seq(Pieces)
      /\ envoye \in [Clients -> Seq(Pieces)] /\ flux \in [Clients -> Seq(Pieces)]
      /\ echo \in [Clients -> Seq(Pieces)]
  BY FaitsVoie DEF Suivi, Types
<1>5. Len(envoye[c]) \in Nat /\ m \in Pieces /\ m.n = Len(envoye[c]) + 1
  <2>1. Len(envoye[c]) \in Nat
    BY <1>4, LenProperties
  <2>. QED BY <1>1, <2>1 DEF Pieces
<1>6. /\ envoye'[c] = Append(envoye[c], m) /\ flux'[c] = Append(flux[c], m)
      /\ \A d \in Clients : d # c => envoye'[d] = envoye[d] /\ flux'[d] = flux[d]
  BY <1>2, <1>4
<1>7. /\ Len(envoye'[c]) = Len(envoye[c]) + 1 /\ envoye'[c][Len(envoye[c]) + 1] = m
      /\ \A j \in 1..Len(envoye[c]) : envoye'[c][j] = envoye[c][j]
  BY <1>4, <1>5, <1>6, AppendProperties
<1>8. ASSUME NEW k \in Entrees PROVE Voie(k)'
  <2>1. Voie(k)
    BY DEF Chemins
  <2>2. CASE Client(k) # c
    BY <1>2, <1>3, <1>4, <1>6, <2>1, <2>2, VoieRien DEF Present
  <2>3. CASE Client(k) = c
    <3>1. Suit(c, Chemin(k))
      BY <1>2, <2>1, <2>3 DEF Voie, Present
    <3>2. Chemin(k)' = echo[c] \o (Du(k) \o (EnCours(k) \o Append(flux[c], m)))
      BY <1>2, <1>3, <1>6, <2>3 DEF Chemin
    <3>3. Chemin(k)' = Append(Chemin(k), m)
      <4>1. echo[c] \in Suites /\ Du(k) \in Suites /\ EnCours(k) \in Suites /\ flux[c] \in Suites
        BY <1>4 DEF Suites
      <4>2. AuBout(echo[c], Du(k), EnCours(k), flux[c], m)
        BY <1>5, <4>1, AjouterAuBout
      <4>. QED BY <2>3, <3>2, <4>2 DEF Chemin, AuBout
    <3>4. Chemin(k) \in Seq(Pieces)
      <4>. DEFINE y == EnCours(k) \o flux[c]
      <4>1. y \in Seq(Pieces)
        BY <1>4, ConcatProperties
      <4>2. Chemin(k) = echo[c] \o (Du(k) \o y)
        BY <2>3 DEF Chemin
      <4>. HIDE DEF y
      <4>3. \A t, u, v \in Seq(Pieces) : t \o (u \o v) \in Seq(Pieces)
        BY Assembler
      <4>. QED BY <1>4, <4>1, <4>2, <4>3
    <3>5. Numerotes(Append(Chemin(k), m), Len(envoye[c]) + 1)
      BY <1>5, <3>1, <3>4, NumerotesAjout DEF Suit
    <3>6. Ecoute(c)' => Append(Chemin(k), m) = envoye'[c]
      BY <1>6, <3>1 DEF Suit, Ecoute
    <3>. QED BY <1>3, <1>7, <2>3, <3>3, <3>5, <3>6 DEF Voie, Suit
  <2>. QED BY <2>2, <2>3
<1>9. ASSUME NEW d \in Clients PROVE Fidele(d)'
  <2>1. Fidele(d)
    BY DEF Chemins
  <2>2. CASE d # c
    BY <1>2, <1>6, <2>1, <2>2 DEF Fidele, Ecoute
  <2>3. CASE d = c
    <3>1. IsPrefix(echo[c], envoye[c]) => IsPrefix(echo[c], envoye'[c])
      <4>. SUFFICES ASSUME IsPrefix(echo[c], envoye[c]) PROVE IsPrefix(echo[c], envoye'[c])
        OBVIOUS
      <4>1. /\ Len(echo[c]) \in Nat /\ Len(echo[c]) <= Len(envoye[c])
            /\ SubSeq(echo[c], 1, Len(echo[c])) = SubSeq(envoye[c], 1, Len(echo[c]))
        BY <1>4, LenProperties DEF IsPrefix
      <4>2. SubSeq(envoye'[c], 1, Len(echo[c])) = SubSeq(envoye[c], 1, Len(echo[c]))
        <5>1. envoye'[c] = envoye[c] \o <<m>> /\ <<m>> \in Seq(Pieces)
          BY <1>4, <1>5, <1>6, AppendIsConcat
        <5>2. CASE Len(echo[c]) = 0
          BY <5>2, SubSeqEmpty
        <5>3. CASE Len(echo[c]) # 0
          <6>1. 1 \in 1..Len(envoye[c]) /\ Len(echo[c]) \in 1..Len(envoye[c])
            BY <1>5, <4>1, <5>3
          <6>. QED BY <1>4, <5>1, <6>1, SubSeqOfConcat1
        <5>. QED BY <5>2, <5>3
      <4>. QED BY <1>5, <1>7, <4>1, <4>2 DEF IsPrefix
    <3>. QED BY <1>2, <2>1, <2>3, <3>1 DEF Fidele, Ecoute
  <2>. QED BY <2>2, <2>3
<1>10. ASSUME NEW d \in Clients, Present(d)', ~EstAccepte(d)'
       PROVE  echo'[d] = <<>> /\ flux'[d] = envoye'[d]
  <2>1. Present(d) /\ ~EstAccepte(d)
    BY <1>2, <1>10 DEF Present, EstAccepte
  <2>2. echo[d] = <<>> /\ flux[d] = envoye[d]
    BY <2>1 DEF Chemins
  <2>. QED BY <1>2, <1>6, <2>2
<1>11. ASSUME NEW d \in Clients, NEW j \in 1..Len(envoye'[d]) PROVE envoye'[d][j].n = j
  <2>1. \A l \in 1..Len(envoye[d]) : envoye[d][l].n = l
    BY DEF Chemins
  <2>2. CASE d # c
    BY <1>6, <2>1, <2>2
  <2>3. CASE d = c /\ j = Len(envoye[c]) + 1
    BY <1>5, <1>7, <2>3
  <2>4. CASE d = c /\ j # Len(envoye[c]) + 1
    <3>1. j \in 1..Len(envoye[c])
      BY <1>5, <1>7, <2>4
    <3>. QED BY <1>7, <2>1, <2>4, <3>1
  <2>. QED BY <2>2, <2>3, <2>4
<1>. QED BY <1>3, <1>8, <1>9, <1>10, <1>11 DEF Chemins

\* --- serEcho, step by step -----------------------------------------------------------
LEMMA PatienceReste ==
  ASSUME Types, Types', Patience, programme' = programme, envoye' = envoye, flux' = flux,
         \A c \in Clients : Present(c)' => Present(c) /\ Len(echo[c]) <= Len(echo'[c]),
         \A k \in Entrees' :
            \/ Du(k)' = <<>>
            \/ /\ k \in Entrees /\ Client(k)' = Client(k) /\ Client(k) \in Clients
               /\ Du(k)' = Du(k) /\ EnCours(k)' = EnCours(k)
  PROVE  Patience'
<1>1. ASSUME NEW c \in Clients \ Bavards, Present(c)' PROVE UneLigne(c)'
  <2>1. UneLigne(c) /\ Len(echo[c]) <= Len(echo'[c])
    BY <1>1 DEF Patience
  <2>2. Len(echo[c]) \in Nat /\ Len(echo'[c]) \in Nat /\ Len(envoye[c]) \in Nat
    BY LenProperties DEF Types
  <2>3. \A j \in (Len(echo'[c]) + 1)..(Len(envoye[c]) - 1) : j \in (Len(echo[c]) + 1)..(Len(envoye[c]) - 1)
    BY <2>1, <2>2
  <2>. QED BY <2>1, <2>3 DEF UneLigne
<1>2. ASSUME NEW k \in Entrees' PROVE Patient(k)'
  <2>1. CASE Du(k)' = <<>>
    BY <2>1 DEF Patient
  <2>2. CASE /\ k \in Entrees /\ Client(k)' = Client(k) /\ Client(k) \in Clients
             /\ Du(k)' = Du(k) /\ EnCours(k)' = EnCours(k)
    <3>1. Patient(k)
      BY <2>2 DEF Patience
    <3>2. Present(Client(k))' => Present(Client(k))
      <4>1. \A d \in Clients : lien'[d] \in {"dehors", "ouvert"} => Present(d)
        BY DEF Present
      <4>. QED BY <2>2, <4>1 DEF Present
    <3>. QED BY <2>2, <3>1, <3>2 DEF Patient, AuMilieu
  <2>. QED BY <2>1, <2>2
<1>. QED BY <1>1, <1>2 DEF Patience

LEMMA EntreesSerEcho ==
  ASSUME programme = "serEcho"
  PROVE  /\ Entrees = {k \in 1..MAX : client_sockets[k] # 0}
         /\ \A k : Descripteur(k) = client_sockets[k] /\ Du(k) = donnees[k]
BY DEF Entrees, Descripteur, Du

LEMMA EntreesSerEchoApres ==
  ASSUME programme' = "serEcho"
  PROVE  /\ Entrees' = {k \in 1..MAX : client_sockets'[k] # 0}
         /\ \A k : Descripteur(k)' = client_sockets'[k] /\ Du(k)' = donnees'[k]
BY DEF Entrees, Descripteur, Du

LEMMA HorsLecture ==
  /\ etape # "lit" => \A k : EnCours(k) = <<>>
  /\ etape' # "lit" => \A k : EnCours(k)' = <<>>
BY DEF EnCours

LEMMA SelectFidele ==
  ASSUME IInvEcho, IInvEcho', programme = "serEcho", programme' = programme, select,
         Uniques, Chemins, Patience
  PROVE  Uniques' /\ Chemins' /\ Patience'
<1>1. /\ etape = "attend" /\ Avance(1) /\ donnees' = donnees
      /\ envoye' = envoye /\ flux' = flux /\ echo' = echo
  BY DEF select, clients
<1>2. \A k : EnCours(k)' = EnCours(k) /\ EnCours(k)' = <<>>
  <2>1. etape' # "lit"
    BY <1>1, AvanceJuste
  <2>. QED BY <1>1, <2>1, HorsLecture
<1>3. /\ Types /\ Types' /\ Suivi /\ AccordSelect /\ Exacte
      /\ \A k \in Entrees : Client(k) \in Clients
  BY FaitsVoie DEF Suivi, IInvEcho
<1>4. /\ Entrees = {k \in 1..MAX : client_sockets[k] # 0}
      /\ Entrees' = {k \in 1..MAX : client_sockets'[k] # 0}
      /\ \A k : Descripteur(k) = client_sockets[k] /\ Du(k) = donnees[k]
      /\ \A k : Descripteur(k)' = client_sockets'[k] /\ Du(k)' = donnees'[k]
  BY EntreesSerEcho, EntreesSerEchoApres
<1>8. \A c \in Clients : Len(echo[c]) <= Len(echo'[c])
  BY <1>1, <1>3, LenProperties DEF Types
<1>5. CASE attente' = attente /\ lien' = lien /\ prises' = prises /\ client_sockets' = client_sockets
  <2>1. Uniques'
    BY <1>3, <1>5, UniquesReste
  <2>2. Chemins'
    BY <1>1, <1>2, <1>3, <1>4, <1>5, CheminsRien DEF Present
  <2>3. \A k \in Entrees' : /\ k \in Entrees /\ Client(k)' = Client(k) /\ Client(k) \in Clients
                             /\ Du(k)' = Du(k) /\ EnCours(k)' = EnCours(k)
    BY <1>1, <1>2, <1>3, <1>4, <1>5 DEF Client
  <2>4. \A c \in Clients : Present(c)' => Present(c) /\ Len(echo[c]) <= Len(echo'[c])
    BY <1>1, <1>5, <1>8 DEF Present
  <2>5. Patience'
    BY <1>1, <1>3, <2>3, <2>4, PatienceReste
  <2>. QED BY <2>1, <2>2, <2>5
<1>6. CASE /\ Vides = {} /\ attente # <<>>
           /\ lien' = [lien EXCEPT ![Head(attente)] = "fini"] /\ attente' = Tail(attente)
           /\ prises' = prises /\ client_sockets' = client_sockets
  <2>1. \A c \in Clients : lien'[c] = lien[c] \/ lien'[c] = "fini"
    BY <1>3, <1>6 DEF Types
  <2>2. Uniques'
    BY <1>3, <1>6, <2>1, UniquesTail
  <2>3. \A c \in Clients : Present(c)' => Present(c)
    BY <2>1 DEF Present
  <2>4. Chemins'
    BY <1>1, <1>2, <1>3, <1>4, <1>6, <2>3, CheminsRien
  <2>5. \A k \in Entrees' : /\ k \in Entrees /\ Client(k)' = Client(k) /\ Client(k) \in Clients
                             /\ Du(k)' = Du(k) /\ EnCours(k)' = EnCours(k)
    BY <1>1, <1>2, <1>3, <1>4, <1>6 DEF Client
  <2>6. Patience'
    BY <1>1, <1>3, <1>8, <2>3, <2>5, PatienceReste
  <2>. QED BY <2>2, <2>4, <2>6
<1>7. CASE /\ Vides # {} /\ accept /\ lien' = lien
           /\ client_sockets' = [client_sockets EXCEPT ![Premier(Vides)] = FdLibre]
  <2>1. PICK v : v = Premier(Vides)
    OBVIOUS
  <2>2. v \in 1..MAX /\ client_sockets[v] = 0
    <3>1. Vides \subseteq Nat
      BY Constantes DEF Vides
    <3>2. Premier(Vides) \in Vides
      BY <1>7, <3>1, PremierDe
    <3>. QED BY <2>1, <3>2 DEF Vides
  <2>3. FdLibre \in Fds /\ prises[FdLibre] = Personne
    <3>1. MAX \in Nat /\ MAX < MAX + MAX_POLL /\ Entrees \subseteq 1..MAX
      BY <1>4, Constantes
    <3>. QED BY <1>3, <3>1, DescripteurLibre
  <2>4. Uniques'
    BY <1>3, <1>7, <2>3, UniquesAccept
  <2>5. /\ client_sockets'[v] = FdLibre /\ client_sockets'[v] # 0
        /\ \A k \in 1..MAX : k # v => client_sockets'[k] = client_sockets[k]
        /\ donnees[v] = <<>>
    <3>1. /\ client_sockets \in [1..MAX -> Fds \cup {0}]
          /\ \A k \in 1..MAX : donnees[k] # <<>> => client_sockets[k] # 0
      BY <1>3, FaitsSelect
    <3>2. FdLibre # 0
      BY <2>3, Descripteurs
    <3>. QED BY <1>7, <2>1, <2>2, <3>1, <3>2
  <2>6. /\ v \notin Entrees /\ Entrees' = Entrees \cup {v}
        /\ \A k \in Entrees : Descripteur(k)' = Descripteur(k)
    BY <1>4, <2>2, <2>5
  <2>7. Chemins'
    BY <1>1, <1>2, <1>3, <1>4, <1>7, <2>3, <2>5, <2>6, CheminsAccept
  <2>8. \A k \in Entrees : Client(k)' = Client(k)
    <3>1. /\ \A k \in Entrees : Descripteur(k) \in Fds /\ prises[Descripteur(k)] # Personne
          /\ prises' = [prises EXCEPT ![FdLibre] = Head(attente)] /\ prises \in [Fds -> Clients \cup {Personne}]
      BY <1>3, <1>7, ExacteAvant DEF accept, Types
    <3>. QED BY <2>3, <2>6, <3>1 DEF Client
  <2>9. \A k \in Entrees' :
            \/ Du(k)' = <<>>
            \/ /\ k \in Entrees /\ Client(k)' = Client(k) /\ Client(k) \in Clients
               /\ Du(k)' = Du(k) /\ EnCours(k)' = EnCours(k)
    BY <1>1, <1>2, <1>3, <1>4, <2>5, <2>6, <2>8
  <2>10. \A c \in Clients : Present(c)' => Present(c) /\ Len(echo[c]) <= Len(echo'[c])
    BY <1>1, <1>7, <1>8 DEF Present
  <2>. QED BY <1>1, <1>3, <2>4, <2>7, <2>9, <2>10, PatienceReste
<1>. QED BY <1>5, <1>6, <1>7 DEF select, clients

LEMMA CommenceFidele ==
  ASSUME IInvEcho, IInvEcho', programme = "serEcho", programme' = programme, Commence \/ MeurtEnEcrivant,
         Uniques, Chemins, Patience
  PROVE  Uniques' /\ Chemins' /\ Patience'
<1>1. /\ UNCHANGED <<lien, envoye, flux, echo, attente, prises, selection>>
      /\ etape # "lit" /\ (etape' = "lit" => buffer' = <<>>)
  BY DEF Commence, MeurtEnEcrivant, clients, memset
<1>2. \A k : EnCours(k)' = EnCours(k)
  BY <1>1 DEF EnCours
<1>3. Types /\ Types' /\ Suivi /\ \A k \in Entrees : Client(k) \in Clients
  BY FaitsVoie DEF Suivi, IInvEcho
<1>4. Entrees' = Entrees /\ \A k : Descripteur(k)' = Descripteur(k) /\ Du(k)' = Du(k) /\ Client(k)' = Client(k)
  BY <1>1 DEF Entrees, Descripteur, Du, selection, Client
<1>5. \A c \in Clients : Len(echo[c]) <= Len(echo'[c])
  BY <1>1, <1>3, LenProperties DEF Types
<1>6. Uniques'
  BY <1>1, <1>3, UniquesReste
<1>7. Chemins'
  BY <1>1, <1>2, <1>3, <1>4, CheminsRien DEF Present
<1>8. \A c \in Clients : Present(c)' => Present(c)
  BY <1>1 DEF Present
<1>9. Patience'
  BY <1>1, <1>2, <1>3, <1>4, <1>5, <1>8, PatienceReste
<1>. QED BY <1>6, <1>7, <1>9

LEMMA PlusLong ==
  ASSUME NEW s \in Seq(Pieces), NEW t \in Seq(Pieces), NEW u, u = s \o t
  PROVE  Len(s) <= Len(u)
<1>1. Len(s) \in Nat /\ Len(t) \in Nat /\ Len(s \o t) = Len(s) + Len(t)
  BY LenProperties, ConcatProperties
<1>. QED BY <1>1

LEMMA AuBoutDe ==
  \A x, k, y \in Nat : k > 0 /\ x + k <= y /\ x + k \notin (x + 1)..(y - 1) => x + k = y
OBVIOUS

\* The line of a client that waits for its echo is the last thing it sent.
LEMMA LigneEntiere ==
  ASSUME NEW e \in Seq(Pieces), NEW b \in Seq(Pieces), NEW f \in Seq(Pieces), NEW s,
         s = e \o (b \o f), FinDeLigne(b),
         \A j \in (Len(e) + 1)..(Len(s) - 1) : ~s[j].fin
  PROVE  f = <<>> /\ s # <<>> /\ Last(s).fin
<1>1. PICK k \in 1..Len(b) : b[k].fin
  BY DEF FinDeLigne
<1>2. Len(e) \in Nat /\ Len(b) \in Nat /\ Len(f) \in Nat
  BY LenProperties
<1>3. /\ b \o f \in Seq(Pieces) /\ Len(b \o f) = Len(b) + Len(f)
      /\ \A j \in 1..Len(b) + Len(f) : (b \o f)[j] = IF j <= Len(b) THEN b[j] ELSE f[j - Len(b)]
  BY ConcatProperties
<1>4. /\ s \in Seq(Pieces) /\ Len(s) = Len(e) + (Len(b) + Len(f))
      /\ \A j \in 1..Len(e) + (Len(b) + Len(f)) : s[j] = IF j <= Len(e) THEN e[j] ELSE (b \o f)[j - Len(e)]
  BY <1>3, ConcatProperties
<1>5. s[Len(e) + k] = b[k]
  <2>1. Len(e) + k \in 1..Len(e) + (Len(b) + Len(f)) /\ ~(Len(e) + k <= Len(e)) /\ Len(e) + k - Len(e) = k
    BY <1>2
  <2>2. s[Len(e) + k] = (b \o f)[k]
    BY <1>4, <2>1
  <2>3. (b \o f)[k] = b[k]
    BY <1>2, <1>3
  <2>. QED BY <2>2, <2>3
<1>6. Len(e) + k = Len(s)
  <2>1. Len(e) + k \notin (Len(e) + 1)..(Len(s) - 1)
    BY <1>1, <1>5
  <2>2. Len(s) \in Nat /\ k \in Nat /\ k > 0 /\ Len(e) + k <= Len(s)
    BY <1>1, <1>2, <1>4
  <2>. QED BY <1>2, <2>1, <2>2, AuBoutDe
<1>7. Len(f) = 0
  BY <1>1, <1>2, <1>4, <1>6
<1>8. f = <<>>
  BY <1>7, EmptySeq
<1>9. Last(s) = s[Len(s)] /\ s # <<>>
  BY <1>2, <1>4, <1>6 DEF Last
<1>. QED BY <1>1, <1>5, <1>6, <1>8, <1>9

LEMMA RecoitFidele ==
  ASSUME IInvEcho, IInvEcho', programme = "serEcho", programme' = programme, Recoit,
         Uniques, Chemins, Patience
  PROVE  Uniques' /\ Chemins' /\ Patience'
<1>1. /\ etape = "lit" /\ DesOctets(sd) /\ Prend(sd) /\ buffer' = buffer \o Lu(sd)
      /\ UNCHANGED <<lien, envoye, echo, attente, prises, i, client_sockets>>
      /\ IF FinDeLigne(buffer') THEN donnees' = [donnees EXCEPT ![i] = buffer'] /\ etape' = "ecrit"
         ELSE donnees' = donnees /\ etape' = etape
  BY DEF Recoit
<1>2. /\ Types /\ Types' /\ Suivi /\ AccordSelect /\ Propres
      /\ \A k \in Entrees : Client(k) \in Clients /\ Du(k) \in Seq(Pieces)
  BY FaitsVoie DEF Suivi, IInvEcho
<1>3. /\ Entrees = {k \in 1..MAX : client_sockets[k] # 0} /\ Entrees' = Entrees
      /\ \A k : Descripteur(k) = client_sockets[k] /\ Du(k) = donnees[k]
      /\ \A k : Descripteur(k)' = client_sockets[k] /\ Du(k)' = donnees'[k]
      /\ \A k : Client(k)' = Client(k)
  BY <1>1, EntreesSerEcho, EntreesSerEchoApres DEF Client
<1>4. i \in 1..MAX /\ donnees \in [1..MAX -> Seq(Pieces)] /\ sd \in Fds /\ i \in Entrees /\ sd = Descripteur(i)
  BY <1>1, <1>2, <1>3, FaitsSelect, Descripteurs DEF sd
<1>5. EnCours(i) = buffer /\ \A k \in Entrees \ {i} : EnCours(k)' = EnCours(k) /\ Du(k)' = Du(k)
  BY <1>1, <1>3, <1>4 DEF EnCours
<1>6. \/ ~FinDeLigne(buffer') /\ Du(i)' = Du(i) /\ EnCours(i)' = buffer \o Lu(sd)
      \/ FinDeLigne(buffer') /\ Du(i)' = buffer \o Lu(sd) /\ EnCours(i)' = <<>>
  BY <1>1, <1>3, <1>4 DEF EnCours
<1>7. flux[Client(i)] # <<>>
  BY <1>1, <1>4 DEF DesOctets, Client
<1>8. Ecoute(Client(i)) /\ Present(Client(i)) => Du(i) = <<>> /\ Client(i) \notin Bavards
  BY <1>4, <1>7 DEF Patience, Patient, Ecoute
<1>9. Chemins'
  BY <1>1, <1>2, <1>3, <1>4, <1>5, <1>6, <1>8, CheminsLu
<1>10. Uniques'
  BY <1>1, <1>2, UniquesReste
<1>11. PICK c \in Clients : c = Client(i)
  BY <1>2, <1>4
<1>12. \A d \in Clients \ Bavards : Present(d)' => UneLigne(d)'
  BY <1>1 DEF Patience, UneLigne, Present
<1>13. ASSUME NEW k \in Entrees, k # i PROVE Patient(k)'
  <2>1. Client(k) # c
    BY <1>2, <1>4, <1>11, <1>13, UnClient DEF Suivi
  <2>2. flux'[Client(k)] = flux[Client(k)]
    BY <1>1, <1>2, <1>4, <1>11, <2>1 DEF Prend, Client, Types
  <2>3. Patient(k)
    BY DEF Patience
  <2>. QED BY <1>1, <1>3, <1>5, <1>13, <2>2, <2>3 DEF Patient, Present, AuMilieu
<1>14. Patient(i)'
  <2>. SUFFICES ASSUME c \notin Bavards, Present(c), Du(i)' # <<>>
                PROVE  flux'[c] = <<>> /\ EnCours(i)' = <<>> /\ ~AuMilieu(c)
    BY <1>1, <1>3, <1>11 DEF Patient, Present, AuMilieu
  <2>1. Du(i) = <<>>
    BY <1>8, <1>11 DEF Ecoute
  <2>2. FinDeLigne(buffer') /\ EnCours(i)' = <<>>
    BY <1>6, <2>1
  <2>3. Voie(i)' /\ Ecoute(c) /\ Present(c)' /\ envoye' = envoye
    BY <1>1, <1>3, <1>4, <1>9 DEF Chemins, Ecoute, Present
  <2>4. envoye[c] = echo[c] \o (buffer' \o (<<>> \o flux'[c]))
    BY <1>1, <1>3, <1>6, <1>11, <2>2, <2>3 DEF Voie, Suit, Chemin, Ecoute
  <2>5. /\ echo[c] \in Seq(Pieces) /\ flux'[c] \in Seq(Pieces) /\ buffer' \in Seq(Pieces)
        /\ <<>> \o flux'[c] = flux'[c]
    BY <1>2, ConcatEmptySeq DEF Types
  <2>6. UneLigne(c)
    BY DEF Patience
  <2>7. flux'[c] = <<>> /\ envoye[c] # <<>> /\ Last(envoye[c]).fin
    BY <2>2, <2>4, <2>5, <2>6, LigneEntiere DEF UneLigne
  <2>. QED BY <2>2, <2>7 DEF AuMilieu
<1>15. Patience'
  BY <1>1, <1>3, <1>12, <1>13, <1>14 DEF Patience
<1>. QED BY <1>9, <1>10, <1>15

LEMMA DeconnecteFidele ==
  ASSUME IInvEcho, IInvEcho', programme = "serEcho", programme' = programme, Deconnecte,
         Uniques, Chemins, Patience
  PROVE  Uniques' /\ Chemins' /\ Patience'
<1>1. /\ etape = "lit" /\ close(sd) /\ client_sockets' = [client_sockets EXCEPT ![i] = 0]
      /\ donnees' = [donnees EXCEPT ![i] = <<>>] /\ etape' = "ecrit"
      /\ UNCHANGED <<envoye, flux, echo, attente, i>>
  BY DEF Deconnecte
<1>2. /\ Types /\ Types' /\ Suivi /\ AccordSelect
      /\ \A k \in Entrees : Client(k) \in Clients /\ Descripteur(k) \in Fds
      /\ \A k, l \in Entrees : Descripteur(k) = Descripteur(l) => k = l
  BY FaitsVoie DEF Suivi, IInvEcho
<1>3. /\ Entrees = {k \in 1..MAX : client_sockets[k] # 0}
      /\ Entrees' = {k \in 1..MAX : client_sockets'[k] # 0}
      /\ \A k : Descripteur(k) = client_sockets[k] /\ Du(k) = donnees[k]
      /\ \A k : Descripteur(k)' = client_sockets'[k] /\ Du(k)' = donnees'[k]
  BY EntreesSerEcho, EntreesSerEchoApres
<1>4. /\ i \in 1..MAX /\ donnees \in [1..MAX -> Seq(Pieces)] /\ sd \in Fds /\ i \in Entrees
      /\ sd = Descripteur(i) /\ client_sockets \in [1..MAX -> Fds \cup {0}]
  BY <1>1, <1>2, <1>3, FaitsSelect, Descripteurs DEF sd
<1>5. /\ Entrees' = Entrees \ {i}
      /\ \A k \in Entrees \ {i} : Descripteur(k)' = Descripteur(k) /\ Du(k)' = Du(k)
  BY <1>1, <1>3, <1>4
<1>6. \A k \in Entrees \ {i} : EnCours(k)' = EnCours(k)
  BY <1>1 DEF EnCours
<1>7. Uniques'
  BY <1>1, <1>2, <1>4, UniquesClose
<1>8. Chemins' /\ \A d \in Clients : Present(d)' => Present(d)
  BY <1>1, <1>2, <1>4, <1>5, <1>6, CheminsClose
<1>9. \A k \in Entrees \ {i} : Client(k)' = Client(k)
  <2>1. \A g \in Fds : g # sd => prises'[g] = prises[g]
    BY <1>1, <1>2, <1>4, CloseSuit
  <2>. QED BY <1>2, <1>4, <1>5, <2>1 DEF Client
<1>10. \A c \in Clients : Len(echo[c]) <= Len(echo'[c])
  BY <1>1, <1>2, LenProperties DEF Types
<1>11. Patience'
  BY <1>1, <1>2, <1>5, <1>6, <1>8, <1>9, <1>10, PatienceReste
<1>. QED BY <1>7, <1>8, <1>11

LEMMA EcritFidele ==
  ASSUME IInvEcho, IInvEcho', programme = "serEcho", programme' = programme, Ecrit,
         Uniques, Chemins, Patience
  PROVE  Uniques' /\ Chemins' /\ Patience'
<1>1. /\ etape # "lit" /\ UNCHANGED <<envoye, flux, attente, prises, client_sockets>> /\ Avance(i + 1)
      /\ etape \in {"scan", "ecrit"}
  BY DEF Ecrit
<1>2. /\ Types /\ Types' /\ Suivi /\ AccordSelect
      /\ \A k \in Entrees : Client(k) \in Clients
  BY FaitsVoie DEF Suivi, IInvEcho
<1>3. /\ Entrees = {k \in 1..MAX : client_sockets[k] # 0} /\ Entrees' = Entrees
      /\ \A k : Descripteur(k) = client_sockets[k] /\ Du(k) = donnees[k]
      /\ \A k : Descripteur(k)' = client_sockets[k] /\ Du(k)' = donnees'[k]
      /\ \A k : Client(k)' = Client(k)
  BY <1>1, EntreesSerEcho, EntreesSerEchoApres DEF Client
<1>4. /\ i \in 1..MAX /\ donnees \in [1..MAX -> Seq(Pieces)]
      /\ \A k \in 1..MAX : donnees[k] # <<>> => client_sockets[k] # 0
  BY <1>1, <1>2, FaitsSelect
<1>5. \A k : EnCours(k) = <<>> /\ EnCours(k)' = <<>>
  <2>1. i + 1 \in Nat \ {0}
    BY <1>4
  <2>2. etape' # "lit"
    BY <1>1, <2>1, AvanceJuste
  <2>. QED BY <1>1, <2>2, HorsLecture
<1>6. CASE ~AEcrire
  <2>1. UNCHANGED <<lien, echo, donnees>>
    BY <1>6 DEF Ecrit
  <2>2. Uniques'
    BY <1>1, <1>2, <2>1, UniquesReste
  <2>3. Chemins'
    BY <1>1, <1>2, <1>3, <1>5, <2>1, CheminsRien DEF Present
  <2>4. \A c \in Clients : Present(c)' => Present(c) /\ Len(echo[c]) <= Len(echo'[c])
    BY <1>2, <2>1, LenProperties DEF Present, Types
  <2>5. Patience'
    BY <1>1, <1>2, <1>3, <1>5, <2>1, <2>4, PatienceReste
  <2>. QED BY <2>2, <2>3, <2>5
<1>7. CASE AEcrire
  <2>. PICK k0 : k0 = i
    OBVIOUS
  <2>1. send(client_sockets[k0], donnees[k0]) /\ donnees' = [donnees EXCEPT ![k0] = <<>>]
    BY <1>7 DEF Ecrit, sd
  <2>2. k0 \in Entrees /\ client_sockets[k0] = Descripteur(k0) /\ Du(k0) = donnees[k0] /\ Du(k0)' = <<>>
        /\ \A k \in Entrees \ {k0} : Du(k)' = Du(k)
    BY <1>3, <1>4, <1>7, <2>1 DEF AEcrire, sd
  <2>3. Chemins' /\ \A d \in Clients : Present(d)' => Present(d)
    BY <1>1, <1>2, <1>3, <1>5, <2>1, <2>2, CheminsSend
  <2>4. /\ client_sockets[k0] \in Fds /\ prises[client_sockets[k0]] \in Clients
        /\ prises[client_sockets[k0]] # Personne
    BY <1>2, <2>2, FaitsVoie DEF Client, Suivi
  <2>5. PICK c : /\ c = prises[client_sockets[k0]]
                 /\ lien' = [lien EXCEPT ![c] = Suite[@]]
                 /\ echo' = [echo EXCEPT ![c] = IF lien[c] = "ouvert" THEN @ \o donnees[k0] ELSE @]
    BY <2>1, <2>4 DEF send
  <2>6. /\ \A d \in Clients : lien'[d] = lien[d] \/ lien'[d] = Suite[lien[d]]
        /\ \A d \in Clients : echo'[d] = echo[d] \/ echo'[d] = echo[d] \o donnees[k0]
    BY <1>2, <2>4, <2>5 DEF Types
  <2>11. \A d \in Clients : lien[d] # "dehors" => lien'[d] # "dehors"
    <3>1. \A x \in DOMAIN Suite : x # "dehors" => Suite[x] # "dehors"
      BY DEF Suite
    <3>. QED BY <1>2, <2>6, <3>1 DEF Types
  <2>7. Uniques'
    BY <1>1, <1>2, <2>11, UniquesReste
  <2>8. ASSUME NEW d \in Clients PROVE Len(echo[d]) <= Len(echo'[d])
    <3>1. echo[d] \in Seq(Pieces) /\ donnees[k0] \in Seq(Pieces)
      BY <1>2, <1>3, <1>4, <2>2 DEF Types
    <3>2. Len(echo[d]) \in Nat /\ Len(donnees[k0]) \in Nat
          /\ Len(echo[d] \o donnees[k0]) = Len(echo[d]) + Len(donnees[k0])
      BY <3>1, LenProperties, ConcatProperties
    <3>3. CASE echo'[d] = echo[d]
      BY <3>2, <3>3
    <3>4. CASE echo'[d] = echo[d] \o donnees[k0]
      BY <3>1, <3>4, PlusLong
    <3>. QED BY <2>6, <3>3, <3>4
  <2>9. \A k \in Entrees' :
            \/ Du(k)' = <<>>
            \/ /\ k \in Entrees /\ Client(k)' = Client(k) /\ Client(k) \in Clients
               /\ Du(k)' = Du(k) /\ EnCours(k)' = EnCours(k)
    BY <1>2, <1>3, <1>5, <2>2
  <2>10. Patience'
    BY <1>1, <1>2, <2>3, <2>8, <2>9, PatienceReste
  <2>. QED BY <2>3, <2>7, <2>10
<1>. QED BY <1>6, <1>7

LEMMA SerEchoFidele ==
  ASSUME IInvEcho, IInvEcho', programme = "serEcho", programme' = programme, serEcho,
         Uniques, Chemins, Patience
  PROVE  Uniques' /\ Chemins' /\ Patience'
BY SelectFidele, CommenceFidele, RecoitFidele, DeconnecteFidele, EcritFidele DEF serEcho

\* --- servPoll, while nobody left ------------------------------------------------------
LEMMA FaitsServPoll ==
  ASSUME IInvEcho, programme = "servPoll", ~Depart, Alternance
  PROVE  /\ Suivi /\ Types /\ TypesPoll /\ EntreesPoll /\ Exacte /\ programme # "serEcho"
         /\ Entrees = 2..fd_count /\ fd_count \in 1..MAX_POLL /\ fd_count \in Int /\ MAX_POLL \in Int
         /\ \A k : Descripteur(k) = pfds[k].fd /\ Du(k) = buff_client[k]
         /\ pfds \in [1..MAX_POLL -> Fiches] /\ buff_client \in [1..MAX_POLL -> Seq(Pieces)]
         /\ pfds[1].fd = 0 /\ pfds[1].revents \subseteq {"POLLIN"}
         /\ \A k \in 2..MAX_POLL : k > fd_count => pfds[k].revents = {} /\ buff_client[k] = <<>>
         /\ \A k \in 2..MAX_POLL : k \in 1..MAX_POLL
         /\ etape \in {"scan", "lit"} =>
                /\ i \in 1..fd_count /\ i \in 1..MAX_POLL /\ pfds[i].revents # {} /\ EnBalayage
                /\ i = 1 \/ i \in Entrees
<1>1. /\ Suivi /\ Types /\ AccordPoll /\ TypesPoll /\ EntreesPoll /\ Exacte
      /\ Entrees = 2..fd_count /\ fd_count \in 1..MAX_POLL
  BY FaitsVoie DEF Suivi
<1>2. /\ fd_count \in Int /\ MAX_POLL \in Int
      /\ pfds \in [1..MAX_POLL -> Fiches] /\ buff_client \in [1..MAX_POLL -> Seq(Pieces)]
      /\ pfds[1].fd = 0 /\ pfds[1].revents \subseteq {"POLLIN"}
      /\ \A k \in 2..MAX_POLL : /\ k \in 1..MAX_POLL
                                /\ pfds[k].revents # {} => (k > fd_count => Depart)
  BY <1>1, FaitsPoll
<1>3. \A k : Descripteur(k) = pfds[k].fd /\ Du(k) = buff_client[k]
  BY DEF Descripteur, Du
<1>4. \A k \in 2..MAX_POLL : k > fd_count => pfds[k].revents = {} /\ buff_client[k] = <<>>
  BY <1>1, <1>2 DEF Alternance
<1>5. ASSUME etape \in {"scan", "lit"}
      PROVE  /\ i \in 1..fd_count /\ i \in 1..MAX_POLL /\ pfds[i].revents # {} /\ EnBalayage
             /\ i = 1 \/ i \in Entrees
  <2>1. EnBalayage /\ pfds[i].revents # {}
    BY <1>1, <1>5 DEF EnBalayage, AccordPoll
  <2>2. i \in 1..MAX_POLL
    BY <1>1, <1>5 DEF TypesPoll
  <2>3. i \in 1..fd_count
    BY <1>1, <1>2, <1>4, <2>1, <2>2
  <2>. QED BY <1>1, <2>1, <2>2, <2>3
<1>. QED BY <1>1, <1>2, <1>3, <1>4, <1>5

LEMMA AttendFidele ==
  ASSUME IInvEcho, programme = "servPoll", programme' = programme, ~Depart, Attend,
         Uniques, Chemins, Alternance
  PROVE  Uniques' /\ Chemins' /\ Alternance'
<1>1. poll /\ Passe(1, MAX_POLL)
  BY DEF Attend
<1>2. /\ Suivi /\ Types /\ TypesPoll /\ fd_count \in 1..MAX_POLL /\ fd_count \in Int /\ MAX_POLL \in Int
      /\ Entrees = 2..fd_count /\ programme # "serEcho"
      /\ \A k \in 2..MAX_POLL : k > fd_count => pfds[k].revents = {} /\ buff_client[k] = <<>>
  BY FaitsServPoll
<1>3. /\ etape = "attend" /\ prises' = prises /\ fd_count' = fd_count
      /\ buff_client' = buff_client
      /\ \A k \in 1..MAX_POLL :
             /\ pfds'[k].fd = pfds[k].fd /\ pfds'[k].events = pfds[k].events
             /\ k > fd_count => pfds'[k].revents = pfds[k].revents
             /\ k <= fd_count => pfds'[k].revents \subseteq pfds[k].events
  BY <1>1, <1>2, PollSuit
<1>4. UNCHANGED <<lien, envoye, flux, echo, attente>>
  BY <1>1 DEF poll, clients
<1>5. etape' \in {"attend", "scan"} /\ i' \in 0..MAX_POLL /\ (etape' = "scan" => i' > 0)
      /\ (EnBalayage' <=> etape' = "scan")
  BY <1>1, PassePoll
<1>6. \A k : EnCours(k) = <<>> /\ EnCours(k)' = <<>>
  BY <1>3, <1>5, HorsLecture
<1>7. /\ Entrees' = Entrees
      /\ \A k \in Entrees : Descripteur(k)' = Descripteur(k) /\ Du(k)' = Du(k)
  BY <1>2, <1>3 DEF Entrees, Descripteur, Du
<1>8. Uniques'
  BY <1>2, <1>3, <1>4, UniquesReste
<1>9. Chemins'
  BY <1>2, <1>3, <1>4, <1>6, <1>7, CheminsRien DEF Present
<1>10. \A k \in 2..MAX_POLL : buff_client'[k] # <<>> => k <= fd_count' /\ pfds'[k].events = {"POLLOUT"}
  <2>1. \A k \in 2..MAX_POLL : k \in 1..MAX_POLL
    BY <1>2
  <2>. QED BY <1>3, <2>1 DEF Alternance
<1>11. ASSUME EnBalayage', NEW k \in i'..MAX_POLL, k > 1 PROVE pfds'[k].revents \subseteq pfds'[k].events
  <2>1. k \in 2..MAX_POLL /\ k \in 1..MAX_POLL
    BY <1>2, <1>5, <1>11
  <2>2. CASE k > fd_count
    BY <1>2, <1>3, <2>1, <2>2
  <2>3. CASE k <= fd_count
    BY <1>3, <2>1, <2>3
  <2>. QED BY <1>2, <2>1, <2>2, <2>3
<1>12. Alternance'
  BY <1>10, <1>11 DEF Alternance
<1>. QED BY <1>8, <1>9, <1>12

LEMMA AccepteFidele ==
  ASSUME IInvEcho, programme = "servPoll", programme' = programme, ~Depart, Accepte,
         Uniques, Chemins, Alternance
  PROVE  Uniques' /\ Chemins' /\ Alternance'
<1>1. accepte /\ Passe(i + 1, MAX_POLL) /\ etape = "scan"
  BY DEF Accepte, accepte, Lit
<1>2. /\ Suivi /\ Types /\ TypesPoll /\ Exacte /\ fd_count \in 1..MAX_POLL /\ fd_count \in Int /\ MAX_POLL \in Int
      /\ Entrees = 2..fd_count /\ programme # "serEcho" /\ i \in 1..MAX_POLL /\ EnBalayage
      /\ \A k \in 2..MAX_POLL : k > fd_count => pfds[k].revents = {} /\ buff_client[k] = <<>>
      /\ \A k : Descripteur(k) = pfds[k].fd /\ Du(k) = buff_client[k]
      /\ pfds \in [1..MAX_POLL -> Fiches]
  BY <1>1, FaitsServPoll
<1>3. /\ lien' = lien /\ envoye' = envoye /\ flux' = flux /\ echo' = echo /\ buff_client' = buff_client
      /\ fd_count' \in fd_count..MAX_POLL
      /\ \A k \in 1..MAX_POLL :
             /\ pfds'[k].revents = pfds[k].revents
             /\ k \in 1..fd_count \/ k > fd_count' =>
                     pfds'[k].fd = pfds[k].fd /\ pfds'[k].events = pfds[k].events
  BY <1>1, <1>2, AccepteSuit
<1>4. etape' \in {"attend", "scan"} /\ i' \in 0..MAX_POLL
      /\ (etape' = "scan" => i' \in (i + 1)..MAX_POLL)
      /\ (EnBalayage' <=> etape' = "scan")
  <2>1. i + 1 \in Nat \ {0}
    BY <1>2
  <2>. QED BY <1>1, <2>1, PassePoll
<1>5. \A k : EnCours(k) = <<>> /\ EnCours(k)' = <<>>
  BY <1>1, <1>4, HorsLecture
<1>6. /\ Entrees' = 2..fd_count'
      /\ \A k : Descripteur(k)' = pfds'[k].fd /\ Du(k)' = buff_client'[k]
  BY <1>2 DEF Entrees, Descripteur, Du
<1>7. \A k \in Entrees : k \in 1..MAX_POLL /\ k \in 1..fd_count /\ Descripteur(k)' = Descripteur(k) /\ Du(k)' = Du(k)
  BY <1>2, <1>3, <1>6
<1>8. Uniques' /\ Chemins'
  <2>1. CASE ~APlace
    <3>1. attente' = attente /\ prises' = prises /\ pfds' = pfds /\ fd_count' = fd_count
      BY <1>1, <2>1 DEF accepte
    <3>2. Uniques'
      BY <1>2, <1>3, <3>1, UniquesReste
    <3>3. Chemins'
      BY <1>2, <1>3, <1>5, <1>6, <1>7, <3>1, CheminsRien DEF Present
    <3>. QED BY <3>2, <3>3
  <2>2. CASE APlace
    <3>. DEFINE n == fd_count + 1
    <3>1. /\ accept /\ fd_count' = fd_count + 1 /\ fd_count < MAX_POLL
          /\ pfds' = [pfds EXCEPT ![n].fd = FdLibre, ![n].events = {"POLLIN"}]
      BY <1>1, <2>2 DEF accepte, APlace
    <3>2. FdLibre \in Fds /\ prises[FdLibre] = Personne
      <4>1. MAX_POLL \in Nat /\ MAX_POLL < MAX + MAX_POLL /\ Entrees \subseteq 1..MAX_POLL
        BY <1>2, Constantes
      <4>. QED BY <1>2, <4>1, DescripteurLibre
    <3>3. Uniques'
      BY <1>2, <1>3, <3>1, <3>2, UniquesAccept
    <3>4. n \in 2..MAX_POLL /\ n \in 1..MAX_POLL /\ n > fd_count /\ n \in Int
      BY <1>2, <3>1
    <3>5. pfds'[n].fd = FdLibre
      <4>1. pfds[n] \in Fiches
        BY <1>2, <3>4
      <4>. QED BY <1>2, <3>1, <3>4, <4>1 DEF Fiches
    <3>6. n \notin Entrees /\ Entrees' = Entrees \cup {n}
      BY <1>2, <1>6, <3>1, <3>4
    <3>7. PICK v : v = fd_count + 1
      OBVIOUS
    <3>8. /\ v \notin Entrees /\ Entrees' = Entrees \cup {v} /\ Descripteur(v)' = FdLibre
          /\ Du(v)' = <<>> /\ EnCours(v)' = <<>>
      BY <1>2, <1>3, <1>5, <1>6, <3>4, <3>5, <3>6, <3>7
    <3>9. Chemins'
      BY <1>2, <1>3, <1>5, <1>7, <3>1, <3>2, <3>8, CheminsAccept
    <3>. QED BY <3>3, <3>9
  <2>. QED BY <2>1, <2>2
<1>9. ASSUME NEW k \in 2..MAX_POLL, buff_client'[k] # <<>>
      PROVE  k <= fd_count' /\ pfds'[k].events = {"POLLOUT"}
  <2>1. k <= fd_count /\ pfds[k].events = {"POLLOUT"}
    BY <1>3, <1>9 DEF Alternance
  <2>2. k \in 1..fd_count /\ k \in 1..MAX_POLL
    BY <1>2, <2>1
  <2>. QED BY <1>2, <1>3, <2>1, <2>2
<1>10. ASSUME EnBalayage', NEW k \in i'..MAX_POLL, k > 1 PROVE pfds'[k].revents \subseteq pfds'[k].events
  <2>1. k \in 2..MAX_POLL /\ k \in 1..MAX_POLL /\ k \in i..MAX_POLL
    BY <1>2, <1>4, <1>10
  <2>2. CASE k > fd_count
    BY <1>2, <1>3, <2>1, <2>2
  <2>3. CASE k <= fd_count
    <3>1. pfds[k].revents \subseteq pfds[k].events
      BY <1>2, <1>10, <2>1 DEF Alternance
    <3>2. k \in 1..fd_count
      BY <1>2, <2>1, <2>3
    <3>. QED BY <1>3, <2>1, <3>1, <3>2
  <2>. QED BY <1>2, <2>1, <2>2, <2>3
<1>11. Alternance'
  BY <1>9, <1>10 DEF Alternance
<1>. QED BY <1>8, <1>11

LEMMA CommenceEchoFidele ==
  ASSUME IInvEcho, programme = "servPoll", programme' = programme, ~Depart,
         CommenceEcho \/ MeurtEnEnvoyant,
         Uniques, Chemins, Alternance
  PROVE  Uniques' /\ Chemins' /\ Alternance'
<1>1. /\ UNCHANGED <<lien, envoye, flux, echo, attente, prises, table, i>>
      /\ etape = "scan" /\ (etape' = "lit" => buffer' = <<>>)
  BY DEF CommenceEcho, MeurtEnEnvoyant, clients, Lit, AEnvoyer
<1>2. \A k : EnCours(k)' = EnCours(k)
  BY <1>1 DEF EnCours
<1>3. Suivi /\ Types
  BY FaitsServPoll
<1>4. Entrees' = Entrees /\ \A k : Descripteur(k)' = Descripteur(k) /\ Du(k)' = Du(k)
  BY <1>1 DEF Entrees, Descripteur, Du, table
<1>5. Uniques'
  BY <1>1, <1>3, UniquesReste
<1>6. Chemins'
  BY <1>1, <1>2, <1>3, <1>4, CheminsRien DEF Present
<1>7. Alternance'
  BY <1>1 DEF Alternance, EnBalayage, table
<1>. QED BY <1>5, <1>6, <1>7

LEMMA RecoitEchoFidele ==
  ASSUME IInvEcho, programme = "servPoll", programme' = programme, ~Depart, RecoitEcho,
         Uniques, Chemins, Alternance
  PROVE  Uniques' /\ Chemins' /\ Alternance'
<1>1. /\ etape = "lit" /\ Prend(pfds[i].fd) /\ buffer' = buffer \o Lu(pfds[i].fd)
      /\ UNCHANGED <<lien, envoye, echo, attente, prises, fd_count>>
      /\ IF FinDeLigne(buffer')
         THEN /\ buff_client' = [buff_client EXCEPT ![i] = buffer']
              /\ pfds' = [pfds EXCEPT ![i].events = {"POLLOUT"}] /\ Passe(i + 1, MAX_POLL)
         ELSE UNCHANGED <<buff_client, pfds, etape, i>>
  BY DEF RecoitEcho, ApresLecture
<1>2. /\ Suivi /\ Types /\ TypesPoll /\ fd_count \in 1..MAX_POLL /\ fd_count \in Int /\ MAX_POLL \in Int
      /\ Entrees = 2..fd_count /\ programme # "serEcho" /\ i \in 1..MAX_POLL /\ EnBalayage
      /\ \A k : Descripteur(k) = pfds[k].fd /\ Du(k) = buff_client[k]
      /\ pfds \in [1..MAX_POLL -> Fiches] /\ buff_client \in [1..MAX_POLL -> Seq(Pieces)]
      /\ (i = 1 \/ i \in Entrees) /\ pfds[1].fd = 0
      /\ \A k \in Entrees : k \in 1..MAX_POLL
      /\ \A k \in 2..MAX_POLL : k \in 1..MAX_POLL
  BY <1>1, FaitsServPoll
<1>3. pfds[i].fd # 0 /\ "POLLIN" \in pfds[i].revents
  BY <1>1 DEF IInvEcho, AccordPoll
<1>4. i \in Entrees /\ i \in 2..MAX_POLL /\ i <= fd_count
  BY <1>2, <1>3
<1>5. Du(i) = <<>>
  <2>1. pfds[i].revents \subseteq pfds[i].events
    BY <1>2, <1>4 DEF Alternance
  <2>2. pfds[i].events # {"POLLOUT"}
    BY <1>3, <2>1
  <2>. QED BY <1>2, <1>4, <2>2 DEF Alternance
<1>6. /\ Entrees' = Entrees
      /\ \A k : Descripteur(k)' = pfds'[k].fd /\ Du(k)' = buff_client'[k]
  BY <1>1, <1>2 DEF Entrees, Descripteur, Du
<1>7. Uniques'
  BY <1>1, <1>2, UniquesReste
<1>8. PICK k0 : k0 = i
  OBVIOUS
<1>9. EnCours(k0) = buffer /\ k0 \in Entrees /\ Descripteur(k0) = pfds[k0].fd /\ Du(k0) = <<>>
      /\ Prend(Descripteur(k0)) /\ k0 \in 1..MAX_POLL
  BY <1>1, <1>2, <1>4, <1>5, <1>8 DEF EnCours
<1>10. CASE ~FinDeLigne(buffer')
  <2>1. UNCHANGED <<buff_client, pfds, etape, i>>
    BY <1>1, <1>10
  <2>2. \A k \in Entrees : Descripteur(k)' = Descripteur(k) /\ Du(k)' = Du(k)
    BY <1>2, <1>6, <2>1
  <2>3. \A k \in Entrees \ {k0} : EnCours(k)' = EnCours(k)
    BY <1>8, <2>1 DEF EnCours
  <2>4. EnCours(k0)' = buffer \o Lu(Descripteur(k0))
    BY <1>1, <1>2, <1>8, <2>1 DEF EnCours
  <2>5. Chemins'
    BY <1>1, <1>2, <1>6, <1>9, <2>2, <2>3, <2>4, CheminsLu
  <2>6. Alternance'
    BY <1>1, <2>1 DEF Alternance, EnBalayage
  <2>. QED BY <1>7, <2>5, <2>6
<1>11. CASE FinDeLigne(buffer')
  <2>1. /\ buff_client' = [buff_client EXCEPT ![k0] = buffer']
        /\ pfds' = [pfds EXCEPT ![k0].events = {"POLLOUT"}] /\ Passe(k0 + 1, MAX_POLL)
    BY <1>1, <1>8, <1>11
  <2>2. etape' \in {"attend", "scan"} /\ i' \in 0..MAX_POLL
        /\ (etape' = "scan" => i' \in (k0 + 1)..MAX_POLL)
        /\ (EnBalayage' <=> etape' = "scan")
    <3>1. k0 + 1 \in Nat \ {0}
      BY <1>2, <1>8
    <3>. QED BY <2>1, <3>1, PassePoll
  <2>3. /\ \A k \in 1..MAX_POLL : /\ pfds'[k].fd = pfds[k].fd /\ pfds'[k].revents = pfds[k].revents
                                  /\ k # k0 => pfds'[k] = pfds[k] /\ buff_client'[k] = buff_client[k]
        /\ pfds'[k0].events = {"POLLOUT"} /\ buff_client'[k0] = buffer'
    <3>1. \A k \in 1..MAX_POLL : pfds[k] \in Fiches
      BY <1>2
    <3>. QED BY <1>2, <1>9, <2>1, <3>1 DEF Fiches
  <2>4. \A k \in Entrees : Descripteur(k)' = Descripteur(k) /\ (k # k0 => Du(k)' = Du(k))
    BY <1>2, <1>6, <2>3
  <2>5. \A k \in Entrees \ {k0} : EnCours(k)' = EnCours(k)
    BY <1>8, <2>2 DEF EnCours
  <2>6. Du(k0)' = buffer \o Lu(Descripteur(k0)) /\ EnCours(k0)' = <<>>
    BY <1>1, <1>2, <1>6, <1>8, <2>2, <2>3, HorsLecture
  <2>7. Chemins'
    BY <1>1, <1>2, <1>6, <1>9, <2>4, <2>5, <2>6, CheminsLu
  <2>8. ASSUME NEW k \in 2..MAX_POLL, buff_client'[k] # <<>>
        PROVE  k <= fd_count' /\ pfds'[k].events = {"POLLOUT"}
    <3>1. CASE k = k0
      BY <1>1, <1>4, <1>8, <2>3, <3>1
    <3>2. CASE k # k0
      BY <1>1, <1>2, <2>3, <2>8, <3>2 DEF Alternance
    <3>. QED BY <3>1, <3>2
  <2>9. ASSUME EnBalayage', NEW k \in i'..MAX_POLL, k > 1 PROVE pfds'[k].revents \subseteq pfds'[k].events
    <3>1. k \in 1..MAX_POLL /\ k \in i..MAX_POLL /\ k # k0
      BY <1>2, <1>8, <2>2, <2>9
    <3>2. pfds[k].revents \subseteq pfds[k].events
      BY <1>2, <2>9, <3>1 DEF Alternance
    <3>. QED BY <2>3, <3>1, <3>2
  <2>10. Alternance'
    BY <2>8, <2>9 DEF Alternance
  <2>. QED BY <1>7, <2>7, <2>10
<1>. QED BY <1>10, <1>11

LEMMA EnvoiFidele ==
  ASSUME IInvEcho, programme = "servPoll", programme' = programme, ~Depart, Envoi,
         Uniques, Chemins, Alternance
  PROVE  Uniques' /\ Chemins' /\ Alternance'
<1>1. PICK k0 : k0 = i
  OBVIOUS
<1>2. /\ etape = "scan" /\ "POLLIN" \notin pfds[k0].revents
      /\ IF buff_client[k0] = <<>> THEN UNCHANGED <<lien, echo>>
         ELSE send(pfds[k0].fd, buff_client[k0])
      /\ buff_client' = [buff_client EXCEPT ![k0] = <<>>]
      /\ pfds' = [pfds EXCEPT ![k0].events = {"POLLIN"}] /\ Passe(k0 + 1, MAX_POLL)
      /\ UNCHANGED <<envoye, flux, attente, prises, fd_count>>
  BY <1>1 DEF Envoi, AEnvoyer, ApresEcho
<1>3. /\ Suivi /\ Types /\ TypesPoll /\ fd_count \in 1..MAX_POLL /\ fd_count \in Int /\ MAX_POLL \in Int
      /\ Entrees = 2..fd_count /\ programme # "serEcho" /\ k0 \in 1..MAX_POLL /\ EnBalayage
      /\ \A k : Descripteur(k) = pfds[k].fd /\ Du(k) = buff_client[k]
      /\ pfds \in [1..MAX_POLL -> Fiches] /\ buff_client \in [1..MAX_POLL -> Seq(Pieces)]
      /\ (k0 = 1 \/ k0 \in Entrees) /\ pfds[1].revents \subseteq {"POLLIN"} /\ pfds[k0].revents # {}
      /\ \A k \in Entrees : k \in 1..MAX_POLL
      /\ \A k \in 2..MAX_POLL : k \in 1..MAX_POLL
  BY <1>1, <1>2, FaitsServPoll
<1>4. k0 \in Entrees /\ k0 \in 2..MAX_POLL /\ k0 <= fd_count
  BY <1>2, <1>3
<1>5. etape' \in {"attend", "scan"} /\ i' \in 0..MAX_POLL
      /\ (etape' = "scan" => i' \in (k0 + 1)..MAX_POLL)
      /\ (EnBalayage' <=> etape' = "scan")
  <2>1. k0 + 1 \in Nat \ {0}
    BY <1>3
  <2>. QED BY <1>2, <2>1, PassePoll
<1>6. /\ \A k \in 1..MAX_POLL : /\ pfds'[k].fd = pfds[k].fd /\ pfds'[k].revents = pfds[k].revents
                                /\ k # k0 => pfds'[k] = pfds[k] /\ buff_client'[k] = buff_client[k]
      /\ buff_client'[k0] = <<>>
  <2>1. \A k \in 1..MAX_POLL : pfds[k] \in Fiches
    BY <1>3
  <2>. QED BY <1>2, <1>3, <2>1 DEF Fiches
<1>7. /\ Entrees' = Entrees
      /\ \A k : Descripteur(k)' = pfds'[k].fd /\ Du(k)' = buff_client'[k]
  BY <1>2, <1>3 DEF Entrees, Descripteur, Du
<1>8. /\ \A k \in Entrees : Descripteur(k)' = Descripteur(k) /\ (k # k0 => Du(k)' = Du(k))
      /\ Du(k0)' = <<>>
  BY <1>3, <1>6, <1>7
<1>9. \A k : EnCours(k) = <<>> /\ EnCours(k)' = <<>>
  BY <1>2, <1>5, HorsLecture
<1>10. ASSUME NEW k \in 2..MAX_POLL, buff_client'[k] # <<>>
       PROVE  k <= fd_count' /\ pfds'[k].events = {"POLLOUT"}
  <2>1. k # k0
    BY <1>6, <1>10
  <2>. QED BY <1>2, <1>3, <1>6, <1>10, <2>1 DEF Alternance
<1>11. ASSUME EnBalayage', NEW k \in i'..MAX_POLL, k > 1 PROVE pfds'[k].revents \subseteq pfds'[k].events
  <2>1. k \in 1..MAX_POLL /\ k \in i..MAX_POLL /\ k # k0
    BY <1>1, <1>3, <1>5, <1>11
  <2>2. pfds[k].revents \subseteq pfds[k].events
    BY <1>3, <1>11, <2>1 DEF Alternance
  <2>. QED BY <1>6, <2>1, <2>2
<1>12. Alternance'
  BY <1>10, <1>11 DEF Alternance
<1>13. CASE buff_client[k0] = <<>>
  <2>1. UNCHANGED <<lien, echo>> /\ \A k \in Entrees : Du(k)' = Du(k)
    BY <1>2, <1>3, <1>8, <1>13
  <2>2. Uniques'
    BY <1>2, <1>3, <2>1, UniquesReste
  <2>3. Chemins'
    BY <1>2, <1>3, <1>7, <1>8, <1>9, <2>1, CheminsRien DEF Present
  <2>. QED BY <1>12, <2>2, <2>3
<1>14. CASE buff_client[k0] # <<>>
  <2>1. send(Descripteur(k0), Du(k0))
    BY <1>2, <1>3, <1>14
  <2>2. Chemins'
    BY <1>2, <1>3, <1>4, <1>7, <1>8, <1>9, <2>1, CheminsSend
  <2>3. PICK c : /\ c = prises[Descripteur(k0)] /\ c \in Clients
                 /\ lien' = [lien EXCEPT ![c] = Suite[@]]
    <3>1. prises[Descripteur(k0)] \in Clients /\ prises[Descripteur(k0)] # Personne
      BY <1>3, <1>4, FaitsVoie DEF Client, Suivi
    <3>. QED BY <2>1, <3>1 DEF send
  <2>4. \A d \in Clients : lien[d] # "dehors" => lien'[d] # "dehors"
    <3>1. \A x \in DOMAIN Suite : x # "dehors" => Suite[x] # "dehors"
      BY DEF Suite
    <3>. QED BY <1>3, <2>3, <3>1 DEF Types
  <2>5. Uniques'
    BY <1>2, <1>3, <2>4, UniquesReste
  <2>. QED BY <1>12, <2>2, <2>5
<1>. QED BY <1>13, <1>14

LEMMA ServPollFidele ==
  ASSUME IInvEcho, programme = "servPoll", programme' = programme, ~Depart, ~Depart', servPoll,
         Uniques, Chemins, Alternance
  PROVE  Uniques' /\ Chemins' /\ Alternance'
<1>1. ASSUME Retire PROVE FALSE
  <2>1. /\ Suivi /\ Types /\ TypesPoll /\ EntreesPoll /\ programme # "serEcho"
        /\ Entrees = 2..fd_count
        /\ etape = "lit" => i = 1 \/ i \in Entrees
    BY FaitsServPoll
  <2>2. Types /\ Propres /\ AccordPoll /\ etape = "lit"
    BY <1>1 DEF IInvEcho, Retire
  <2>3. i \in 2..MAX_POLL /\ (prises[pfds[i].fd] # Personne => Depart')
    BY <1>1, <2>2, RetireSuit
  <2>4. i \in 2..fd_count
    BY <2>1, <2>2, <2>3
  <2>5. prises[pfds[i].fd] # Personne
    BY <2>1, <2>4, FaitsPoll
  <2>. QED BY <2>3, <2>5
<1>. QED BY <1>1, AttendFidele, AccepteFidele, CommenceEchoFidele, RecoitEchoFidele, EnvoiFidele
         DEF servPoll

\* --- the clients, the invariant ---------------------------------------------------------
\* A client that waits for its echo does not go on while some of it is due.
LEMMA PatienceEnvoie ==
  ASSUME IInvEcho, IInvEcho', programme = "serEcho", programme' = programme, NEW c \in Clients,
         NEW fin \in BOOLEAN, Envoie(c, fin), UNCHANGED <<serveur, selection, table>>,
         Uniques, Chemins, Patience
  PROVE  Patience'
<1>1. PICK m : m = [de |-> c, n |-> Len(envoye[c]) + 1, fin |-> fin]
  OBVIOUS
<1>2. /\ envoye' = [envoye EXCEPT ![c] = Append(@, m)] /\ flux' = [flux EXCEPT ![c] = Append(@, m)]
      /\ lien[c] = "ouvert" /\ UNCHANGED <<lien, echo, prises, etape, i, buffer>>
  BY <1>1 DEF Envoie, serveur
<1>3. /\ Entrees' = Entrees
      /\ \A k : Descripteur(k)' = Descripteur(k) /\ Du(k)' = Du(k) /\ EnCours(k)' = EnCours(k)
      /\ \A k : Client(k)' = Client(k)
  BY <1>2 DEF Entrees, Descripteur, Du, EnCours, selection, table, Client
<1>4. /\ \A k \in Entrees : Client(k) \in Clients /\ Du(k) \in Seq(Pieces) /\ EnCours(k) \in Seq(Pieces)
      /\ envoye \in [Clients -> Seq(Pieces)] /\ flux \in [Clients -> Seq(Pieces)]
      /\ echo \in [Clients -> Seq(Pieces)]
  BY FaitsVoie DEF Suivi, Types
<1>5. /\ envoye'[c] = Append(envoye[c], m)
      /\ \A d \in Clients : d # c => envoye'[d] = envoye[d] /\ flux'[d] = flux[d]
  BY <1>2, <1>4
<1>6. Len(envoye[c]) \in Nat /\ m \in Pieces
  <2>1. Len(envoye[c]) \in Nat
    BY <1>4, LenProperties
  <2>. QED BY <1>1, <2>1 DEF Pieces
<1>7. /\ Len(envoye'[c]) = Len(envoye[c]) + 1
      /\ \A j \in 1..Len(envoye[c]) : envoye'[c][j] = envoye[c][j]
  BY <1>4, <1>5, <1>6, AppendProperties
<1>8. c \notin Bavards => AuMilieu(c) \/ ToutRevenu(c)
  BY DEF Envoie
<1>9. Len(echo[c]) \in Nat
  BY <1>4, LenProperties
<1>10. ASSUME NEW d \in Clients \ Bavards, Present(d)' PROVE UneLigne(d)'
  <2>1. UneLigne(d)
    BY <1>2, <1>10 DEF Patience, Present
  <2>2. CASE d # c
    BY <1>2, <1>5, <2>1, <2>2 DEF UneLigne
  <2>3. CASE d = c /\ ToutRevenu(c)
    <3>1. (Len(echo'[c]) + 1)..(Len(envoye'[c]) - 1) = {}
      BY <1>2, <1>6, <1>7, <2>3 DEF ToutRevenu
    <3>. QED BY <2>3, <3>1 DEF UneLigne
  <2>4. CASE d = c /\ AuMilieu(c)
    <3>1. ASSUME NEW j \in (Len(echo'[c]) + 1)..(Len(envoye'[c]) - 1) PROVE ~envoye'[c][j].fin
      <4>1. j \in 1..Len(envoye[c]) /\ j > Len(echo[c]) /\ envoye'[c][j] = envoye[c][j]
        BY <1>2, <1>6, <1>7, <1>9
      <4>2. CASE j = Len(envoye[c])
        BY <2>4, <4>1, <4>2 DEF AuMilieu, Last
      <4>3. CASE j # Len(envoye[c])
        <5>1. j \in (Len(echo[c]) + 1)..(Len(envoye[c]) - 1)
          BY <1>6, <1>9, <4>1, <4>3
        <5>. QED BY <2>1, <2>4, <4>1, <5>1 DEF UneLigne
      <4>. QED BY <4>2, <4>3
    <3>. QED BY <2>4, <3>1 DEF UneLigne
  <2>. QED BY <1>8, <1>10, <2>2, <2>3, <2>4
<1>11. ASSUME NEW k \in Entrees PROVE Patient(k)'
  <2>1. Patient(k) /\ Client(k) \in Clients
    BY <1>4 DEF Patience
  <2>2. CASE Client(k) # c
    BY <1>2, <1>3, <1>5, <2>1, <2>2 DEF Patient, Present, AuMilieu
  <2>3. CASE Client(k) = c
    <3>. SUFFICES ASSUME c \notin Bavards, Du(k) # <<>> PROVE FALSE
      BY <1>3, <2>3 DEF Patient
    <3>1. Present(c) /\ ~AuMilieu(c)
      BY <1>2, <2>1, <2>3 DEF Patient, Present
    <3>2. echo[c] = envoye[c]
      BY <1>8, <3>1 DEF ToutRevenu
    <3>3. Voie(k) /\ Ecoute(c)
      BY DEF Chemins, Ecoute
    <3>4. envoye[c] = echo[c] \o (Du(k) \o (EnCours(k) \o flux[c]))
      BY <2>3, <3>1, <3>3 DEF Voie, Suit, Chemin
    <3>5. EnCours(k) \o flux[c] \in Seq(Pieces)
      BY <1>4, ConcatProperties
    <3>6. PICK y \in Seq(Pieces) : y = EnCours(k) \o flux[c]
      BY <3>5
    <3>7. Du(k) \o y \in Seq(Pieces) /\ Len(Du(k) \o y) = Len(Du(k)) + Len(y)
      BY <1>4, ConcatProperties
    <3>8. Len(echo[c] \o (Du(k) \o y)) = Len(echo[c]) + Len(Du(k) \o y)
      BY <1>4, <3>7, ConcatProperties
    <3>9. Len(Du(k)) \in Nat /\ Len(y) \in Nat /\ Len(Du(k)) # 0
      BY <1>4, EmptySeq, LenProperties
    <3>10. Len(envoye[c]) = Len(echo[c] \o (Du(k) \o y))
      BY <3>4, <3>6
    <3>11. Len(echo[c]) = Len(echo[c]) + (Len(Du(k)) + Len(y))
      BY <3>2, <3>7, <3>8, <3>10
    <3>12. \A x, y1, z \in Nat : x = x + (y1 + z) => y1 = 0
      OBVIOUS
    <3>. QED BY <1>9, <3>9, <3>11, <3>12
  <2>. QED BY <2>2, <2>3
<1>. QED BY <1>3, <1>10, <1>11 DEF Patience

LEMMA AgitFidele ==
  ASSUME IInvEcho, IInvEcho', Suivi, programme' = programme, NEW c \in Clients, Agit(c),
         UNCHANGED <<selection, table>>, Uniques, Chemins
  PROVE  /\ Uniques' /\ Chemins'
         /\ programme = "serEcho" /\ Patience => Patience'
         /\ Alternance => Alternance'
<1>1. UNCHANGED serveur /\ Types /\ Types'
  BY DEF Agit, IInvEcho
<1>2. prises' = prises /\ etape' = etape /\ i' = i /\ pfds' = pfds /\ buff_client' = buff_client
      /\ fd_count' = fd_count
  BY <1>1 DEF serveur, table
<1>3. Alternance => Alternance'
  BY <1>2 DEF Alternance, EnBalayage
<1>4. /\ Entrees' = Entrees
      /\ \A k : Descripteur(k)' = Descripteur(k) /\ Du(k)' = Du(k) /\ EnCours(k)' = EnCours(k)
      /\ \A k : Client(k)' = Client(k)
      /\ \A k \in Entrees : Client(k) \in Clients
  <2>1. \A k \in Entrees : Client(k) \in Clients
    BY FaitsVoie DEF Suivi
  <2>. QED BY <1>1, <2>1 DEF serveur, Entrees, Descripteur, Du, EnCours, selection, table, Client
<1>5. CASE Connecte(c)
  <2>1. Uniques'
    BY <1>1, <1>2, <1>5, UniquesConnecte
  <2>2. Chemins' /\ \A d \in Clients : Present(d)' => Present(d)
    BY <1>1, <1>5, CheminsConnecte
  <2>3. envoye' = envoye /\ flux' = flux /\ \A d \in Clients : Len(echo[d]) <= Len(echo'[d])
    BY <1>1, <1>5, LenProperties DEF Connecte, Types
  <2>4. programme = "serEcho" /\ Patience => Patience'
    BY <1>1, <1>4, <2>2, <2>3, PatienceReste
  <2>. QED BY <1>3, <2>1, <2>2, <2>4
<1>6. CASE Part(c)
  <2>1. PICK fin \in {"ferme", "coupe"} : lien' = [lien EXCEPT ![c] = fin]
    BY <1>6 DEF Part
  <2>2. Uniques'
    <3>1. \A d \in Clients : lien[d] # "dehors" => lien'[d] # "dehors"
      BY <1>1, <2>1 DEF Types
    <3>. QED BY <1>1, <1>2, <1>6, <3>1, UniquesReste DEF Part
  <2>3. Chemins' /\ \A d \in Clients : Present(d)' => Present(d)
    BY <1>1, <1>6, CheminsPart
  <2>4. envoye' = envoye /\ flux' = flux /\ \A d \in Clients : Len(echo[d]) <= Len(echo'[d])
    BY <1>1, <1>6, LenProperties DEF Part, Types
  <2>5. programme = "serEcho" /\ Patience => Patience'
    BY <1>1, <1>4, <2>3, <2>4, PatienceReste
  <2>. QED BY <1>3, <2>2, <2>3, <2>5
<1>7. CASE \E fin \in BOOLEAN : Envoie(c, fin)
  <2>1. PICK fin \in BOOLEAN : Envoie(c, fin)
    BY <1>7
  <2>2. Uniques'
    BY <1>1, <1>2, <2>1, UniquesReste DEF Envoie
  <2>3. Chemins'
    BY <1>1, <2>1, CheminsEnvoie
  <2>4. programme = "serEcho" /\ Patience => Patience'
    BY <1>1, <2>1, PatienceEnvoie
  <2>. QED BY <1>3, <2>2, <2>3, <2>4
<1>. QED BY <1>5, <1>6, <1>7 DEF Agit

\* In servPoll too, who left does not come back.
LEMMA DepartServPoll ==
  ASSUME Types, servPoll, Depart
  PROVE  Depart'
<1>1. lien \in [Clients -> DOMAIN Suite]
  BY DEF Types
<1>2. PICK c \in Clients : lien[c] \notin {"dehors", "ouvert"}
  BY DEF Depart
<1>3. lien[c] \in DOMAIN Suite /\ Suite[lien[c]] \notin {"dehors", "ouvert"}
  BY <1>1, <1>2, SuiteLien
<1>4. ASSUME lien' = lien PROVE Depart'
  BY <1>4 DEF Depart
<1>5. ASSUME Retire PROVE Depart'
  <2>1. \/ lien' = lien
        \/ \E d : lien' = [lien EXCEPT ![d] = "fini"]
    BY <1>5 DEF Retire, close
  <2>2. lien'[c] = lien[c] \/ lien'[c] = "fini"
    BY <1>1, <2>1
  <2>. QED BY <1>2, <2>2 DEF Depart
<1>6. ASSUME Envoi PROVE Depart'
  <2>1. \/ lien' = lien
        \/ \E d : lien' = [lien EXCEPT ![d] = Suite[@]]
    BY <1>6 DEF Envoi, send
  <2>2. lien'[c] = lien[c] \/ lien'[c] = Suite[lien[c]]
    BY <1>1, <2>1
  <2>. QED BY <1>2, <1>3, <2>2 DEF Depart
<1>7. ASSUME Attend \/ Accepte \/ CommenceEcho \/ RecoitEcho \/ MeurtEnEnvoyant PROVE lien' = lien
  BY <1>7 DEF Attend, poll, Accepte, accepte, CommenceEcho, RecoitEcho, MeurtEnEnvoyant, clients
<1>. QED BY <1>4, <1>5, <1>6, <1>7 DEF servPoll

LEMMA DebutFidele == Init => IInvFidele
<1>. SUFFICES ASSUME Init PROVE IInvFidele
  OBVIOUS
<1>1. IInvEcho
  BY DebutJuste
<1>2. /\ lien = [c \in Clients |-> "dehors"]
      /\ envoye = [c \in Clients |-> <<>>] /\ flux = envoye /\ echo = envoye
      /\ attente = <<>> /\ prises = [f \in Fds |-> Personne]
      /\ etape = "attend" /\ i = 0 /\ buffer = <<>>
      /\ InitSelect /\ InitPoll
  BY DEF Init, InitClients
<1>3. Len(<<>>) = 0 /\ IsPrefix(<<>>, <<>>) /\ <<>> \in Seq(Pieces)
  <2>1. Len(<<>>) = 0 /\ <<>> \in Seq(Pieces)
    BY VideDeLui
  <2>. QED BY <2>1 DEF IsPrefix
<1>4. \A c \in Clients : ~EstAccepte(c)
  BY <1>2, Constantes DEF EstAccepte
<1>5. Uniques
  BY <1>2, <1>3, <1>4 DEF Uniques
<1>6. Entrees = {}
  BY <1>2, Constantes DEF Entrees, InitSelect, InitPoll
<1>7. \A c \in Clients : /\ envoye[c] = <<>> /\ flux[c] = <<>> /\ echo[c] = <<>>
                         /\ Fidele(c)
  BY <1>2, <1>3 DEF Fidele
<1>8. Chemins
  BY <1>3, <1>6, <1>7 DEF Chemins
<1>9. Patience
  BY <1>3, <1>6, <1>7 DEF Patience, UneLigne
<1>10. Alternance
  BY <1>2 DEF Alternance, EnBalayage, InitPoll
<1>. QED BY <1>1, <1>5, <1>7, <1>8, <1>9, <1>10 DEF IInvFidele

LEMMA PasFidele == IInvFidele /\ [Next]_vars => IInvFidele'
<1>. SUFFICES ASSUME IInvFidele, [Next]_vars PROVE IInvFidele'
  OBVIOUS
<1>1. /\ IInvEcho /\ IInvEcho' /\ Types
      /\ programme = "poll_recv" => \A c \in Clients : echo[c] = <<>>
      /\ programme = "serEcho" => Uniques /\ Chemins /\ Patience
      /\ programme = "servPoll" /\ ~Depart => Uniques /\ Chemins /\ Alternance
  BY PasJuste DEF IInvFidele, IInvEcho
<1>2. CASE UNCHANGED vars
  <2>1. /\ UNCHANGED <<selection, table>> /\ programme' = programme /\ prises' = prises /\ etape' = etape
        /\ i' = i /\ buffer' = buffer /\ lien' = lien /\ envoye' = envoye /\ flux' = flux /\ echo' = echo
        /\ attente' = attente
    BY <1>2 DEF vars, serveur, clients
  <2>2. Uniques => Uniques'
    BY <2>1 DEF Uniques, EstAccepte
  <2>3. /\ Entrees' = Entrees
        /\ \A k : /\ Descripteur(k)' = Descripteur(k) /\ Du(k)' = Du(k) /\ EnCours(k)' = EnCours(k)
                  /\ Client(k)' = Client(k)
    BY <2>1 DEF Entrees, Descripteur, Du, EnCours, selection, table, Client
  <2>4. \A c : /\ EstAccepte(c)' = EstAccepte(c) /\ Present(c)' = Present(c) /\ Fidele(c)' = Fidele(c)
               /\ UneLigne(c)' = UneLigne(c) /\ AuMilieu(c)' = AuMilieu(c)
    BY <2>1 DEF EstAccepte, Present, Fidele, Ecoute, UneLigne, AuMilieu
  <2>5. \A k : Voie(k)' = Voie(k) /\ Patient(k)' = Patient(k)
    BY <2>1, <2>3 DEF Voie, Present, Suit, Ecoute, Chemin, Patient, AuMilieu
  <2>6. Chemins => Chemins'
    BY <2>1, <2>3, <2>4, <2>5 DEF Chemins
  <2>7. Patience => Patience'
    BY <2>1, <2>3, <2>4, <2>5 DEF Patience
  <2>8. (Alternance => Alternance') /\ (Depart => Depart')
    BY <2>1 DEF Alternance, EnBalayage, Depart, table
  <2>. QED BY <1>1, <2>1, <2>2, <2>6, <2>7, <2>8 DEF IInvFidele
<1>3. ASSUME NEW c \in Clients, Agit(c), UNCHANGED <<selection, table>> PROVE IInvFidele'
  <2>1. /\ Depart => Depart'
        /\ programme' = programme
    BY <1>1, <1>3, AgitJuste DEF IInvEcho
  <2>2. CASE programme = "poll_recv"
    <3>1. echo' = echo
      BY <1>3 DEF Agit, Connecte, Envoie, Part
    <3>. QED BY <1>1, <2>1, <2>2, <3>1 DEF IInvFidele
  <2>3. CASE Suivi
    BY <1>1, <1>3, <2>1, <2>3, AgitFidele DEF IInvFidele, Suivi
  <2>. QED BY <1>1, <2>1, <2>2, <2>3 DEF IInvFidele, Suivi
<1>4. CASE Serveur
  <2>1. programme' = programme
    BY <1>4 DEF Serveur
  <2>2. CASE programme = "serEcho"
    BY <1>1, <1>4, <2>1, <2>2, SerEchoFidele DEF Serveur, IInvFidele
  <2>3. CASE programme = "servPoll"
    <3>1. servPoll
      BY <1>4, <2>3 DEF Serveur
    <3>2. CASE Depart'
      BY <1>1, <2>1, <2>3, <3>2 DEF IInvFidele
    <3>3. CASE ~Depart'
      <4>1. ~Depart
        BY <1>1, <3>1, <3>3, DepartServPoll
      <4>. QED BY <1>1, <2>1, <2>3, <3>1, <3>3, <4>1, ServPollFidele DEF IInvFidele
    <3>. QED BY <3>2, <3>3
  <2>4. CASE programme = "poll_recv"
    <3>1. poll_recv
      BY <1>4, <2>4 DEF Serveur
    <3>2. echo' = echo
      BY <3>1 DEF poll_recv, AttendLecture, poll, AccepteLecture, accepte, RecoitUneFois, RetireLecture, clients
    <3>. QED BY <1>1, <2>1, <2>4, <3>2 DEF IInvFidele
  <2>. QED BY <1>1, <2>1, <2>2, <2>3, <2>4 DEF IInvFidele
<1>. QED BY <1>2, <1>3, <1>4 DEF Next

\* Nothing of a client that is listened to is lost or reordered between what it
\* sent, what was not read yet, what is read, what is due and what came back
\* (serEcho.c:137-219, servPoll.c:75-190).
THEOREM ToujoursIInvFidele == Spec => []IInvFidele
<1>. QED BY DebutFidele, PasFidele, PTL DEF Spec

\* What came back is in the order it was sent, and all that was sent up to there
\* for a client that waits for its echo, or of servPoll (serEcho.c:196-219,
\* servPoll.c:158-190).
THEOREM ToujoursEchoFidele == Spec => []EchoFidele
<1>1. IInvFidele => EchoFidele
  <2>. SUFFICES ASSUME IInvFidele, ~(programme = "servPoll" /\ Depart), NEW c \in Clients
                PROVE  /\ \A k \in 2..Len(echo[c]) : echo[c][k - 1].n < echo[c][k].n
                       /\ c \notin Bavards \/ programme = "servPoll" => IsPrefix(echo[c], envoye[c])
    BY DEF EchoFidele
  <2>1. programme \in {"serEcho", "servPoll", "poll_recv"} /\ Types
    <3>1. programme \in Programmes /\ Types
      BY DEF IInvFidele, IInvEcho, Types
    <3>. QED BY <3>1, Constantes
  <2>2. CASE programme = "poll_recv"
    <3>1. echo[c] = <<>> /\ Len(echo[c]) = 0
      BY <2>2, VideDeLui DEF IInvFidele
    <3>2. Len(envoye[c]) \in Nat
      BY <2>1, LenProperties DEF Types
    <3>3. IsPrefix(echo[c], envoye[c])
      BY <3>1, <3>2, SubSeqEmpty DEF IsPrefix
    <3>. QED BY <3>1, <3>3
  <2>3. CASE programme # "poll_recv"
    <3>1. Fidele(c)
      BY <2>1, <2>3 DEF IInvFidele, Chemins
    <3>2. Len(echo[c]) \in Nat
      BY <2>1, LenProperties DEF Types
    <3>3. ASSUME NEW k \in 2..Len(echo[c]) PROVE echo[c][k - 1].n < echo[c][k].n
      <4>1. k - 1 \in 1..Len(echo[c]) /\ k \in 1..Len(echo[c]) /\ k - 1 < k
        BY <3>2
      <4>. QED BY <3>1, <4>1 DEF Fidele
    <3>. QED BY <3>1, <3>3 DEF Fidele, Ecoute
  <2>. QED BY <2>2, <2>3
<1>. QED BY <1>1, ToujoursIInvFidele, PTL
=============================================================================
