--------------------------- MODULE MessageFormats ---------------------------
(* The buffers in which messages travel (messages/struct_mess.c) and the     *)
(* messages of a peer that joins (messages/messages.c).  A buffer is the     *)
(* sequence of its bytes; an address, a port, a price and a sale number,     *)
(* which nothing scans byte by byte, are one element each.                   *)
EXTENDS Integers, SequencesExt

CONSTANTS
    MESS_SIZE, SIG_SIZE, CLE_SIZE,  \* the sizes of the fields of a message
    MTU                             \* the size of a buffer

\* A buffer has room for a message without text.
ASSUME TaillesAssumption ==
    /\ {MESS_SIZE, SIG_SIZE, CLE_SIZE} \subseteq Nat \ {0}
    /\ MTU \in Nat /\ MTU >= 35

CR == 13
LF == 10
NUL == 0

\* What a function that returns -1 leaves to send: nothing.
Refus == <<>>

Octets(n) == <<n \div 256, n % 256>>
Entier(o) == 256 * o[1] + o[2]
PlusPetit(S) == CHOOSE i \in S : \A j \in S : i <= j
AuPlus(n, borne) == IF n < borne THEN n ELSE borne
-----------------------------------------------------------------------------
initialize_message ==
    [code |-> 0, id |-> 0, lmess |-> 0, lsig |-> 0, mess |-> <<>>, sig |-> <<>>,
     nb |-> 0, numv |-> 0, prix |-> 0, ip |-> NUL, port |-> 0, cle |-> <<>>]

\* A message that malloc() returned and nobody initialised: its lengths and its
\* key are what was there.  It is sent with some text that nobody asked for,
\* refused, or sent with a key that holds the end of a line.
Indefinis ==
    {[initialize_message EXCEPT !.lmess = 1, !.mess = <<LF>>, !.cle = <<LF>>],
     [initialize_message EXCEPT !.lmess = MESS_SIZE],
     [initialize_message EXCEPT !.cle = <<CR, LF, LF>>]}

rejoindre_enchere_mess1 == [initialize_message EXCEPT !.code = 3]

rejoindre_enchere_mess3(id, ip, port) ==
    [initialize_message EXCEPT !.code = 4, !.id = id, !.ip = ip, !.port = port]

identifiant_non_valide(id) == [initialize_message EXCEPT !.code = 51, !.id = id]

suffixe_info(id, ip, port, cle) ==
    [initialize_message EXCEPT !.id = id, !.ip = ip, !.port = port,
                               !.cle = SubSeq(cle, 1, AuPlus(Len(cle), CLE_SIZE - 1))]

rejoindre_enchere_mess4(id, ip, port, cle) ==
    [suffixe_info(id, ip, port, cle) EXCEPT !.code = 5]
\* Mutant: the address of the newcomer is not copied.
SansAdresse(id, ip, port, cle) == [suffixe_info(id, NUL, port, cle) EXCEPT !.code = 6]
rejoindre_enchere_mess5(id, ip, port, cle) ==
    [suffixe_info(id, ip, port, cle) EXCEPT !.code = 6]

\* The header of a list is a message of Indefinis: only the fields below are set.
rejoindre_enchere_mess6(entete, liste, id, adresse) ==
    <<[entete EXCEPT !.code = 7, !.id = id, !.ip = adresse, !.nb = Len(liste)]>>
        \o [i \in 1..Len(liste) |->
               suffixe_info(liste[i].id, liste[i].ip, liste[i].port, liste[i].cle)]
-----------------------------------------------------------------------------
Valide(m) == m.lmess < MESS_SIZE /\ m.lsig < SIG_SIZE /\ Len(m.cle) < CLE_SIZE

struct2buf(m) ==
    IF ~Valide(m) THEN Refus
    ELSE <<m.code>> \o Octets(m.id) \o <<m.lmess, m.lsig>>
            \o SubSeq(m.mess, 1, m.lmess) \o SubSeq(m.sig, 1, m.lsig)
            \o Octets(m.nb) \o <<m.numv, m.prix, m.ip, m.port>>
            \o m.cle \o <<CR, LF>>

\* The text that begins a buffer: it ends before its first NUL byte, where
\* strstr() and strlen() stop.
Texte(b) == SubSeq(b, 1, PlusPetit({i \in 1..Len(b) : b[i] = NUL} \cup {Len(b) + 1}) - 1)
FinsDeLigne(t) == {i \in 1..(Len(t) - 1) : t[i] = CR /\ t[i + 1] = LF}

\* The message at the start of b and the bytes it takes.  The key goes up to
\* the end of the line if there is one, and is cut when it is too long.
buf2struct(b) ==
    LET lmess == b[4]
        lsig == b[5]
        s == 5 + lmess
        f == s + lsig
        texte == Texte(SubSeq(b, f + 7, Len(b)))
        lignes == FinsDeLigne(texte)
        long == AuPlus(IF lignes = {} THEN Len(texte) ELSE PlusPetit(lignes) - 1,
                       CLE_SIZE - 1)
    IN  [lu |-> f + 6 + long + (IF lignes = {} THEN 0 ELSE 2),
         m |-> [code |-> b[1], id |-> Entier(SubSeq(b, 2, 3)),
                lmess |-> lmess, lsig |-> lsig,
                mess |-> SubSeq(b, 6, s), sig |-> SubSeq(b, s + 1, f),
                nb |-> Entier(SubSeq(b, f + 1, f + 2)),
                numv |-> b[f + 3], prix |-> b[f + 4], ip |-> b[f + 5],
                port |-> b[f + 6], cle |-> SubSeq(texte, 1, long)]]

\* The bytes of a message, end of line included, and of a list, of which only
\* the last message keeps its own.
Longueur(m) == 35 + m.lmess + m.lsig + Len(m.cle)
Longueurs(msgs) == FoldLeft(LAMBDA n, m : n + Longueur(m) - 2, 2, msgs)

\* Nothing is sent when a message is refused or when the buffer is too small.
Tient(msgs) == (\A k \in 1..Len(msgs) : Valide(msgs[k])) /\ Longueurs(msgs) <= MTU

structs2buf(msgs) ==
    IF ~Tient(msgs) THEN Refus
    ELSE FlattenSeq([k \in 1..Len(msgs) |->
             LET o == struct2buf(msgs[k]) IN
             IF k = Len(msgs) THEN o ELSE SubSeq(o, 1, Len(o) - 2)])

\* Mutant: the length of the first message stands for that of every message.
MemePas(b) ==
    LET lu == buf2struct(b).lu
        lit[i \in 0..Len(b)] ==
            IF b = <<>> \/ i + lu > Len(b) THEN <<>>
            ELSE <<buf2struct(SubSeq(b, i + 1, Len(b))).m>> \o lit[i + lu]
    IN  lit[0]

buf2structs(b) ==
    LET lit[i \in 0..Len(b)] ==
            IF i >= Len(b) THEN <<>>
            ELSE LET r == buf2struct(SubSeq(b, i + 1, Len(b))) IN
                 IF ~Valide(r.m) THEN <<>>
                 ELSE <<r.m>> \o lit[AuPlus(i + r.lu, Len(b))]
    IN  lit[0]

\* What arrives of the messages of one send(): all of them, or nothing.
Emis(msgs) == IF Tient(msgs) THEN msgs ELSE <<>>

\* The bytes that one send() after the other wrote in a stream.
Ecrits(envois) == FlattenSeq([k \in 1..Len(envois) |-> structs2buf(envois[k])])

\* A list whose header has a key that ends the line too early: the entries are
\* read from the middle of that key on.
Rompue(envoi) == envoi[1].code = 7 /\ FinsDeLigne(envoi[1].cle) # {}

\* The first message read is the first one written, as far as it was set.
PremierFidele(envois) ==
    LET lu == buf2struct(Ecrits(envois)).m
        ecrit == envois[1][1]
    IN  lu.code = ecrit.code /\ lu.id = ecrit.id /\ lu.nb = ecrit.nb

\* All that is read is all that was written.
Transparent(envois) == buf2structs(Ecrits(envois)) = FlattenSeq(envois)
=============================================================================
