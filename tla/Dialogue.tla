------------------------------ MODULE Dialogue ------------------------------
(***************************************************************************)
(* What the IPC server promises to each of its clients                     *)
(* (src/src/ipc/ipc_server.h): every line is answered, in order and once;  *)
(* a client that has subscribed also receives every event from then on,    *)
(* in order; messages never mix.  A connection may end at any time, and    *)
(* then only a beginning of what was promised may have arrived.            *)
(*                                                                         *)
(* `flux' is what a client has received or is going to receive.  A message *)
(* is two pieces, its text and its end of line, so that half a message and *)
(* two messages mixed together are not a flow of this specification.       *)
(***************************************************************************)
EXTENDS Naturals, Sequences, FiniteSets

CONSTANTS
    Clients,        \* connections, each used once
    Ordres          \* what a line asks for: "subscribe", or anything else

VARIABLES
    ouverts,        \* connections that are open
    clos,           \* connections that have been closed
    lignes,         \* what each client has asked for, in order
    abonnes,        \* the clients that have subscribed
    flux,           \* what each client receives
    evenements      \* number of events so far

dialogue == <<ouverts, clos, lignes, abonnes, flux, evenements>>

-----------------------------------------------------------------------------
\* The pieces of a message; a response names its client and its request.
Reponse(c, n) == [pour |-> {c}, n |-> n]
Evenement(n)  == [pour |-> {}, n |-> n]
Message(m)    == << <<m, "texte">>, <<m, "fin">> >>

\* The ends of the responses in a flow, and how many a client has been promised.
Fins(f) == {i \in DOMAIN f : f[i][1].pour # {} /\ f[i][2] = "fin"}
Repondues(c) == Cardinality(Fins(flux[c]))

DInit ==
    /\ ouverts = {} /\ clos = {} /\ abonnes = {}
    /\ lignes = [c \in Clients |-> <<>>]
    /\ flux = [c \in Clients |-> <<>>]
    /\ evenements = 0

Ouvrir(cs) ==
    /\ cs \intersect (ouverts \union clos) = {}
    /\ ouverts' = ouverts \union cs
    /\ UNCHANGED <<clos, lignes, abonnes, flux, evenements>>

Demander(c) ==
    /\ \E o \in Ordres : lignes' = [lignes EXCEPT ![c] = Append(@, o)]
    /\ UNCHANGED <<ouverts, clos, abonnes, flux, evenements>>

\* Each of these clients gets the answer to the oldest line it has none for.
Repondre(cs) ==
    /\ cs \subseteq ouverts
    /\ \A c \in cs : Repondues(c) < Len(lignes[c])
    /\ flux' = [c \in Clients |->
                  IF c \in cs THEN flux[c] \o Message(Reponse(c, Repondues(c) + 1))
                              ELSE flux[c]]
    /\ abonnes' = abonnes \union
                    {c \in cs : lignes[c][Repondues(c) + 1] = "subscribe"}
    /\ UNCHANGED <<ouverts, clos, lignes, evenements>>

\* The end of some connections: what was not sent yet is lost.
Tronque(cs) ==
    \A c \in Clients :
        IF c \in cs THEN \E k \in 0..Len(flux[c]) : flux'[c] = SubSeq(flux[c], 1, k)
                    ELSE flux'[c] = flux[c]

Clore(cs) ==
    /\ ouverts' = ouverts \ cs /\ clos' = clos \union cs
    /\ abonnes' = abonnes \ cs
    /\ DOMAIN flux' = Clients /\ Tronque(cs)
    /\ UNCHANGED <<lignes, evenements>>

\* An event goes to every subscriber; those that are too late are disconnected.
Diffuser(cs) ==
    /\ cs \subseteq abonnes
    /\ evenements' = evenements + 1
    /\ ouverts' = ouverts \ cs /\ clos' = clos \union cs
    /\ abonnes' = abonnes \ cs
    /\ DOMAIN flux' = Clients
    /\ \A c \in Clients :
          IF c \in cs THEN \E k \in 0..Len(flux[c]) : flux'[c] = SubSeq(flux[c], 1, k)
          ELSE flux'[c] = IF c \in abonnes THEN flux[c] \o Message(Evenement(evenements + 1))
                                           ELSE flux[c]
    /\ UNCHANGED lignes

DNext ==
    \/ \E cs \in SUBSET Clients : Ouvrir(cs) \/ Repondre(cs) \/ Clore(cs) \/ Diffuser(cs)
    \/ \E c \in Clients : Demander(c)

DSpec == DInit /\ [][DNext]_dialogue

-----------------------------------------------------------------------------
(* What a client finds in its flow, of any length, whole or cut.            *)

\* The ends of the events in a flow.
FinsEvt(f) == {i \in DOMAIN f : f[i][1].pour = {} /\ f[i][2] = "fin"}

\* Texts and ends alternate, each end with its text; the answers are those of the
\* client c, numbered 1, 2, 3...; no event is missing between two events.
Sain(c, f) ==
    /\ \A i \in 1..Len(f) : f[i][2] = "fin" => i > 1 /\ f[i - 1] = <<f[i][1], "texte">>
    /\ \A i \in 1..(Len(f) - 1) : f[i][2] = "texte" => f[i + 1] = <<f[i][1], "fin">>
    /\ \A i \in Fins(f) : f[i][1] = Reponse(c, Cardinality(Fins(SubSeq(f, 1, i))))
    /\ \A i, j \in FinsEvt(f) :
          i < j /\ (\A k \in FinsEvt(f) : k <= i \/ j <= k) => f[j][1].n = f[i][1].n + 1
=============================================================================
