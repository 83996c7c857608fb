----------------------------- MODULE IpcServer ------------------------------
(***************************************************************************)
(* The IPC server of the service (src/src/ipc/ipc_server.c): one thread    *)
(* that, at each turn, runs the periodic task, treats one line of each     *)
(* client that has nothing left to receive, waits in poll, then accepts,   *)
(* reads and writes.  Sockets never block.                                 *)
(*                                                                         *)
(* The flow of a client is a sequence of bytes: the bytes of a line, then  *)
(* its end, that carries what the line asks for and its id.  What the      *)
(* server sends is cut in pieces (Dialogue!Message), since a send may stop *)
(* anywhere.  A line that is not a valid request is answered too, so it is *)
(* a line like any other.  A response longer than the output queue or a    *)
(* lack of memory closes the client and is not modelled.                   *)
(*                                                                         *)
(* Clients act while the server is in poll or serves its clients: the      *)
(* other steps read nothing of them, so the order with them is nothing.    *)
(***************************************************************************)
EXTENDS Naturals, Sequences, FiniteSets

CONSTANTS
    Clients, Aucun,     \* the connections that will be made; no connection
    Ordres,             \* what a line may ask for: "subscribe", "commande"
    Longueurs,          \* the lengths of the lines of the clients
    MaxClients,         \* IPC_SERVER_MAX_CLIENTS (16)
    MessageMax,         \* IPC_SERVER_MAX_MESSAGE (4096 bytes)
    ReadSize,           \* IPC_READ_SIZE (1024 bytes)
    PendingMax,         \* IPC_MAX_PENDING_OUTPUT (256 KiB), in pieces of message
    LignesMax, EvtsMax  \* bounds: lines of a client, events

ASSUME IpcAssumption ==
    /\ Aucun \notin Clients
    /\ Ordres \subseteq {"subscribe", "commande"} /\ Ordres # {}
    /\ Longueurs \subseteq Nat
    /\ MaxClients \in Nat \ {0} /\ MessageMax \in Nat \ {0} /\ ReadSize \in Nat \ {0}
    /\ PendingMax \in Nat /\ PendingMax >= 2
    /\ LignesMax \in Nat /\ EvtsMax \in Nat

VARIABLES
    etat,           \* of a connection: "absent", "file", "ouvert", "clos"
    fermee, parti,  \* the client has ended its sending, has left
    lignes,         \* history: what the client has asked for
    transit, recu,  \* bytes on their way to the server, pieces received from it
    clients,        \* the table of struct IpcClient
    pc, a_servir,   \* where the turn is, places signalled by poll
    running,        \* server->running and no signal
    evenements      \* history: number of events

cote_client == <<fermee, parti, lignes>>
tour        == <<pc, a_servir>>

vars == <<etat, cote_client, transit, recu, clients, tour, running, evenements>>

-----------------------------------------------------------------------------
Places == 1..MaxClients
\* A place after client_reset
Vide == [fd |-> Aucun, subscribed |-> FALSE, input |-> <<>>, output |-> <<>>,
         output_offset |-> 0]
Libre(s) == clients[s].fd = Aucun
PlaceDe(c) == CHOOSE s \in Places : clients[s].fd = c
Fds(f) == {f[s].fd : s \in Places} \ {Aucun}

\* What a client is going to receive if nothing stops it
Reste(cl) == SubSeq(cl.output, cl.output_offset + 1, Len(cl.output))
Flux(c) == IF etat[c] = "ouvert" THEN recu[c] \o Reste(clients[PlaceDe(c)]) ELSE recu[c]

Promesse == INSTANCE Dialogue WITH
    ouverts <- {c \in Clients : etat[c] = "ouvert"},
    clos    <- {c \in Clients : etat[c] = "clos"},
    abonnes <- {clients[s].fd : s \in {t \in Places : clients[t].subscribed}},
    flux    <- [c \in Clients |-> Flux(c)]

\* A line of the client: bytes, then the end that says what it asks and its id.
Octet == <<"octet", 0>>
Ligne(longueur, ordre, id) == Append([i \in 1..longueur |-> Octet], <<ordre, id>>)
EstFin(x) == x # Octet
ContientFin(s) == \E i \in DOMAIN s : EstFin(s[i])
PremiereFin(s) == CHOOSE i \in DOMAIN s : EstFin(s[i]) /\ \A j \in 1..(i - 1) : ~EstFin(s[j])

Init ==
    /\ etat = [c \in Clients |-> "absent"]
    /\ fermee = [c \in Clients |-> FALSE] /\ parti = [c \in Clients |-> FALSE]
    /\ lignes = [c \in Clients |-> <<>>]
    /\ transit = [c \in Clients |-> <<>>] /\ recu = [c \in Clients |-> <<>>]
    /\ clients = [s \in Places |-> Vide]
    /\ pc = "tick" /\ a_servir = {}
    /\ running = TRUE /\ evenements = 0

-----------------------------------------------------------------------------
(* The clients and the signals (environment)                               *)

ClientsAgissent == pc \in {"poll", "servir"}
serveur == <<clients, tour, running, evenements>>

ClientConnecte(c) ==
    /\ ClientsAgissent /\ etat[c] = "absent"
    /\ etat' = [etat EXCEPT ![c] = "file"]
    /\ UNCHANGED <<cote_client, transit, recu, serveur>>

ClientEcrit(c) ==
    /\ ClientsAgissent /\ etat[c] \in {"file", "ouvert"}
    /\ ~fermee[c] /\ ~parti[c] /\ Len(lignes[c]) < LignesMax
    /\ \E longueur \in Longueurs, ordre \in Ordres :
          /\ lignes' = [lignes EXCEPT ![c] = Append(@, ordre)]
          /\ transit' = [transit EXCEPT ![c] =
                            @ \o Ligne(longueur, ordre, Len(lignes[c]) + 1)]
    /\ UNCHANGED <<etat, fermee, parti, recu, serveur>>

\* shutdown: no more lines, but the answers are still read
ClientFinit(c) ==
    /\ ClientsAgissent /\ etat[c] \in {"file", "ouvert"}
    /\ ~fermee[c] /\ ~parti[c]
    /\ fermee' = [fermee EXCEPT ![c] = TRUE]
    /\ UNCHANGED <<etat, parti, lignes, transit, recu, serveur>>

ClientPart(c) ==
    /\ ClientsAgissent /\ etat[c] \in {"file", "ouvert"}
    /\ ~parti[c]
    /\ parti' = [parti EXCEPT ![c] = TRUE]
    /\ UNCHANGED <<etat, fermee, lignes, transit, recu, serveur>>

\* SIGINT, SIGTERM, ipc_server_stop: seen when the turn begins again.
Arreter ==
    /\ pc \in {"tick", "poll"} /\ running
    /\ running' = FALSE
    /\ UNCHANGED <<etat, cote_client, transit, recu, clients, tour, evenements>>

-----------------------------------------------------------------------------
\* The table after some steps of the server; a client that has no place any
\* more has been closed (client_reset).
Poser(f) ==
    /\ clients' = f
    /\ etat' = [c \in Clients |->
                  IF etat[c] = "ouvert" /\ c \notin Fds(f) THEN "clos" ELSE etat[c]]

\* client_append: what has been sent already counts until the queue is empty.
Ajouter(cl, m) ==
    IF Len(cl.output) + 2 > PendingMax THEN Vide
    ELSE [cl EXCEPT !.output = @ \o Promesse!Message(m)]

-----------------------------------------------------------------------------
(* The periodic task                                                       *)

\* Mutant of Diffuser: a subscriber with something left to receive is skipped.
DiffuserSiVide ==
    /\ pc = "tick" /\ running /\ evenements < EvtsMax
    /\ evenements' = evenements + 1
    /\ Poser([s \in Places |->
                IF clients[s].subscribed /\ clients[s].output = <<>>
                THEN Ajouter(clients[s], Promesse!Evenement(evenements + 1))
                ELSE clients[s]])
    /\ UNCHANGED <<cote_client, transit, recu, tour, running>>

\* ipc_server_broadcast
Diffuser ==
    /\ pc = "tick" /\ running /\ evenements < EvtsMax
    /\ evenements' = evenements + 1
    /\ Poser([s \in Places |->
                IF clients[s].subscribed
                THEN Ajouter(clients[s], Promesse!Evenement(evenements + 1))
                ELSE clients[s]])
    /\ UNCHANGED <<cote_client, transit, recu, tour, running>>

FinTick ==
    /\ pc = "tick" /\ running
    /\ pc' = "traiter"
    /\ UNCHANGED <<etat, cote_client, transit, recu, clients, a_servir, running,
                   evenements>>

\* The end of ipc_server_run, and of the connections not accepted yet.
Fermer ==
    /\ pc = "tick" /\ ~running
    /\ pc' = "arrete"
    /\ clients' = [s \in Places |-> Vide]
    /\ etat' = [c \in Clients |-> IF etat[c] = "absent" THEN "absent" ELSE "clos"]
    /\ UNCHANGED <<cote_client, transit, recu, a_servir, running, evenements>>

-----------------------------------------------------------------------------
(* process_buffered_message, process_message                               *)

ATraiter(cl) == cl.output = <<>> /\ ContientFin(cl.input)

\* The first line is taken from the buffer and answered.
Traite(cl) ==
    LET i == PremiereFin(cl.input)
        ligne == cl.input[i]
        suite == SubSeq(cl.input, i + 1, Len(cl.input))
    IN  Ajouter([cl EXCEPT !.input = suite,
                           !.subscribed = @ \/ ligne[1] = "subscribe"],
                Promesse!Reponse(cl.fd, ligne[2]))

\* Mutant of Traiter: only one client is treated at each turn.
TraiterUnSeul ==
    /\ pc = "traiter"
    /\ pc' = "poll"
    /\ LET s == CHOOSE t \in Places : (\E u \in Places : ATraiter(clients[u]))
                                          => ATraiter(clients[t])
       IN  Poser([clients EXCEPT ![s] = IF ATraiter(@) THEN Traite(@) ELSE @])
    /\ UNCHANGED <<cote_client, transit, recu, a_servir, running, evenements>>

Traiter ==
    /\ pc = "traiter"
    /\ pc' = "poll"
    /\ Poser([s \in Places |-> IF ATraiter(clients[s]) THEN Traite(clients[s])
                                                       ELSE clients[s]])
    /\ UNCHANGED <<cote_client, transit, recu, a_servir, running, evenements>>

-----------------------------------------------------------------------------
(* poll, accept                                                            *)

EnFile == {c \in Clients : etat[c] = "file"}
Lisible(c) == transit[c] # <<>> \/ fermee[c] \/ parti[c]

\* A client is watched for writing if it has messages to receive, otherwise for
\* reading; `prets' are the places whose socket has room.
Signales(prets) ==
    {s \in Places : ~Libre(s) /\
        IF clients[s].output # <<>> THEN s \in prets \/ parti[clients[s].fd]
                                    ELSE Lisible(clients[s].fd)}

\* poll returns what is ready, or nothing after a second.
Poll(prets) ==
    /\ pc = "poll"
    /\ a_servir' = Signales(prets)
    /\ pc' = IF EnFile # {} THEN "accepter"
             ELSE IF a_servir' # {} THEN "servir" ELSE "tick"
    /\ UNCHANGED <<etat, cote_client, transit, recu, clients, running, evenements>>

\* poll is interrupted by a signal, or fails: nobody is served in this turn.
Interrompu ==
    /\ pc = "poll" /\ ~running
    /\ pc' = "tick"
    /\ UNCHANGED <<etat, cote_client, transit, recu, clients, a_servir, running,
                   evenements>>

\* A new client takes the first free place; without one it is refused.
Accepter(c) ==
    /\ pc = "accepter" /\ etat[c] = "file"
    /\ IF \E s \in Places : Libre(s)
       THEN LET s == CHOOSE t \in Places : Libre(t) /\ \A u \in 1..(t - 1) : ~Libre(u)
            IN  /\ clients' = [clients EXCEPT ![s].fd = c]
                /\ etat' = [etat EXCEPT ![c] = "ouvert"]
       ELSE /\ etat' = [etat EXCEPT ![c] = "clos"]
            /\ UNCHANGED clients
    /\ UNCHANGED <<cote_client, transit, recu, tour, running, evenements>>

FinAccepter ==
    /\ pc = "accepter" /\ EnFile = {}
    /\ pc' = "servir"
    /\ UNCHANGED <<etat, cote_client, transit, recu, clients, a_servir, running,
                   evenements>>

\* accept fails (too many open files): the server stops.
AccepterEchoue ==
    /\ pc = "accepter" /\ EnFile # {}
    /\ running' = FALSE
    /\ pc' = "servir"
    /\ UNCHANGED <<etat, cote_client, transit, recu, clients, a_servir, evenements>>

-----------------------------------------------------------------------------
(* read_client, write_client, in the order of the table                    *)

AServir(s) == pc = "servir" /\ s \in a_servir /\ \A t \in a_servir : s <= t
Servi(s) == a_servir' = a_servir \ {s} /\ UNCHANGED <<pc, running, evenements>>
ARaccrocher(s) == Poser([clients EXCEPT ![s] = Vide]) /\ UNCHANGED <<transit, recu>>

Plus_petit(a, b) == IF a <= b THEN a ELSE b

\* Mutant of Place_libre: what the buffer holds already is forgotten.
Place_libreEntiere(cl) == MessageMax

Place_libre(cl) == MessageMax - Len(cl.input)

\* Mutant of Lire: a buffer that has just been filled is taken for a line too long.
LireCoupeTropTot(s) ==
    /\ AServir(s) /\ clients[s].output = <<>>
    /\ LET cl == clients[s]
           c == cl.fd
           n == Plus_petit(Plus_petit(ReadSize, Place_libre(cl)), Len(transit[c]))
       IN  IF Len(cl.input) + n >= MessageMax \/ transit[c] = <<>>
           THEN ARaccrocher(s)
           ELSE /\ clients' = [clients EXCEPT ![s].input = @ \o SubSeq(transit[c], 1, n)]
                /\ transit' = [transit EXCEPT ![c] = SubSeq(@, n + 1, Len(@))]
                /\ UNCHANGED <<etat, recu>>
    /\ Servi(s) /\ UNCHANGED cote_client

Lire(s) ==
    /\ AServir(s) /\ clients[s].output = <<>>
    /\ LET cl == clients[s]
           c == cl.fd
           n == Plus_petit(Plus_petit(ReadSize, Place_libre(cl)), Len(transit[c]))
       IN  IF Len(cl.input) >= MessageMax \/ transit[c] = <<>>
           THEN ARaccrocher(s)
           ELSE /\ clients' = [clients EXCEPT ![s].input = @ \o SubSeq(transit[c], 1, n)]
                /\ transit' = [transit EXCEPT ![c] = SubSeq(@, n + 1, Len(@))]
                /\ UNCHANGED <<etat, recu>>
    /\ Servi(s) /\ UNCHANGED cote_client

\* Mutant of Envoye: what did not fit in the socket is forgotten.
EnvoyeOublie(cl, k) == [cl EXCEPT !.output = <<>>, !.output_offset = 0]

\* Mutant of Envoye: a partial write does not move the offset.
EnvoyeRepris(cl, k) ==
    IF k = Len(Reste(cl)) THEN [cl EXCEPT !.output = <<>>, !.output_offset = 0] ELSE cl

\* What the place becomes once k pieces have been sent.
Envoye(cl, k) ==
    IF k = Len(Reste(cl)) THEN [cl EXCEPT !.output = <<>>, !.output_offset = 0]
    ELSE [cl EXCEPT !.output_offset = @ + k]

Ecrire(s) ==
    /\ AServir(s) /\ clients[s].output # <<>>
    /\ LET c == clients[s].fd
       IN  /\ ~parti[c]
           /\ \E k \in 1..Len(Reste(clients[s])) :
                /\ recu' = [recu EXCEPT ![c] = @ \o SubSeq(Reste(clients[s]), 1, k)]
                /\ clients' = [clients EXCEPT ![s] = Envoye(@, k)]
    /\ Servi(s) /\ UNCHANGED <<etat, cote_client, transit>>

\* The client has left: POLLERR, POLLHUP or a send that fails.
Perdu(s) ==
    /\ AServir(s) /\ parti[clients[s].fd]
    /\ ARaccrocher(s)
    /\ Servi(s) /\ UNCHANGED cote_client

FinServir ==
    /\ pc = "servir" /\ a_servir = {}
    /\ pc' = "tick"
    /\ UNCHANGED <<etat, cote_client, transit, recu, clients, a_servir, running,
                   evenements>>

-----------------------------------------------------------------------------
Environnement ==
    \/ \E c \in Clients : ClientConnecte(c) \/ ClientEcrit(c) \/ ClientFinit(c) \/ ClientPart(c)
    \/ Arreter

Tour ==
    \/ FinTick \/ Fermer \/ Traiter
    \/ (\E prets \in SUBSET Places : Poll(prets)) \/ Interrompu
    \/ (\E c \in Clients : Accepter(c)) \/ FinAccepter
    \/ (\E s \in Places : Lire(s) \/ Ecrire(s) \/ Perdu(s)) \/ FinServir

Next == Environnement \/ Diffuser \/ Tour \/ AccepterEchoue

Spec == Init /\ [][Next]_vars

\* The thread goes on, and the socket of a client that reads has room in the end.
Fairness ==
    /\ WF_vars(Tour)
    /\ \A s \in Places :
          SF_vars(\E prets \in SUBSET Places : s \in prets /\ Poll(prets))

FairSpec == Spec /\ Fairness

-----------------------------------------------------------------------------
\* The values of the variables; no queue of messages exceeds its limit, no line
\* its buffer, and two places never hold the same connection.
TypeOK ==
    /\ etat \in [Clients -> {"absent", "file", "ouvert", "clos"}]
    /\ fermee \in [Clients -> BOOLEAN] /\ parti \in [Clients -> BOOLEAN]
    /\ \A c \in Clients : Len(lignes[c]) <= LignesMax
    /\ \A s \in Places :
         /\ clients[s].fd \in Clients \union {Aucun}
         /\ Libre(s) => clients[s] = Vide
         /\ Len(clients[s].input) <= MessageMax
         /\ Len(clients[s].output) <= PendingMax
         /\ clients[s].output # <<>> => clients[s].output_offset < Len(clients[s].output)
    /\ \A s, t \in Places : s # t /\ ~Libre(s) => clients[s].fd # clients[t].fd
    /\ Fds(clients) = {c \in Clients : etat[c] = "ouvert"}
    /\ pc \in {"tick", "traiter", "poll", "accepter", "servir", "arrete"}
    /\ a_servir \subseteq Places /\ running \in BOOLEAN /\ evenements \in 0..EvtsMax

\* Each client gets its own answers, whole, once and in order, and after it has
\* subscribed every event, in order: see Dialogue.
Implements == Promesse!DSpec

\* What a client has read so far is whole messages and a beginning of one: its own
\* answers numbered 1, 2, 3... and events without a gap, whatever the partial reads,
\* the partial writes, and the events broadcast between two answers (write_client,
\* client_append, ipc_server_broadcast).
ReceivedIsSound == \A c \in Clients : Promesse!Sain(c, recu[c])

\* The server never goes to sleep in poll on a line it could treat: a client that
\* waits for an answer would wait for the next thing it sends.
NoLineForgotten ==
    pc = "poll" => \A s \in Places : clients[s].output = <<>> => ~ContientFin(clients[s].input)

\* A server that goes on closes a client that has not left for three reasons only:
\* it ended its sending and has received all its answers, it sent a line that fills
\* the buffer before its end (so a line of MessageMax bytes, which the documents
\* still promise to take, is one: see README.md), or it is too late for an event.
\* What other clients do is not one.
LigneTropLongue(cl) == Len(cl.input) = MessageMax /\ ~ContientFin(cl.input)
Retard(cl) == cl.subscribed /\ Len(cl.output) + 2 > PendingMax

ClosedForCause ==
    [][\A c \in Clients :
         etat[c] = "ouvert" /\ etat'[c] = "clos" /\ ~parti[c] /\ running =>
            LET cl == clients[PlaceDe(c)]
            IN  \/ fermee[c] /\ transit[c] = <<>> /\ cl.output = <<>>
                     /\ Promesse!Repondues(c) = Len(lignes[c])
                \/ LigneTropLongue(cl)
                \/ Retard(cl)]_vars

\* A client that stays and reads gets an answer to each of its lines, or is closed.
AnswerArrives ==
    \A c \in Clients : \A n \in 1..LignesMax :
        etat[c] \in {"file", "ouvert"} /\ Len(lignes[c]) >= n
            ~> Promesse!Repondues(c) >= n \/ etat[c] = "clos" \/ parti[c]
=============================================================================
