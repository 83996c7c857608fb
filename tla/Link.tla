-------------------------------- MODULE Link --------------------------------
(***************************************************************************)
(* The supervision of the Bluetooth link (src/src/core/sweetdawn.c): one   *)
(* request and its answer at a time, the refresh that also probes the      *)
(* link, a link given up after some failures in a row, and reconnection    *)
(* with a delay that doubles.                                              *)
(*                                                                         *)
(* A frame is the answer to a request or a message of the device.  Which   *)
(* request an answer belongs to is not in the frame: the field `de' is a   *)
(* history that the program cannot read.                                   *)
(*                                                                         *)
(* Time advances by units (5 s in the code: the request timeout and the    *)
(* retry of a refresh) while the program waits: in poll between two turns, *)
(* in connect, in receive.  Dates of the code are times left here.         *)
(*                                                                         *)
(* aml_receive cannot report an unreadable frame: an incomplete frame is   *)
(* at most 258 bytes, so neither its buffer nor the caller's is too small. *)
(* Bytes that form no frame are skipped by the parser; they and frames     *)
(* longer than one read are why lire_evenements may stop before the end of *)
(* what has arrived.  connect_count is read by the handlers only: it is    *)
(* `nouvelle' in AlarmWatch.                                               *)
(***************************************************************************)
EXTENDS Integers, Sequences

CONSTANTS
    BackoffMin, BackoffMax,     \* SWEETDAWN_BACKOFF_MIN_MS, _MAX_MS
    RefreshInterval,            \* SWEETDAWN_REFRESH_INTERVAL_MS
    RefreshRetry,               \* SWEETDAWN_REFRESH_RETRY_MS
    MaxFailures,                \* SWEETDAWN_MAX_FAILURES
    DelaiReponse,               \* AML_RESPONSE_TIMEOUT_MS
    DelaiLong,                  \* the longest timeout of a client (RADIO_SEEK_TIMEOUT_MS)
    DelaiConnexion,             \* AML_CONNECT_TIMEOUT_MS
    Commandes,                  \* what the commands of the clients ask for
    LectureMax,                 \* frames read per call of lire_evenements (16)
    WireMax, InboxMax,          \* bounds: frames waiting, requests not answered yet
    EssaisMax                   \* bound: links that failed in a row, counted up to it

ASSUME LinkAssumption ==
    /\ BackoffMin \in Nat \ {0} /\ BackoffMax \in Nat /\ BackoffMin <= BackoffMax
    /\ RefreshInterval \in Nat \ {0}
    /\ RefreshRetry \in 1..RefreshInterval
    /\ MaxFailures \in Nat \ {0}
    /\ DelaiReponse \in Nat \ {0}
    /\ DelaiLong \in Nat /\ DelaiReponse <= DelaiLong
    /\ DelaiConnexion \in Nat \ {0}
    /\ {"statut", "reglages", "evenement"} \intersect Commandes = {}
    /\ LectureMax \in Nat \ {0} /\ WireMax \in Nat \ {0} /\ InboxMax \in Nat \ {0}
    /\ EssaisMax \in Nat \ {0}

VARIABLES
    joignable,      \* device: switched on and in range
    rompue,         \* the device has closed the link; the program will find out
    inbox, wire,    \* requests to the device, frames that have arrived from it
    connected,      \* SweetDawn.connected
    failures,       \* consecutive_failures
    backoff,        \* connect_backoff_ms
    attente,        \* time left before next_connect_ms
    relecture,      \* time left before next_refresh_ms
    age,            \* time since last_refresh_ms, -1 if it never was
    pc,             \* where the program is
    demande,        \* the request of pc "envoi" and "reponse"
    delai,          \* time left before the deadline of connect or receive
    tour,           \* a turn of the loop is due: no time passes before it
    essais,         \* history: links that failed since the last refresh
    silence,        \* history: time since the link last answered or opened
    abandonnees     \* history: what this link was asked and did not answer in time

appareil == <<joignable, rompue>>
radio    == <<inbox, wire>>
liaison  == <<connected, failures, backoff, attente, essais, silence, abandonnees>>
lecture  == <<relecture, age>>
fil      == <<pc, demande, delai, tour>>

vars == <<appareil, radio, liaison, lecture, fil>>

-----------------------------------------------------------------------------
Relectures == {"statut", "reglages"}            \* the two requests of a refresh
Demandes   == Commandes \union Relectures

\* An answer is of the request awaited ("sienne") or of an earlier one ("tardive").
Origines == {"sienne", "tardive"}
Trames   == [code : Demandes \union {"evenement"}, de : Origines]
Trame(c, o) == [code |-> c, de |-> o]

PremierS(n, m) == IF n <= m THEN n ELSE m
Dater(s, o) == [i \in DOMAIN s |-> [s[i] EXCEPT !.de = o]]
Delai(d) == IF d \in Relectures THEN {DelaiReponse} ELSE {DelaiReponse, DelaiLong}
AgeMax == 1                                     \* bound: older ages are not told apart
Avance(t) == IF t > 0 THEN t - 1 ELSE 0

Init ==
    /\ joignable \in BOOLEAN /\ rompue = FALSE
    /\ inbox = <<>> /\ wire = <<>>
    /\ connected = FALSE /\ failures = 0
    /\ backoff = 0 /\ attente = 0
    /\ relecture = 0 /\ age = -1
    /\ pc = "libre" /\ demande = "statut" /\ delai = 0 /\ tour = TRUE
    /\ essais = 0 /\ silence = 0 /\ abandonnees = {}

-----------------------------------------------------------------------------
(* The device and the radio (environment).                                 *)

AppareilVaEtVient ==
    /\ joignable' = ~joignable
    /\ UNCHANGED <<rompue, radio, liaison, lecture, fil>>

AppareilRaccroche ==
    /\ connected /\ ~rompue
    /\ rompue' = TRUE
    /\ UNCHANGED <<joignable, radio, liaison, lecture, fil>>

AppareilParle ==
    /\ connected /\ joignable /\ ~rompue
    /\ Len(wire) + Len(inbox) < WireMax         \* the answers owed keep their place
    /\ wire' = Append(wire, Trame("evenement", "tardive"))
    /\ UNCHANGED <<appareil, inbox, liaison, lecture, fil>>

AppareilRepond ==
    /\ joignable /\ ~rompue
    /\ inbox # <<>>
    /\ inbox' = Tail(inbox)
    /\ wire' = Append(wire, Head(inbox))
    /\ UNCHANGED <<appareil, liaison, lecture, fil>>

AppareilIgnore ==
    /\ inbox # <<>>
    /\ inbox' = Tail(inbox)
    /\ UNCHANGED <<appareil, wire, liaison, lecture, fil>>

\* A unit of time passes while the program waits.  In receive, it waits only
\* when nothing has arrived and the link is not seen to be closed.
Patiente ==
    \/ pc = "libre" /\ ~tour
    \/ pc = "connexion" /\ delai > 0
    \/ pc = "reponse" /\ delai > 0 /\ wire = <<>> /\ ~rompue

Temps ==
    /\ Patiente
    /\ tour' = TRUE
    /\ delai' = Avance(delai)
    /\ attente' = Avance(attente)
    /\ relecture' = Avance(relecture)
    /\ age' = IF age = -1 THEN -1 ELSE PremierS(age + 1, AgeMax)
    /\ silence' = IF connected THEN silence + 1 ELSE 0
    /\ UNCHANGED <<appareil, radio, connected, failures, backoff, essais, abandonnees,
                   pc, demande>>

-----------------------------------------------------------------------------
(* The supervision.                                                        *)

\* programmer_reconnexion: the next delay
Double(b) ==
    IF b <= 0 THEN BackoffMin
    ELSE IF b >= BackoffMax \div 2 THEN BackoffMax
    ELSE 2 * b

ProgrammerReconnexion ==
    /\ backoff' = Double(backoff)
    /\ attente' = Double(backoff)
    /\ essais' = PremierS(essais + 1, EssaisMax)

\* Mutant of AbandonnerLiaison: the socket stays open, and is used again.
AbandonnerSansFermer ==
    /\ connected' = FALSE /\ failures' = 0 /\ silence' = 0 /\ abandonnees' = {}
    /\ inbox' = Dater(inbox, "tardive") /\ wire' = Dater(wire, "tardive")
    /\ rompue' = FALSE
    /\ ProgrammerReconnexion

\* abandonner_liaison: what was on its way is lost with the socket.
AbandonnerLiaison ==
    /\ connected' = FALSE /\ failures' = 0 /\ silence' = 0 /\ abandonnees' = {}
    /\ inbox' = <<>> /\ wire' = <<>> /\ rompue' = FALSE
    /\ ProgrammerReconnexion

\* The request is given up and the link is kept: its answer may still come.
GarderLiaison ==
    /\ inbox' = Dater(inbox, "tardive") /\ wire' = Dater(wire, "tardive")
    /\ abandonnees' = abandonnees \union {demande}
    /\ UNCHANGED <<rompue, connected, backoff, attente, essais, silence>>

\* Mutant of TraiterEchec: the count starts again when the link is kept.
TraiterEchecOublie ==
    IF failures + 1 >= MaxFailures
    THEN AbandonnerLiaison
    ELSE /\ failures' = 0
         /\ GarderLiaison

\* Mutant of TraiterEchec: one failure too many is tolerated.
TraiterEchecTropTard ==
    IF failures + 1 > MaxFailures
    THEN AbandonnerLiaison
    ELSE /\ failures' = failures + 1
         /\ GarderLiaison

\* traiter_echec_liaison, after a delay exceeded
TraiterEchec ==
    IF failures + 1 >= MaxFailures
    THEN AbandonnerLiaison
    ELSE /\ failures' = failures + 1
         /\ GarderLiaison

\* lire_evenements: the first frames that have arrived, LectureMax at most.  It stops
\* at the first call that gives none, and with a timeout of 0 that may be before the
\* last: after one read of noise or of a part of a frame, or an interrupted poll.
LireEvenements ==
    \E n \in 0..PremierS(Len(wire), LectureMax) : wire' = SubSeq(wire, n + 1, Len(wire))

\* A closed link is found by a call that has nothing left to read.
FinVue == rompue /\ Len(wire) < LectureMax

\* The end of the request in progress: the next step of the caller.
RendreLaMain == pc' = "libre" /\ delai' = 0 /\ UNCHANGED <<demande, tour>>

\* sweetdawn_refresh after a failure; the commands of the clients have nothing to do.
RelectureEchouee ==
    /\ relecture' = IF demande \in Relectures THEN RefreshRetry ELSE relecture
    /\ UNCHANGED age

-----------------------------------------------------------------------------
(* sweetdawn_tick                                                          *)

TickTropTot ==
    /\ pc = "libre" /\ tour
    /\ ~connected /\ attente > 0
    /\ tour' = FALSE
    /\ UNCHANGED <<appareil, radio, liaison, lecture, pc, demande, delai>>

TickConnecte ==
    /\ pc = "libre" /\ tour
    /\ ~connected /\ attente = 0
    /\ tour' = FALSE
    /\ pc' = "connexion" /\ delai' = DelaiConnexion
    /\ UNCHANGED <<appareil, radio, liaison, lecture, demande>>

\* The link is up: messages are read, then the state if it is time.
TickLit ==
    /\ pc = "libre" /\ tour
    /\ connected
    /\ tour' = FALSE
    /\ \/ /\ FinVue
          /\ AbandonnerLiaison
          /\ UNCHANGED <<joignable, pc, demande>>
       \/ /\ LireEvenements
          /\ IF relecture = 0
             THEN pc' = "envoi" /\ demande' = "statut"
             ELSE UNCHANGED <<pc, demande>>
          /\ UNCHANGED <<appareil, inbox, liaison>>
    /\ UNCHANGED <<lecture, delai>>

\* sweetdawn_connect: the attempt fails at any time, at its timeout at the latest.
ConnexionEchoue ==
    /\ pc = "connexion"
    /\ ProgrammerReconnexion
    /\ pc' = "libre" /\ delai' = 0
    /\ UNCHANGED <<appareil, radio, connected, failures, silence, abandonnees, lecture,
                   demande, tour>>

\* Mutant of ConnexionReussit: the delay starts again with the connection.
ConnexionReussitOptimiste ==
    /\ pc = "connexion" /\ delai > 0 /\ joignable
    /\ connected' = TRUE /\ failures' = 0 /\ silence' = 0
    /\ backoff' = 0
    /\ relecture' = 0
    /\ pc' = "envoi" /\ demande' = "statut" /\ delai' = 0
    /\ UNCHANGED <<appareil, radio, attente, essais, abandonnees, age, tour>>

\* sweetdawn_tick reads the state at once on the new link.
ConnexionReussit ==
    /\ pc = "connexion" /\ delai > 0 /\ joignable
    /\ connected' = TRUE /\ failures' = 0 /\ silence' = 0
    /\ relecture' = 0
    /\ pc' = "envoi" /\ demande' = "statut" /\ delai' = 0
    /\ UNCHANGED <<appareil, radio, backoff, attente, essais, abandonnees, age, tour>>

-----------------------------------------------------------------------------
(* envoyer_requete, for sweetdawn_refresh and for the commands of clients  *)

\* A command, or sweetdawn_refresh asked for by a client; nothing without a link.
Demander ==
    /\ pc = "libre" /\ connected
    /\ demande' \in Commandes \union {"statut"}
    /\ pc' = "envoi"
    /\ UNCHANGED <<appareil, radio, liaison, lecture, delai, tour>>

\* lire_evenements or send finds the link closed: DISCONNECTED to the caller.
EnvoiImpossible ==
    /\ pc = "envoi"
    /\ rompue
    /\ AbandonnerLiaison
    /\ RelectureEchouee /\ RendreLaMain
    /\ UNCHANGED joignable

\* lire_evenements, then the request is sent.
Envoyer ==
    /\ pc = "envoi"
    /\ ~rompue /\ Len(inbox) < InboxMax
    /\ LireEvenements
    /\ inbox' = Append(inbox, Trame(demande, "sienne"))
    /\ delai' \in Delai(demande)
    /\ pc' = "reponse"
    /\ UNCHANGED <<appareil, liaison, lecture, demande, tour>>

\* A command the device does not answer (SWEETDAWN_NO_RESPONSE): sent is done.
EnvoyerSansReponse ==
    /\ pc = "envoi" /\ demande \notin Relectures
    /\ ~rompue
    /\ LireEvenements
    /\ RendreLaMain
    /\ UNCHANGED <<appareil, inbox, liaison, lecture>>

Acceptable == pc = "reponse" /\ wire # <<>> /\ Head(wire).code = demande

\* A message is given to the handler, any other frame is ignored.
Ecarter ==
    /\ pc = "reponse" /\ delai > 0
    /\ wire # <<>> /\ Head(wire).code # demande
    /\ wire' = Tail(wire)
    /\ UNCHANGED <<appareil, inbox, liaison, lecture, fil>>

\* The answer: the link works.  The real one, if this is another, is still to come.
Recevoir ==
    /\ Acceptable /\ delai > 0
    /\ failures' = 0 /\ silence' = 0
    /\ wire' = Dater(Tail(wire), "tardive") /\ inbox' = Dater(inbox, "tardive")
    /\ UNCHANGED abandonnees

\* demander_statut and demander_parametres refuse an answer that is too short.
RecevoirTropCourt ==
    /\ demande \in Relectures
    /\ Recevoir
    /\ RelectureEchouee /\ RendreLaMain
    /\ UNCHANGED <<appareil, connected, backoff, attente, essais>>

\* Mutant of RecevoirStatut: the settings are not asked for.
RecevoirStatutSeul ==
    /\ demande = "statut"
    /\ Recevoir
    /\ RendreLaMain
    /\ UNCHANGED <<appareil, connected, backoff, attente, essais, lecture>>

RecevoirStatut ==
    /\ demande = "statut"
    /\ Recevoir
    /\ pc' = "envoi" /\ demande' = "reglages" /\ delai' = 0
    /\ UNCHANGED <<appareil, connected, backoff, attente, essais, lecture, tour>>

RecevoirReglages ==
    /\ demande = "reglages"
    /\ Recevoir
    /\ age' = 0 /\ relecture' = RefreshInterval
    /\ backoff' = 0 /\ essais' = 0
    /\ RendreLaMain
    /\ UNCHANGED <<appareil, connected, attente>>

RecevoirCommande ==
    /\ demande \in Commandes
    /\ Recevoir
    /\ RendreLaMain
    /\ UNCHANGED <<appareil, connected, backoff, attente, essais, lecture>>

Expirer ==
    /\ pc = "reponse" /\ delai = 0
    /\ TraiterEchec
    /\ RelectureEchouee /\ RendreLaMain
    /\ UNCHANGED joignable

PerteEnAttente ==
    /\ pc = "reponse" /\ delai > 0
    /\ rompue /\ wire = <<>>
    /\ AbandonnerLiaison
    /\ RelectureEchouee /\ RendreLaMain
    /\ UNCHANGED joignable

-----------------------------------------------------------------------------
Appareil == AppareilVaEtVient \/ AppareilRaccroche \/ AppareilParle \/ AppareilIgnore
Tick == TickTropTot \/ TickConnecte \/ TickLit
Connexion == ConnexionEchoue \/ ConnexionReussit
Echange ==
    \/ EnvoiImpossible \/ Envoyer \/ EnvoyerSansReponse \/ Ecarter
    \/ RecevoirTropCourt \/ RecevoirStatut \/ RecevoirReglages \/ RecevoirCommande
    \/ Expirer \/ PerteEnAttente

Next ==
    \/ Appareil \/ AppareilRepond \/ Temps
    \/ Tick \/ Connexion \/ Demander \/ Echange

Spec == Init /\ [][Next]_vars

\* The thread does what it has to do, the loop turns in spite of the clients,
\* the clock advances, and a device in range answers what it has received.
Fairness ==
    /\ WF_vars(Echange) /\ WF_vars(Connexion)
    /\ SF_vars(Tick) /\ SF_vars(Temps)
    /\ WF_vars(AppareilRepond)

FairSpec == Spec /\ Fairness

-----------------------------------------------------------------------------
\* The values of the variables.  A link that is down has nothing on its way and
\* no failure counted; one that is up has fewer failures than the limit.
RadioType ==
    /\ joignable \in BOOLEAN /\ rompue \in BOOLEAN
    /\ inbox \in Seq(Trames) /\ wire \in Seq(Trames)

LinkType ==
    /\ connected \in BOOLEAN
    /\ failures \in 0..(MaxFailures - 1)
    /\ backoff \in {0} \union BackoffMin..BackoffMax
    /\ attente \in 0..backoff
    /\ essais \in 0..EssaisMax /\ silence \in Nat /\ abandonnees \subseteq Demandes
    /\ ~connected => failures = 0 /\ silence = 0 /\ ~rompue
    /\ connected => attente = 0

LoopType ==
    /\ relecture \in 0..RefreshInterval /\ age \in -1..AgeMax
    /\ pc \in {"libre", "connexion", "envoi", "reponse"}
    /\ demande \in Demandes /\ tour \in BOOLEAN
    /\ delai \in 0..(IF pc = "connexion" THEN DelaiConnexion ELSE DelaiLong)
    /\ pc \in {"envoi", "reponse"} => connected
    /\ pc = "connexion" => ~connected /\ attente = 0
    /\ pc \in {"libre", "envoi"} => delai = 0

TypeOK == RadioType /\ LinkType /\ LoopType

\* The delay before reconnecting depends on one thing only: how many links or
\* attempts have failed in a row without one complete read of the state.  A link
\* that opens and never answers does not bring the delay back to its minimum.
Puissance[n \in Nat] == IF n = 0 THEN 1 ELSE 2 * Puissance[n - 1]

AttenteApres(n) ==
    IF n = 0 THEN 0
    ELSE IF n > 1 /\ BackoffMin * Puissance[n - 2] >= BackoffMax \div 2 THEN BackoffMax
    ELSE BackoffMin * Puissance[n - 1]

BackoffFollowsFailures ==
    essais < EssaisMax => backoff = AttenteApres(essais)

\* A link that gives no answer any more is abandoned, whatever the clients ask in
\* the meantime: the refresh comes in time, fails, and is tried again.
PasParEchec == IF DelaiReponse + RefreshRetry >= DelaiLong
               THEN DelaiReponse + RefreshRetry ELSE DelaiLong
SilenceMax == RefreshInterval + (MaxFailures - 1) * PasParEchec + DelaiLong

SilentLinkEnds == silence <= SilenceMax

\* The answer taken is that of the request, unless this link has failed to answer a
\* request of the same kind in time: no other late answer, and none of an earlier
\* link, is ever taken for it.
WrongAnswerHasACause ==
    Acceptable /\ demande \notin abandonnees => Head(wire).de = "sienne"

\* envoyer_requete's promise: a late answer to an earlier request is set aside,
\* never taken for the answer.
AnswerIsOwn == Acceptable /\ delai > 0 => Head(wire).de = "sienne"

\* What StateIsFresh assumes of the device, from some time on.  Time advances: a
\* device or clients cannot do an unlimited number of things in one unit.
Coopere ==
    /\ <>[]joignable
    /\ <>[][~AppareilRaccroche /\ ~AppareilIgnore /\ ~ConnexionEchoue]_vars
    /\ <>[][~Expirer /\ ~RecevoirTropCourt]_vars
    /\ []<><<Temps>>_vars

\* A device that is in range and answers is found again and its state is read
\* again and again, whatever happened before and whatever the clients ask.
StateIsFresh == Coopere => <>[]connected /\ []<>(age = 0)
=============================================================================
