----------------------------- MODULE AlarmWatch -----------------------------
(***************************************************************************)
(* How the service follows the alarms of the AML005                        *)
(* (src/src/app/handlers.c): the messages the device sends of itself are   *)
(* noted while frames are received, treated once per turn of the loop, and *)
(* completed by reading the alarm status every second while an alarm is in *)
(* progress.  The device says nothing when it is tapped or stopped with    *)
(* its buttons, so "snoozed" is a presumption bounded by a deadline.       *)
(*                                                                         *)
(* The device and the radio are environment: `wire' holds the frames on    *)
(* their way to the service, in order, `inbox' the requests on their way   *)
(* to the device.  A frame is received one at a time; a read that stops    *)
(* while `wire' is not empty stands for frames that have not arrived yet,  *)
(* so the limit of 16 frames per turn of lire_evenements needs no counter. *)
(* A request given up on is still answered later: the late answer stays on *)
(* the wire, before the following ones.                                    *)
(*                                                                         *)
(* Time: the service samples the clock once per handlers_tick and uses     *)
(* that sample throughout, so the clock moves between two turns only.  The *)
(* period of one second is the flag a_relire; snoozes count minutes.       *)
(***************************************************************************)
EXTENDS Naturals, Sequences

CONSTANTS
    NbAlarmes,      \* alarms of the device (2 in the code)
    Durees,         \* snooze durations a readable alarm may have, in minutes
    DureeMax,       \* duration presumed when the alarm cannot be read (30)
    Actions,        \* what clients ask for: "stop", "snooze"
    Autres,         \* the other messages of the device: "CA" gestures, "EB" timers
    Marge,          \* SNOOZE_MARGIN_MS, in minutes (1)
    QueueSize,      \* EVENT_QUEUE_SIZE (16)
    WireMax,        \* bound: frames on their way to the service
    InboxMax        \* bound: requests the device has not answered yet

ASSUME ConstantsAssumption ==
    /\ NbAlarmes \in Nat \ {0}
    /\ DureeMax \in Nat \ {0}
    /\ Durees \subseteq 1..DureeMax
    /\ Actions \subseteq {"stop", "snooze"}
    /\ Autres \subseteq {"CA", "EB"}
    /\ Marge \in Nat
    /\ QueueSize \in Nat \ {0}
    /\ WireMax \in Nat \ {0}
    /\ InboxMax \in Nat \ {0}

VARIABLES
    lever,              \* device: alarm that holds the lamp, 0 if none
    sonne,              \* device: alarm that rings, 0 if none
    inbox, wire,        \* requests to the device, frames from it
    connected,          \* SweetDawn.connected
    nouvelle,           \* connect_count # evenements.connexions
    pc,                 \* what the single thread of the service is doing
    envoyee,            \* the request of this pc is sent, its answer awaited
    numero, lu,         \* suivre_reveil: alarm of the loop, status just read
    file,               \* evenements.file
    eclairage_change,   \* evenements.eclairage_change
    etat, a_sonne, fin_snooze,  \* evenements.alarmes; fin_snooze: minutes left
    reveil_change,      \* evenements.reveil_change
    surveiller,         \* evenements.surveiller
    a_relire,           \* now >= prochaine_lecture_ms
    arret_demande,      \* evenements.arret_demande
    diffuse,            \* the states last sent to the clients
    arret               \* history: how the last Alarm/Stop found the queue

appareil == <<lever, sonne>>
radio    == <<inbox, wire>>
liaison  == <<connected, nouvelle>>
notes    == <<file, eclairage_change>>
suivi    == <<etat, a_sonne, fin_snooze>>
veille   == <<surveiller, a_relire, arret_demande>>
sortie   == <<reveil_change, diffuse>>
boucle   == <<numero, lu>>

vars == <<appareil, radio, liaison, pc, envoyee, boucle, notes, suivi, veille,
          sortie, arret>>

-----------------------------------------------------------------------------
Alarmes == 1..NbAlarmes
Numeros == 0..NbAlarmes                 \* 0 : none
Etats   == {"idle", "sunrise", "ringing", "snoozed"}

EvtReveil == {"C6", "C7"}               \* sunrise starts, alarm rings
EvtFile   == EvtReveil \union {"EB"}    \* EB : the end of any timer
Reponses  == {"C5", "C8", "C9", "D0", "F3"}
Codes     == EvtFile \union {"CA"} \union Reponses
Trames    == [code : Codes, a : Numeros, b : Numeros]
Trame(c, x, y) == [code |-> c, a |-> x, b |-> y]
Contient(s, codes) == \E i \in DOMAIN s : s[i].code \in codes

\* The exchanges of this module, by the pc that runs them, and the response code awaited
Echanges == {"lumiere", "ambiance", "status", "presumer", "stop", "snooze"}
Attendue == [p \in Echanges |->
    CASE p = "status"   -> "C5"
      [] p = "snooze"   -> "C8"
      [] p = "stop"     -> "C9"
      [] p = "presumer" -> "F3"
      [] OTHER          -> "D0"]
Pcs == Echanges \union {"boucle", "tick", "traiter", "suivre", "alarmes"}

Init ==
    /\ lever = 0 /\ sonne = 0
    /\ inbox = <<>> /\ wire = <<>>
    /\ connected = FALSE /\ nouvelle = FALSE
    /\ pc = "boucle" /\ envoyee = FALSE
    /\ numero = 1 /\ lu = <<0, 0>>
    /\ file = <<>> /\ eclairage_change = FALSE
    /\ etat = [n \in Alarmes |-> "idle"]
    /\ a_sonne = [n \in Alarmes |-> FALSE]
    /\ fin_snooze = [n \in Alarmes |-> 0]
    /\ surveiller = FALSE /\ a_relire = TRUE /\ arret_demande = FALSE
    /\ reveil_change = FALSE
    /\ diffuse = [n \in Alarmes |-> "idle"]
    /\ arret = "none"

-----------------------------------------------------------------------------
(* The device (environment).  Frames sent while the link is down are lost. *)
(* It acts while the service waits: the other steps of the service take no *)
(* time and read nothing of the device, so the order with them is nothing. *)

Attend == pc \in Echanges \union {"boucle", "tick"}

Emettre(f) ==
    IF connected
    THEN /\ Len(wire) < WireMax
         /\ wire' = Append(wire, f)
    ELSE wire' = wire

service == <<liaison, pc, envoyee, boucle, notes, suivi, veille, sortie>>

\* One sunrise at a time: a second one is ignored by the device.
AppareilLever(n) ==
    /\ Attend
    /\ lever = 0 /\ sonne = 0
    /\ lever' = n
    /\ Emettre(Trame("C6", n, 0))
    /\ arret' = "none"
    /\ UNCHANGED <<sonne, inbox, service>>

\* An alarm that rings takes over from the other; the lamp may keep its holder.
AppareilSonne(n) ==
    /\ Attend
    /\ sonne # n
    /\ sonne' = n
    /\ lever' \in {lever, n}
    /\ Emettre(Trame("C7", n, 0))
    /\ arret' = "none"
    /\ UNCHANGED <<inbox, service>>

\* What a tap leaves in progress: the sunrise of the snooze, or nothing to see.
ApresTape == IF sonne # 0 THEN {0, lever, sonne} ELSE {lever}

\* A tap, or a stop with the buttons: no message says so.
AppareilSeTait ==
    /\ Attend
    /\ sonne # 0 \/ lever # 0
    /\ sonne' = 0
    /\ lever' \in ApresTape \union {0}
    /\ UNCHANGED <<radio, service, arret>>

\* A gesture (CA), or the end of a timer (EB): timers run for minutes, so
\* their ends fill one place of the queue at most (4 of 16 in the code).
AppareilParle ==
    /\ Attend
    /\ connected
    /\ \E c \in Autres :
         /\ c = "EB" => ~Contient(wire \o file, {"EB"})
         /\ Emettre(Trame(c, 0, 0))
    /\ UNCHANGED <<appareil, inbox, service, arret>>

\* The device executes its oldest request and answers it.
AppareilRepond ==
    /\ Attend
    /\ inbox # <<>>
    /\ Len(wire) < WireMax
    /\ inbox' = Tail(inbox)
    /\ wire' = Append(wire, IF Head(inbox) = "C5" THEN Trame("C5", lever, sonne)
                                                  ELSE Trame(Head(inbox), 0, 0))
    /\ CASE Head(inbox) = "C9" -> lever' = 0 /\ sonne' = 0
         [] Head(inbox) = "C8" -> lever' \in ApresTape /\ sonne' = 0
         [] OTHER              -> UNCHANGED appareil
    /\ UNCHANGED <<service, arret>>

\* A second, a minute: between two turns of the loop.
Seconde ==
    /\ pc = "boucle" /\ ~a_relire
    /\ a_relire' = TRUE
    /\ UNCHANGED <<appareil, radio, liaison, pc, envoyee, boucle, notes, suivi,
                   surveiller, arret_demande, sortie, arret>>

Minute ==
    /\ pc = "boucle"
    /\ \E n \in Alarmes : fin_snooze[n] > 0
    /\ fin_snooze' = [n \in Alarmes |->
                         IF fin_snooze[n] > 0 THEN fin_snooze[n] - 1 ELSE 0]
    /\ a_relire' = TRUE
    /\ UNCHANGED <<appareil, radio, liaison, pc, envoyee, boucle, notes, etat,
                   a_sonne, surveiller, arret_demande, sortie, arret>>

-----------------------------------------------------------------------------
(* An exchange: messages already there are read first, the request is sent,*)
(* every frame is received until the answer.                               *)

\* Mutant of Noter: the queue has no limit.
NoterSansLimite(f) ==
    /\ eclairage_change' = (eclairage_change \/ f.code = "CA")
    /\ file' = IF f.code \in EvtFile THEN Append(file, f) ELSE file

\* handlers_on_event: CA is a flag, any other message takes a place in the queue, if one is left.
Noter(f) ==
    /\ eclairage_change' = (eclairage_change \/ f.code = "CA")
    /\ file' = IF f.code \in EvtFile /\ Len(file) < QueueSize
               THEN Append(file, f) ELSE file

EstReponse(f) == envoyee /\ f.code = Attendue[pc]

\* A frame that is not the answer awaited: noted if it is a message, otherwise ignored.
Ecouter ==
    /\ pc \in Echanges \union {"tick"}
    /\ connected /\ wire # <<>>
    /\ ~EstReponse(Head(wire))
    /\ Noter(Head(wire))
    /\ wire' = Tail(wire)
    /\ UNCHANGED <<appareil, inbox, liaison, pc, envoyee, boucle, suivi, veille,
                   sortie, arret>>

Envoyer ==
    /\ pc \in Echanges
    /\ connected /\ ~envoyee
    /\ Len(inbox) < InboxMax
    /\ envoyee' = TRUE
    /\ inbox' = Append(inbox, Attendue[pc])
    /\ UNCHANGED <<appareil, wire, liaison, pc, boucle, notes, suivi, veille,
                   sortie, arret>>

\* The next frame answers the request of p (its content is left to the caller).
Repondu(p) ==
    /\ pc = p /\ connected /\ wire # <<>>
    /\ EstReponse(Head(wire))
    /\ wire' = Tail(wire)
    /\ envoyee' = FALSE
    /\ UNCHANGED <<inbox, liaison>>

\* abandonner_liaison, as this module sees it
Perdre ==
    /\ connected
    /\ connected' = FALSE
    /\ wire' = <<>> /\ inbox' = <<>>
    /\ envoyee' = FALSE
    /\ UNCHANGED nouvelle

\* The request of p fails: no link, link lost on the way, or no answer in time.
Expirer ==
    /\ connected /\ envoyee
    /\ envoyee' = FALSE
    /\ UNCHANGED <<radio, liaison>>

Echoue(p) ==
    /\ pc = p
    /\ \/ ~connected /\ UNCHANGED <<radio, liaison, envoyee>>
       \/ Perdre
       \/ Expirer

-----------------------------------------------------------------------------
(* One turn: sweetdawn_tick, then handlers_tick.                           *)

\* sweetdawn_tick with the link up: it reads what has arrived (Ecouter)...
Tick ==
    /\ pc = "boucle" /\ connected
    /\ pc' = "tick"
    /\ UNCHANGED <<appareil, radio, liaison, envoyee, boucle, notes, suivi,
                   veille, sortie, arret>>

\* ... with the link down: it reopens it.
Reconnecter ==
    /\ pc = "boucle" /\ ~connected
    /\ connected' = TRUE /\ nouvelle' = TRUE
    /\ pc' = "tick"
    /\ UNCHANGED <<appareil, radio, envoyee, boucle, notes, suivi, veille,
                   sortie, arret>>

\* The link is lost in sweetdawn_tick: handlers_tick returns at once.
TickPerdu ==
    /\ pc = "tick" /\ Perdre
    /\ pc' = "boucle"
    /\ UNCHANGED <<appareil, boucle, notes, suivi, veille, sortie, arret>>

\* Mutant of HandlersTick: a new connection is like any other turn.
HandlersTickSansRelire ==
    /\ pc = "tick"
    /\ nouvelle' = FALSE
    /\ pc' = "traiter"
    /\ UNCHANGED <<appareil, radio, connected, envoyee, boucle, notes, suivi,
                   veille, sortie, arret>>

\* handlers_tick: after a new connection, the alarms are read at once.
HandlersTick ==
    /\ pc = "tick"
    /\ nouvelle' = FALSE
    /\ surveiller' = (surveiller \/ nouvelle)
    /\ a_relire' = (a_relire \/ nouvelle)
    /\ pc' = "traiter"
    /\ UNCHANGED <<appareil, radio, connected, envoyee, boucle, notes, suivi,
                   arret_demande, sortie, arret>>

\* Mutant of Changer: a second change overwrites the mark of the first.
ChangerEcrase(n, e) ==
    /\ etat' = [etat EXCEPT ![n] = e]
    /\ reveil_change' = (etat[n] # e)

\* changer_alarme
Changer(n, e) ==
    /\ etat' = [etat EXCEPT ![n] = e]
    /\ reveil_change' = (reveil_change \/ etat[n] # e)

\* diffuser_reveil
Diffuser ==
    /\ reveil_change' = FALSE
    /\ diffuse' = IF reveil_change THEN etat ELSE diffuse

\* Mutant of NoteAlarme: a new ringing keeps the old snooze deadline.
NoteAlarmeGardeFin(e) ==
    IF e.a \in Alarmes
    THEN /\ a_sonne' = [a_sonne EXCEPT ![e.a] = (e.code = "C7")]
         /\ Changer(e.a, IF e.code = "C7" THEN "ringing" ELSE "sunrise")
         /\ UNCHANGED fin_snooze
    ELSE UNCHANGED <<suivi, reveil_change>>

\* Mutant of NoteAlarme: a new sunrise is taken for the one of a snooze.
NoteAlarmeGardeSonne(e) ==
    IF e.a \in Alarmes
    THEN /\ a_sonne' = [a_sonne EXCEPT ![e.a] = @ \/ e.code = "C7"]
         /\ fin_snooze' = IF e.code = "C7" THEN [fin_snooze EXCEPT ![e.a] = 0]
                                           ELSE fin_snooze
         /\ Changer(e.a, IF e.code = "C7" THEN "ringing" ELSE "sunrise")
    ELSE UNCHANGED <<suivi, reveil_change>>

\* traiter_evenements, C6 and C7
NoteAlarme(e) ==
    IF e.a \in Alarmes
    THEN /\ a_sonne' = [a_sonne EXCEPT ![e.a] = (e.code = "C7")]
         /\ fin_snooze' = IF e.code = "C7" THEN [fin_snooze EXCEPT ![e.a] = 0]
                                           ELSE fin_snooze
         /\ Changer(e.a, IF e.code = "C7" THEN "ringing" ELSE "sunrise")
    ELSE UNCHANGED <<suivi, reveil_change>>

\* traiter_evenements: one message of the queue
TraiterUn ==
    /\ pc = "traiter" /\ file # <<>>
    /\ file' = Tail(file)
    /\ IF Head(file).code \in EvtReveil
       THEN /\ NoteAlarme(Head(file))
            /\ arret_demande' = FALSE
            /\ surveiller' = TRUE /\ a_relire' = FALSE
            /\ UNCHANGED eclairage_change
       ELSE /\ eclairage_change' \in {TRUE, eclairage_change}
            /\ UNCHANGED <<suivi, reveil_change, veille>>
    /\ UNCHANGED <<appareil, radio, liaison, pc, envoyee, boucle, diffuse, arret>>

\* traiter_evenements: the queue is empty
FinTraiter ==
    /\ pc = "traiter" /\ file = <<>>
    /\ Diffuser
    /\ eclairage_change' = FALSE
    /\ pc' = IF eclairage_change THEN "lumiere" ELSE "suivre"
    /\ UNCHANGED <<appareil, radio, liaison, envoyee, boucle, file, suivi,
                   veille, arret>>

\* relire_eclairage: Light, then Mood; an answer for the other target is an error.
RelireLumiere ==
    /\ Repondu("lumiere")
    /\ pc' \in {"ambiance", "suivre"}
    /\ UNCHANGED <<appareil, boucle, notes, suivi, veille, sortie, arret>>

RelireAmbiance ==
    /\ Repondu("ambiance")
    /\ pc' = "suivre"
    /\ UNCHANGED <<appareil, boucle, notes, suivi, veille, sortie, arret>>

RelireEchoue ==
    /\ \E p \in {"lumiere", "ambiance"} : Echoue(p)
    /\ pc' = "suivre"
    /\ UNCHANGED <<appareil, boucle, notes, suivi, veille, sortie, arret>>

\* suivre_reveil: is it time to read the status?
Suivre ==
    /\ pc = "suivre"
    /\ IF surveiller /\ a_relire
       THEN pc' = "status" /\ a_relire' = FALSE
       ELSE pc' = "boucle" /\ UNCHANGED a_relire
    /\ UNCHANGED <<appareil, radio, liaison, envoyee, boucle, notes, suivi,
                   surveiller, arret_demande, sortie, arret>>

SuivreLit ==
    /\ Repondu("status")
    /\ lu' = <<Head(wire).a, Head(wire).b>>
    /\ numero' = 1
    /\ pc' = "alarmes"
    /\ UNCHANGED <<appareil, notes, suivi, veille, sortie, arret>>

\* Mutant of SuivreEchoue: a read that fails ends the watch.
SuivreEchoueAbandonne ==
    /\ Echoue("status")
    /\ surveiller' = FALSE
    /\ pc' = "boucle"
    /\ UNCHANGED <<appareil, boucle, notes, suivi, a_relire, arret_demande,
                   sortie, arret>>

SuivreEchoue ==
    /\ Echoue("status")
    /\ pc' = "boucle"
    /\ UNCHANGED <<appareil, boucle, notes, suivi, veille, sortie, arret>>

\* The loop of suivre_reveil: what the status read (lu) says of alarm numero
RingSeen(n)    == lu[2] = n
SunriseSeen(n) == ~RingSeen(n) /\ lu[1] = n /\ ~arret_demande
RingCeased(n)  == ~RingSeen(n) /\ ~SunriseSeen(n)
                  /\ etat[n] = "ringing" /\ ~arret_demande
SnoozeRuns(n)  == ~RingSeen(n) /\ ~SunriseSeen(n)
                  /\ etat[n] = "snoozed" /\ ~arret_demande /\ fin_snooze[n] > 0
Ended(n)       == ~(RingSeen(n) \/ SunriseSeen(n) \/ RingCeased(n) \/ SnoozeRuns(n))

dansBoucle == <<appareil, radio, liaison, envoyee, lu, notes, veille, diffuse, arret>>

SuivreUne ==
    /\ pc = "alarmes" /\ numero <= NbAlarmes
    /\ \/ /\ RingSeen(numero)
          /\ a_sonne' = [a_sonne EXCEPT ![numero] = TRUE]
          /\ fin_snooze' = [fin_snooze EXCEPT ![numero] = 0]
          /\ Changer(numero, "ringing")
       \/ /\ SunriseSeen(numero)
          /\ Changer(numero, IF a_sonne[numero] THEN "snoozed" ELSE "sunrise")
          /\ UNCHANGED <<a_sonne, fin_snooze>>
       \/ /\ SnoozeRuns(numero)
          /\ UNCHANGED <<suivi, reveil_change>>
       \/ /\ Ended(numero)
          /\ a_sonne' = [a_sonne EXCEPT ![numero] = FALSE]
          /\ fin_snooze' = [fin_snooze EXCEPT ![numero] = 0]
          /\ Changer(numero, "idle")
    /\ numero' = numero + 1
    /\ UNCHANGED <<pc, dansBoucle>>

\* The ringing has ceased: presumer_snooze reads the alarm first.
SuivreCesse ==
    /\ pc = "alarmes" /\ numero <= NbAlarmes
    /\ RingCeased(numero)
    /\ pc' = "presumer"
    /\ UNCHANGED <<numero, suivi, reveil_change, dansBoucle>>

\* presumer_snooze, its alarm read or not
Presumer(minutes) ==
    /\ fin_snooze' = [fin_snooze EXCEPT ![numero] = minutes + Marge]
    /\ Changer(numero, "snoozed")
    /\ numero' = numero + 1
    /\ pc' = "alarmes"
    /\ UNCHANGED <<appareil, lu, notes, a_sonne, veille, diffuse, arret>>

PresumerLit    == Repondu("presumer") /\ \E d \in Durees \union {DureeMax} : Presumer(d)
PresumerEchoue == Echoue("presumer") /\ Presumer(DureeMax)

\* Mutant of FinSuivre: only the last alarm of the loop is looked at.
FinSuivreDerniere ==
    /\ pc = "alarmes" /\ numero > NbAlarmes
    /\ LET en_cours == etat[NbAlarmes] # "idle"
       IN /\ surveiller' = (surveiller /\ en_cours)
          /\ arret_demande' = (arret_demande /\ en_cours)
    /\ Diffuser
    /\ pc' = "boucle"
    /\ numero' = 1 /\ lu' = <<0, 0>>
    /\ UNCHANGED <<appareil, radio, liaison, envoyee, notes, suivi, a_relire,
                   arret>>

\* The end of suivre_reveil: nothing in progress any more, nothing to watch.
FinSuivre ==
    /\ pc = "alarmes" /\ numero > NbAlarmes
    /\ LET en_cours == \E n \in Alarmes : etat[n] # "idle"
       IN /\ surveiller' = (surveiller /\ en_cours)
          /\ arret_demande' = (arret_demande /\ en_cours)
    /\ Diffuser
    /\ pc' = "boucle"
    /\ numero' = 1 /\ lu' = <<0, 0>>
    /\ UNCHANGED <<appareil, radio, liaison, envoyee, notes, suivi, a_relire,
                   arret>>

-----------------------------------------------------------------------------
(* Alarm/Stop and Alarm/Snooze, between two turns: agir_sur_alarme         *)

AgirSurAlarme ==
    /\ pc = "boucle"
    /\ pc' \in Actions
    /\ UNCHANGED <<appareil, radio, liaison, envoyee, boucle, notes, suivi,
                   veille, sortie, arret>>

\* surveiller_alarme_bientot
SurveillerBientot == surveiller' = TRUE /\ a_relire' = TRUE

\* Mutant of StopReussi: noter_arret_demande is forgotten.
StopReussiOublie ==
    /\ Repondu("stop")
    /\ SurveillerBientot
    /\ arret' = IF Contient(Tail(wire), EvtReveil) THEN "none"
                ELSE IF Contient(file, EvtReveil) THEN "queued" ELSE "clear"
    /\ pc' = "boucle"
    /\ UNCHANGED <<appareil, boucle, notes, suivi, arret_demande, sortie>>

\* The history variable: at the answer, do messages of an alarm wait in the
\* queue, older than the stop ("queued"), or not ("clear")?
StopReussi ==
    /\ Repondu("stop")
    /\ SurveillerBientot
    /\ arret_demande' = TRUE
    /\ arret' = IF Contient(Tail(wire), EvtReveil) THEN "none"
                ELSE IF Contient(file, EvtReveil) THEN "queued" ELSE "clear"
    /\ pc' = "boucle"
    /\ UNCHANGED <<appareil, boucle, notes, suivi, sortie>>

AgirSansStop ==
    /\ Repondu("snooze") \/ (\E p \in {"stop", "snooze"} : Echoue(p))
    /\ SurveillerBientot
    /\ pc' = "boucle"
    /\ UNCHANGED <<appareil, boucle, notes, suivi, arret_demande, sortie, arret>>

-----------------------------------------------------------------------------
Appareil ==
    \/ \E n \in Alarmes : AppareilLever(n) \/ AppareilSonne(n)
    \/ AppareilSeTait
    \/ AppareilParle

Traitement == TraiterUn \/ FinTraiter \/ RelireLumiere \/ RelireAmbiance \/ RelireEchoue

Suivi ==
    \/ Suivre \/ SuivreLit \/ SuivreEchoue
    \/ SuivreUne \/ SuivreCesse \/ PresumerLit \/ PresumerEchoue \/ FinSuivre

Next ==
    \/ Appareil \/ AppareilRepond
    \/ Seconde \/ Minute
    \/ Ecouter \/ Envoyer
    \/ Tick \/ Reconnecter \/ TickPerdu \/ HandlersTick
    \/ Traitement \/ Suivi
    \/ AgirSurAlarme \/ StopReussi \/ AgirSansStop

Spec == Init /\ [][Next]_vars

\* The loop turns (Tick), the clock advances, the device answers, and frames
\* that were sent arrive: none of these can be put off for ever.
Fairness ==
    /\ WF_vars(HandlersTick \/ Traitement \/ Suivi \/ Envoyer \/ Reconnecter)
    /\ WF_vars(StopReussi \/ AgirSansStop)
    /\ WF_vars(AppareilRepond)
    /\ SF_vars(Tick) /\ SF_vars(Ecouter)
    /\ SF_vars(Seconde) /\ SF_vars(Minute)

FairSpec == Spec /\ Fairness

-----------------------------------------------------------------------------
\* The values of the variables; the queue never exceeds its size.
RadioType ==
    /\ lever \in Numeros /\ sonne \in Numeros
    /\ inbox \in Seq(Reponses) /\ wire \in Seq(Trames)
    /\ connected \in BOOLEAN /\ nouvelle \in BOOLEAN /\ envoyee \in BOOLEAN

QueueType ==
    /\ file \in Seq(Trames) /\ Len(file) <= QueueSize
    /\ eclairage_change \in BOOLEAN

LoopType ==
    /\ pc \in Pcs
    /\ numero \in 1..(NbAlarmes + 1) /\ lu \in Numeros \X Numeros
    /\ surveiller \in BOOLEAN /\ a_relire \in BOOLEAN
    /\ arret_demande \in BOOLEAN
    /\ arret \in {"none", "queued", "clear"}

SuiviType ==
    /\ etat \in [Alarmes -> Etats] /\ diffuse \in [Alarmes -> Etats]
    /\ a_sonne \in [Alarmes -> BOOLEAN]
    /\ fin_snooze \in [Alarmes -> 0..(DureeMax + Marge)]
    /\ reveil_change \in BOOLEAN

TypeOK == RadioType /\ QueueType /\ LoopType /\ SuiviType

\* An alarm shown as in progress is being watched, and so is a stop that is
\* remembered: otherwise the state would stay for ever, since the device does
\* not report the end of an alarm (surveiller is set and cleared in four places).
WatchCovers ==
    (\E n \in Alarmes : etat[n] # "idle") \/ arret_demande => surveiller

\* "ringing" and "snoozed" are shown exactly for alarms that have rung since
\* they were last idle, and a snooze deadline never survives a new ringing.
RungIsTracked ==
    \A n \in Alarmes :
        /\ a_sonne[n] <=> etat[n] \in {"ringing", "snoozed"}
        /\ etat[n] = "ringing" => fin_snooze[n] = 0

\* A change not sent yet is marked, and no mark is left when the loops are over.
ChangesMarked ==
    /\ ~reveil_change => diffuse = etat
    /\ pc \notin {"traiter", "alarmes", "presumer"} => ~reveil_change

\* The loop of suivre_reveil has changed none of the alarms it has not come to.
RestIsSent ==
    pc \in {"alarmes", "presumer"} => \A n \in Alarmes : n >= numero => diffuse[n] = etat[n]

\* Whenever the program waits, the clients have been sent the states it holds, with
\* one exception: while presumer_snooze reads an alarm, those that the same reading
\* has changed in the alarms before it.  They are marked, and sent when the loop ends.
ClientsUpToDate == ChangesMarked /\ RestIsSent

\* Once Alarm/Stop has been answered with no message of an alarm waiting in the
\* queue, no alarm is shown again as started or snoozed until the device starts
\* one: the stop is not mistaken for a snooze.
StopGivesIdle ==
    [][arret = "clear" /\ arret' = "clear" =>
         \A n \in Alarmes : etat'[n] \in {etat[n], "idle"}]_vars

\* The README's promise, whatever waits in the queue: a stop sent through
\* SweetDawn is known, and never shown as a snooze.
StopIsKnown ==
    [][arret # "none" =>
         \A n \in Alarmes : etat'[n] = "snoozed" => etat[n] = "snoozed"]_vars

\* Only a ringing that has ceased becomes a snooze, and an alarm shown as
\* snoozed for a time goes back to idle only at its end or for a stop.
SnoozeHasItsTime ==
    [][\A n \in Alarmes :
         /\ etat'[n] = "snoozed" => etat[n] \in {"ringing", "snoozed"}
         /\ etat[n] = "snoozed" /\ etat'[n] = "idle"
               => fin_snooze[n] = 0 \/ arret_demande]_vars

\* From some time on, no request times out.
Repondent == <>[][~Expirer]_vars

\* When the device has nothing in progress any more and answers, both alarms end
\* up idle and stay so, the presumed snoozes included.
CalmGivesIdle ==
    <>[](lever = 0 /\ sonne = 0 /\ connected) /\ Repondent
        => <>[](\A n \in Alarmes : diffuse[n] = "idle")

\* An alarm that goes on ringing is shown to the clients as ringing, even when
\* its message found the queue full or was sent while the link was down.
RingIsShown ==
    <>[]connected /\ Repondent
        => \A n \in Alarmes : sonne = n ~> (diffuse[n] = "ringing" \/ sonne # n)
=============================================================================
