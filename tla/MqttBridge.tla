----------------------------- MODULE MqttBridge -----------------------------
(***************************************************************************)
(* The bridge to Home Assistant (src/mqtt/sweetdawn_mqtt.py, class Bridge). *)
(* One thread talks to the service: it takes one item of a queue, reads the *)
(* groups that are due, then polls.  The thread of the MQTT client puts the *)
(* commands of Home Assistant in that queue and announces the bridge; the   *)
(* listening thread puts the events of the service in it.                   *)
(*                                                                         *)
(* Two groups: status, of which `connected' is kept, and Mood, one lamp,    *)
(* on or off: an ON given to a lamp that is on would lose its scene.  What  *)
(* is published is kept by the broker, when the link is up.                 *)
(***************************************************************************)
EXTENDS Naturals, Sequences

CONSTANT
    AleasMax        \* bound: commands, buttons, cuts and failures of a behaviour

ASSUME BridgeAssumption == AleasMax \in Nat

VARIABLES
    lampe, liaison, \* the lamp of the device, and its link with the service
    service,        \* the service runs
    tard,           \* a command the bridge has given up, not executed yet
    change,         \* the service knows that the lamp changed by itself
    broker,         \* the link with the broker is up
    accueil,        \* on_connect is still to be called
    retained,       \* what the broker keeps of each topic
    commands,       \* the queue
    cache, published, refresh_due,
    next_poll,      \* the poll is wanted at once
    pc, ordre,      \* the main thread, the command it executes
    rep,            \* the answer of the service to its request
    aleas,          \* counts commands, buttons, cuts and failures
    explique,       \* history: others changed the lamp since Mood was read, or
                    \* it could not be read
    depasse,        \* history: a command given up was executed since Mood was read
    surprise        \* history: any of these, since an ON was taken or checked

appareil  == <<lampe, liaison>>
processus == <<service, tard, change>>
mqtt      == <<broker, accueil, retained>>
pont      == <<cache, published, refresh_due, next_poll>>
fil       == <<pc, ordre, rep>>
histoire  == <<explique, depasse, surprise>>

vars == <<appareil, processus, mqtt, commands, pont, fil, aleas, histoire>>

-----------------------------------------------------------------------------
Etats  == {"ON", "OFF"}                         \* and the commands
Topics == {"bridge", "aml", "connected", "mood"}
Lire   == {"ev_lire", "on_lire", "du_lire", "poll_lire"}     \* refresh("Mood")
Absent == "absent"                              \* no key, no message

Init ==
    /\ lampe \in Etats /\ liaison = TRUE
    /\ service = TRUE /\ tard = Absent /\ change = FALSE
    /\ broker = FALSE /\ accueil = FALSE /\ retained = [t \in Topics |-> Absent]
    /\ commands = <<>>
    /\ cache = [status |-> Absent, mood |-> Absent]
    /\ published = [t \in Topics \ {"bridge"} |-> Absent]
    /\ refresh_due = {} /\ next_poll = TRUE
    /\ pc = "file" /\ ordre = Absent /\ rep = Absent
    /\ aleas = 0 /\ explique = TRUE /\ depasse = FALSE /\ surprise = FALSE

Alea == aleas < AleasMax /\ aleas' = aleas + 1

-----------------------------------------------------------------------------
(* The device, the service and the broker (environment).                   *)

\* The lamp changes: what the queue holds of it becomes old.
Changer(etat) ==
    /\ lampe' = etat
    /\ commands' = [i \in DOMAIN commands |->
                      IF commands[i].item = "event" THEN [commands[i] EXCEPT !.vieux = TRUE]
                      ELSE commands[i]]

\* The same, without the bridge.
Bouger(etat) == Changer(etat) /\ explique' = TRUE /\ surprise' = TRUE /\ UNCHANGED depasse

\* Its buttons, which the service may learn; its timer; another client.
Bouton ==
    /\ Alea
    /\ \E e \in Etats \ {lampe} : Bouger(e)
    /\ change' \in {TRUE, change}
    /\ UNCHANGED <<liaison, service, tard, mqtt, pont, fil>>

\* A command given up by the bridge is still in the service: it is executed at last,
\* before or after Mood is read again, or refused.
ServiceEnfin ==
    /\ tard # Absent /\ tard' = Absent
    /\ \/ /\ liaison /\ Changer(tard)
          /\ depasse' = TRUE /\ surprise' = TRUE /\ UNCHANGED explique
       \/ UNCHANGED <<lampe, commands, histoire>>
    /\ UNCHANGED <<liaison, service, change, mqtt, pont, fil, aleas>>

\* light_changed holds the lamp as just read again, timer_ended holds nothing;
\* the listening thread puts it in the queue, if it is subscribed.
listen_events ==
    /\ service /\ change /\ change' = FALSE
    /\ \/ /\ liaison
          /\ \E d \in {lampe, "timer_ended"} :
                commands' = Append(commands, [item |-> "event", data |-> d, vieux |-> FALSE])
       \/ UNCHANGED commands                    \* unread, or nobody listens
    /\ UNCHANGED <<appareil, service, tard, mqtt, pont, fil, aleas, histoire>>

PerdreLiaison ==
    /\ Alea /\ liaison /\ liaison' = FALSE
    /\ UNCHANGED <<lampe, processus, mqtt, commands, pont, fil, histoire>>

RetablirLiaison ==
    /\ service /\ ~liaison /\ liaison' = TRUE
    /\ UNCHANGED <<lampe, processus, mqtt, commands, pont, fil, aleas, histoire>>

Arreter ==
    /\ Alea /\ service /\ service' = FALSE
    /\ liaison' = FALSE /\ tard' = Absent /\ change' = FALSE
    /\ UNCHANGED <<lampe, mqtt, commands, pont, fil, histoire>>

Demarrer ==
    /\ ~service /\ service' = TRUE
    /\ UNCHANGED <<appareil, tard, change, mqtt, commands, pont, fil, aleas, histoire>>

\* The link is cut and the broker publishes the testament, or the broker was
\* stopped itself, and then it may have kept nothing.
Couper ==
    /\ Alea /\ broker /\ broker' = FALSE /\ accueil' = FALSE
    /\ retained' \in {[retained EXCEPT !["bridge"] = "offline"], [t \in Topics |-> Absent]}
    /\ UNCHANGED <<appareil, processus, commands, pont, fil, histoire>>

Joindre ==
    /\ ~broker /\ broker' = TRUE /\ accueil' = TRUE
    /\ UNCHANGED <<appareil, processus, retained, commands, pont, fil, aleas, histoire>>

-----------------------------------------------------------------------------
(* The thread of the MQTT client.                                          *)

\* Mutant: only the bridge and its entities are announced.
AnnounceSansEtats ==
    /\ retained' = [retained EXCEPT !["bridge"] = "online"]
    /\ UNCHANGED commands

announce ==
    /\ retained' = [retained EXCEPT !["bridge"] = "online"]
    /\ commands' = Append(commands, [item |-> "republish"])

on_connect ==
    /\ broker /\ accueil /\ accueil' = FALSE
    /\ announce
    /\ UNCHANGED <<appareil, processus, broker, pont, fil, aleas, histoire>>

\* Home Assistant has restarted, or sends a command.
on_message ==
    /\ Alea /\ broker /\ ~accueil
    /\ \/ announce
       \/ /\ \E o \in Etats : commands' = Append(commands, [item |-> "order", data |-> o])
          /\ UNCHANGED retained
    /\ UNCHANGED <<appareil, processus, broker, accueil, pont, fil, histoire>>

-----------------------------------------------------------------------------
(* The main thread: requests, and what is published of their answers.      *)

\* Only what has changed is sent; what is sent without a link is lost.
publish(d) ==
    LET nouveaux == {t \in DOMAIN d : published[t] # d[t]}
    IN  /\ published' = [t \in DOMAIN published |-> IF t \in nouveaux THEN d[t] ELSE published[t]]
        /\ retained' = [t \in Topics |-> IF broker /\ t \in nouveaux THEN d[t] ELSE retained[t]]
        /\ UNCHANGED <<broker, accueil>>

\* A reading of the group is answered, refused, or fails (a timeout included).
DemanderLecture ==
    /\ rep = Absent
    /\ \/ /\ pc = "poll_status" /\ service
          /\ rep' = (IF liaison THEN "ON" ELSE "OFF")
          /\ UNCHANGED <<aleas, histoire>>
       \/ /\ pc \in Lire /\ service /\ liaison
          /\ rep' = lampe
          /\ explique' = FALSE /\ depasse' = FALSE /\ surprise' = FALSE
          /\ UNCHANGED aleas
       \/ /\ pc \in Lire /\ service
          /\ rep' = "refus" /\ (liaison => Alea) /\ (~liaison => UNCHANGED aleas)
          /\ explique' = TRUE /\ surprise' = TRUE /\ UNCHANGED depasse
       \/ /\ pc \in Lire \union {"poll_status"}
          /\ rep' = "injoignable" /\ (service => Alea) /\ (~service => UNCHANGED aleas)
          /\ IF pc \in Lire THEN explique' = TRUE /\ surprise' = TRUE /\ UNCHANGED depasse
                            ELSE UNCHANGED histoire
    /\ UNCHANGED <<appareil, processus, mqtt, commands, pont, pc, ordre>>

\* The command is executed or refused; its answer may be late or lost.
DemanderCommande ==
    /\ pc = "commande" /\ rep = Absent
    /\ \/ /\ service /\ liaison /\ Changer(ordre)
          /\ \/ rep' = "ok" /\ UNCHANGED aleas
             \/ rep' = "injoignable" /\ Alea
          /\ UNCHANGED tard
       \/ /\ service /\ (liaison => Alea) /\ (~liaison => UNCHANGED aleas)
          /\ rep' = "refus" /\ UNCHANGED <<lampe, commands, tard>>
       \/ /\ service /\ Alea /\ tard = Absent
          /\ rep' = "injoignable" /\ tard' = ordre /\ UNCHANGED <<lampe, commands>>
       \/ ~service /\ rep' = "injoignable" /\ UNCHANGED <<lampe, commands, tard, aleas>>
    /\ UNCHANGED <<liaison, service, change, mqtt, pont, pc, ordre, histoire>>

\* Mutant: "ok": false is taken for an answer.
RefreshSansErreur(group) ==
    IF rep = "injoignable"
    THEN cache' = [cache EXCEPT !.status = Absent] /\ publish([aml |-> "offline"])
    ELSE /\ cache' = [cache EXCEPT ![group] = rep]
         /\ IF group = "status"
            THEN publish([aml |-> IF rep = "ON" THEN "online" ELSE "offline", connected |-> rep])
            ELSE publish([mood |-> rep])

refresh(group) ==
    CASE rep = "refus" -> UNCHANGED <<cache, published, mqtt>>
      [] rep = "injoignable" ->
            cache' = [cache EXCEPT !.status = Absent] /\ publish([aml |-> "offline"])
      [] OTHER ->
            /\ cache' = [cache EXCEPT ![group] = rep]
            /\ IF group = "status"
               THEN publish([aml |-> IF rep = "ON" THEN "online" ELSE "offline",
                             connected |-> rep])
               ELSE publish([mood |-> rep])

-----------------------------------------------------------------------------
(* The main thread: one turn of its loop.                                  *)

Vers(p) == pc' = p /\ rep' = Absent /\ UNCHANGED ordre

\* Mutant: next_poll alone.
RepublierSansOublier ==
    /\ next_poll' = TRUE
    /\ UNCHANGED published

Republier ==
    /\ published' = [t \in DOMAIN published |-> Absent]
    /\ next_poll' = TRUE

PrendreRepublish ==
    /\ Head(commands).item = "republish"
    /\ Republier
    /\ Vers("dues")
    /\ UNCHANGED <<mqtt, cache, refresh_due, histoire>>

\* light_changed holds the state, timer_ended asks for a reading.
handle_event ==
    LET e == Head(commands)
    IN  /\ e.item = "event"
        /\ IF e.data = "timer_ended"
           THEN /\ Vers("ev_lire")
                /\ UNCHANGED <<cache, published, mqtt, explique>>
           ELSE /\ cache' = [cache EXCEPT !.mood = e.data]
                /\ publish([mood |-> e.data])
                /\ explique' = (explique \/ e.vieux)
                /\ Vers("dues")
        /\ UNCHANGED <<refresh_due, next_poll, depasse, surprise>>

\* Mutant: the lamp is looked up in the cache.
PrendreOrdreCache ==
    /\ Head(commands).item = "order"
    /\ rep' = Absent /\ surprise' = FALSE
    /\ IF Head(commands).data = "ON" /\ cache.mood = "ON"
       THEN pc' = "dues" /\ UNCHANGED ordre
       ELSE pc' = "commande" /\ ordre' = Head(commands).data
    /\ UNCHANGED <<mqtt, pont, explique, depasse>>

\* execute: for an ON, the lamp is read first (already_on).
PrendreOrdre ==
    /\ Head(commands).item = "order"
    /\ ordre' = Head(commands).data /\ rep' = Absent /\ surprise' = FALSE
    /\ pc' = IF ordre' = "ON" THEN "on_lire" ELSE "commande"
    /\ UNCHANGED <<mqtt, pont, explique, depasse>>

Prendre ==
    /\ pc = "file" /\ commands # <<>>
    /\ commands' = Tail(commands)
    /\ PrendreRepublish \/ handle_event \/ PrendreOrdre
    /\ UNCHANGED <<appareil, processus, aleas>>

\* The answer for an ON: what the cache says now decides.
already_on ==
    /\ pc = "on_lire" /\ rep # Absent
    /\ refresh("mood")
    /\ rep' = Absent
    /\ IF cache'.mood = "ON"
       THEN pc' = "dues" /\ ordre' = Absent
       ELSE pc' = "commande" /\ UNCHANGED ordre
    /\ UNCHANGED <<appareil, processus, commands, refresh_due, next_poll, aleas, histoire>>

\* Mutant: nothing is read again after a failure.
ExecuteSansErreur ==
    /\ pc = "commande" /\ rep # Absent
    /\ refresh_due' = IF rep = "ok" THEN refresh_due \union {"mood"} ELSE refresh_due
    /\ pc' = "poll" /\ ordre' = Absent /\ rep' = Absent
    /\ UNCHANGED <<appareil, processus, mqtt, commands, cache, published, next_poll, aleas, histoire>>

\* Done or not, Mood is read again, one second later: not in this turn.
execute ==
    /\ pc = "commande" /\ rep # Absent
    /\ refresh_due' = refresh_due \union {"mood"}
    /\ pc' = "poll" /\ ordre' = Absent /\ rep' = Absent
    /\ UNCHANGED <<appareil, processus, mqtt, commands, cache, published, next_poll, aleas, histoire>>

\* The queue was empty for half a second, or its item has been dealt with.
Tour == pc \in {"dues", "poll"} \/ (pc = "file" /\ commands = <<>>)

\* A group whose time has come.
RelireDu ==
    /\ Tour /\ pc # "poll" /\ refresh_due # {}
    /\ refresh_due' = {}
    /\ Vers("du_lire")
    /\ UNCHANGED <<appareil, processus, mqtt, commands, cache, published, next_poll, aleas, histoire>>

\* poll_seconds have passed, or the poll is wanted at once.
Poll ==
    /\ Tour
    /\ next_poll' = FALSE
    /\ Vers("poll_status")
    /\ UNCHANGED <<appareil, processus, mqtt, commands, cache, published, refresh_due, aleas, histoire>>

PasEncore ==
    /\ pc \in {"dues", "poll"} /\ ~next_poll
    /\ Vers("file")
    /\ UNCHANGED <<appareil, processus, mqtt, commands, pont, aleas, histoire>>

refresh_all ==
    /\ pc = "poll_status" /\ rep # Absent
    /\ refresh("status")
    /\ Vers(IF cache'.status = "ON" THEN "poll_lire" ELSE "file")
    /\ UNCHANGED <<appareil, processus, commands, refresh_due, next_poll, aleas, histoire>>

Relu ==
    /\ pc \in Lire \ {"on_lire"} /\ rep # Absent
    /\ refresh("mood")
    /\ Vers(CASE pc = "ev_lire" -> "dues" [] pc = "du_lire" -> "poll" [] OTHER -> "file")
    /\ UNCHANGED <<appareil, processus, commands, refresh_due, next_poll, aleas, histoire>>

-----------------------------------------------------------------------------
Environnement ==
    \/ Bouton \/ ServiceEnfin \/ PerdreLiaison \/ RetablirLiaison
    \/ Arreter \/ Demarrer \/ Couper \/ Joindre

Principal ==
    \/ DemanderLecture \/ DemanderCommande
    \/ Prendre \/ already_on \/ execute
    \/ RelireDu \/ Poll \/ PasEncore \/ refresh_all \/ Relu

Next == Environnement \/ listen_events \/ on_connect \/ on_message \/ Principal

Spec == Init /\ [][Next]_vars

\* The threads run, the links and the service come back, and poll_seconds pass.
Fairness ==
    /\ WF_vars(Principal)
    /\ WF_vars(on_connect) /\ WF_vars(Joindre)
    /\ WF_vars(Demarrer) /\ WF_vars(RetablirLiaison) /\ WF_vars(ServiceEnfin)

FairSpec == Spec /\ Fairness

-----------------------------------------------------------------------------
(* Properties.                                                             *)

\* What the queue may hold.
Evenements == [item : {"event"}, data : Etats \union {"timer_ended"}, vieux : BOOLEAN]
Valeurs == Etats \union {"online", "offline", Absent}
Items == [item : {"republish"}] \union [item : {"order"}, data : Etats] \union Evenements

AppareilOK  == lampe \in Etats /\ liaison \in BOOLEAN
ProcessusOK == service \in BOOLEAN /\ tard \in Etats \union {Absent} /\ change \in BOOLEAN
MqttOK      == broker \in BOOLEAN /\ accueil \in BOOLEAN /\ retained \in [Topics -> Valeurs]
PontOK ==
    /\ cache \in [status : Etats \union {Absent}, mood : Etats \union {Absent}]
    /\ published \in [Topics \ {"bridge"} -> Valeurs]
    /\ refresh_due \subseteq {"mood"} /\ next_poll \in BOOLEAN
FilOK ==
    /\ pc \in Lire \union {"file", "commande", "dues", "poll", "poll_status"}
    /\ ordre \in Etats \union {Absent}
    /\ rep \in Etats \union {"ok", "refus", "injoignable", Absent}
ComptesOK ==
    aleas \in 0..AleasMax /\ explique \in BOOLEAN /\ depasse \in BOOLEAN /\ surprise \in BOOLEAN

\* The variables have their types; the cache never holds a refusal.
TypeOK ==
    AppareilOK /\ ProcessusOK /\ MqttOK /\ commands \in Seq(Items) /\ PontOK /\ FilOK /\ ComptesOK

\* What the bridge holds for published is what the broker keeps, however often
\* the link was cut, once the announcement that follows has been dealt with:
\* `publish' never withholds a value that Home Assistant has not been given.
PublishedIsShown ==
    /\ broker /\ ~accueil
    /\ \A i \in DOMAIN commands : commands[i].item # "republish"
    => \A t \in DOMAIN published : published[t] \in {Absent, retained[t]}

\* After its own commands, done, refused or given up, the bridge does not stay
\* with another lamp than the real one: a difference that no reading is due to
\* correct was made by others, comes from a reading that failed or an event older
\* than the last change, or from a command given up that was executed after Mood
\* was read again.  That last one lasts until the next poll (ShownInTheEnd).
CommandedIsReread ==
    \/ cache.mood \in {lampe, Absent}
    \/ refresh_due # {} \/ explique \/ depasse
    \/ pc \in {"commande"} \union Lire

\* An ON reaches the service only for a lamp that is off, and is dropped only
\* for a lamp that is on: as it was read for this ON, never as it was remembered
\* before.  A failed reading, and a change between that reading and the decision
\* (of others, or a command given up), escape it.
OnIsForADarkLamp ==
    [][/\ pc # "commande" /\ pc' = "commande" /\ ordre' = "ON" => surprise' \/ lampe = "OFF"
       /\ pc = "on_lire" /\ pc' = "dues" => surprise \/ lampe = "ON"]_vars

\* When the disturbances end, Home Assistant shows the bridge and the device
\* as available and the lamp as it is, for good.
ShownInTheEnd ==
    <>[](retained = [bridge |-> "online", aml |-> "online", connected |-> "ON", mood |-> lampe])
=============================================================================
