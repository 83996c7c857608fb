------------------------------ MODULE AmlClock ------------------------------
(***************************************************************************)
(* The settings, the clock and the alarms of the device, as the service    *)
(* knows and changes them (src/src/app/handlers.c, core/control.c,         *)
(* core/state.c).  The device cannot tell its time, and takes settings and *)
(* alarms whole only: the service remembers what it wrote or read last,    *)
(* while buttons change the device and answers are late or lost.           *)
(*                                                                         *)
(* Two of the five settings: time (0: auto, 1: manual) and any other.  Two *)
(* of the fields of an alarm.  A clock is its offset, in seconds, with the *)
(* clock of the system.  An exchange is that of Link: requests and answers *)
(* keep their order, an answer given up may come later and be taken for    *)
(* the next one of its kind, which the program cannot see (`de').          *)
(***************************************************************************)
EXTENDS Integers, Sequences

CONSTANTS
    Jeux,           \* the sets of commands the clients use
    Ecarts,         \* offsets chosen with Set time; 0 is Sync time
    Delai,          \* seconds an exchange of the clock may take
    FileMax,        \* bound: requests the device has not treated yet
    DeriveMax,      \* bound: seconds lost after which offsets are counted anew
    Ailleurs        \* a time nobody has sent

ASSUME ClockAssumption ==
    /\ Jeux \subseteq SUBSET {"autre", "time", "heure", "alarme"}
    /\ Ecarts \subseteq Int /\ 0 \in Ecarts
    /\ Delai \in Nat /\ FileMax \in Nat \ {0} /\ DeriveMax \in Nat \ 0..1
    /\ Ailleurs \notin Int

VARIABLES
    jeu,            \* the commands used in this behaviour, buttons, long exchanges
    appareil,       \* device: its settings, its alarm
    decal,          \* device: offset of its clock
    inbox, wire,    \* requests to the device, answers from it
    connected,      \* the link is open
    state, known,   \* AmlState: the settings as last read or written, state.known
    clock_set,      \* clock_set, clock_offset_s
    clock_offset,
    echu,           \* CLOCK_RESYNC_MS have passed since clock_synced_ms
    patience,       \* next_attempt_ms has not come yet
    pc,             \* the answer awaited, or "libre"
    cible,          \* the settings or the alarm being written
    vise,           \* the offset being sent, -1 and less: none
    suite,          \* the write of the settings is followed by a time
    passe,          \* seconds since the time to send was computed
    touche,         \* history: what buttons changed since the exchange began
    du,             \* history: the changes acknowledged to the clients
    doute           \* history: the clock was touched, or sent without an answer

service  == <<state, known>>
horloge  == <<clock_set, clock_offset, echu, patience>>
commande == <<pc, cible, vise, suite, passe>>
radio    == <<inbox, wire>>
temoins  == <<touche, du, doute>>

vars == <<jeu, appareil, decal, radio, connected, service, horloge, commande, temoins>>

-----------------------------------------------------------------------------
Bit      == 0..1
Reglages == [time : Bit, autre : Bit]
Alarme   == [a : Bit, b : Bit]
Rien     == [rien |-> 0]                        \* a frame without data

Reponse(q) ==
    CASE q = "lire" -> "E2" [] q = "ecrire" -> "F2" [] q = "heure" -> "F1"
      [] OTHER -> "F3"                          \* alarms, read or written

Tardives(s) == [i \in DOMAIN s |-> [s[i] EXCEPT !.de = "tardive"]]

Init ==
    /\ jeu \in Jeux
    /\ \E m \in Bit : appareil = [reglages |-> [time |-> m, autre |-> 0],
                                  alarme |-> [a |-> 0, b |-> 0]]
    /\ decal = Ailleurs
    /\ inbox = <<>> /\ wire = <<>> /\ connected = FALSE
    /\ state = [time |-> 0, autre |-> 0] /\ known = FALSE
    /\ clock_set = FALSE /\ clock_offset = 0 /\ echu = FALSE /\ patience = FALSE
    /\ pc = "libre" /\ cible = Rien /\ vise = 0 /\ suite = "rien" /\ passe = 0
    /\ touche = {} /\ du = [c \in {"autre", "a", "b"} |-> -1] /\ doute = TRUE

-----------------------------------------------------------------------------
(* The device (environment).                                               *)

programme == <<jeu, connected, service, horloge, commande>>

\* The mode; another setting; the time, in manual mode; a field of an alarm.
BoutonMode ==
    /\ jeu \intersect {"time", "heure"} # {}
    /\ appareil' = [appareil EXCEPT !.reglages.time = 1 - @]
    /\ UNCHANGED <<decal, radio, programme, temoins>>

BoutonAutre ==
    /\ "autre" \in jeu
    /\ appareil' = [appareil EXCEPT !.reglages.autre = 1 - @]
    /\ touche' = touche \union {"autre"}
    /\ du' = [du EXCEPT !["autre"] = -1]
    /\ UNCHANGED <<decal, radio, programme, doute>>

BoutonHeure ==
    /\ appareil.reglages.time = 1
    /\ decal' = Ailleurs
    /\ touche' = touche \union {"heure"} /\ doute' = TRUE
    /\ UNCHANGED <<appareil, radio, programme, du>>

BoutonAlarme ==
    /\ "alarme" \in jeu
    /\ \E c \in {"a", "b"} :
          /\ appareil' = [appareil EXCEPT !.alarme[c] = 1 - @]
          /\ touche' = touche \union {c}
          /\ du' = [du EXCEPT ![c] = -1]
    /\ UNCHANGED <<decal, radio, programme, doute>>

Repond(val, bon) ==
    /\ inbox' = Tail(inbox)
    /\ wire' = Append(wire, [code |-> Reponse(Head(inbox).q), val |-> val,
                             de |-> Head(inbox).de, bon |-> bon])

\* The device treats its oldest request and answers.  In manual mode it answers
\* a time without taking it; a time given up is taken at an unknown moment.
AppareilRepond ==
    /\ inbox # <<>>
    /\ LET r == Head(inbox)
       IN  \/ /\ r.q = "lire" /\ Repond(appareil.reglages, TRUE)
              /\ UNCHANGED <<appareil, decal>>
           \/ /\ r.q = "al_lire" /\ Repond(appareil.alarme, TRUE)
              /\ UNCHANGED <<appareil, decal>>
           \/ /\ r.q = "ecrire" /\ Repond(Rien, TRUE)
              /\ appareil' = [appareil EXCEPT !.reglages = r.val]
              /\ UNCHANGED decal
           \/ /\ r.q = "al_ecrire" /\ Repond(Rien, TRUE)
              /\ appareil' = [appareil EXCEPT !.alarme = r.val]
              /\ UNCHANGED decal
           \/ /\ r.q = "heure" /\ Repond(Rien, appareil.reglages.time = 0)
              /\ decal' = IF appareil.reglages.time # 0 THEN decal
                          ELSE IF r.de = "sienne" /\ pc = "heure"
                          THEN vise - passe
                          ELSE Ailleurs
              /\ UNCHANGED appareil
    /\ UNCHANGED <<programme, temoins>>

AppareilIgnore ==
    /\ inbox # <<>>
    /\ inbox' = Tail(inbox)
    /\ UNCHANGED <<appareil, decal, wire, programme, temoins>>

-----------------------------------------------------------------------------
(* Exchanges.                                                              *)

\* What has arrived is read and dropped, the request is sent.
Envoyer(q, val) ==
    /\ connected /\ Len(inbox) < FileMax
    /\ inbox' = Append(Tardives(inbox), [q |-> q, val |-> val, de |-> "sienne"])
    /\ wire' = <<>>
    /\ pc' = q
    /\ touche' = {}

\* The answer awaited, or one of its kind.
Recoit(q) ==
    /\ pc = q /\ wire # <<>> /\ Head(wire).code = Reponse(q)

Sienne == Head(wire).de = "sienne"

Ecarter ==
    /\ pc # "libre" /\ wire # <<>> /\ Head(wire).code # Reponse(pc)
    /\ wire' = Tail(wire)
    /\ UNCHANGED <<jeu, appareil, decal, inbox, connected, service, horloge, commande, temoins>>

\* An exchange fails: the command ends; entretenir_horloge waits ten minutes.
Echoue(horlogeAussi) ==
    /\ pc' = "libre"
    /\ patience' = (patience \/ horlogeAussi)
    /\ suite' = "rien" /\ cible' = Rien /\ vise' = 0 /\ passe' = 0
    /\ UNCHANGED <<clock_set, clock_offset, echu>>

\* The clients are told of no more than that: a late answer may still come.
Expirer ==
    /\ pc # "libre"
    /\ Echoue(suite = "entretien")
    /\ inbox' = Tardives(inbox) /\ wire' = Tardives(wire)
    /\ UNCHANGED <<jeu, appareil, decal, connected, service, temoins>>

\* The clock was never set, or not for a day, and may be.
HorlogeDue == known /\ state.time = 0 /\ ~patience /\ (clock_set => echu)

\* The exchange in progress, or the attempt of the same turn, fails with the link.
PerdreLiaison ==
    /\ connected
    /\ connected' = FALSE
    /\ Echoue(suite = "entretien") \/ (pc = "libre" /\ HorlogeDue /\ Echoue(TRUE))
    /\ inbox' = <<>> /\ wire' = <<>>
    /\ UNCHANGED <<jeu, appareil, decal, service, temoins>>

Fini == pc' = "libre" /\ suite' = "rien" /\ cible' = Rien /\ vise' = 0 /\ passe' = 0

\* A second passes between the computation of the time and its answer (only where
\* the clients give times: with the other commands, exchanges are short).
Seconde ==
    /\ pc = "heure" \/ (pc = "ecrire" /\ suite = "heure")
    /\ "heure" \in jeu /\ passe < Delai
    /\ passe' = passe + 1
    /\ UNCHANGED <<jeu, appareil, decal, radio, connected, service, horloge,
                   pc, cible, vise, suite, temoins>>

-----------------------------------------------------------------------------
(* Readings.                                                               *)

\* The periodic refresh, or the command Settings (lire_reglages).
Lire ==
    /\ pc = "libre"
    /\ Envoyer("lire", Rien)
    /\ UNCHANGED <<jeu, appareil, decal, connected, service, horloge,
                   cible, vise, suite, passe, du, doute>>

Reconnecter ==
    /\ ~connected
    /\ connected' = TRUE
    /\ inbox' = <<[q |-> "lire", val |-> Rien, de |-> "sienne"]>>
    /\ wire' = <<>> /\ pc' = "lire" /\ touche' = {}
    /\ UNCHANGED <<jeu, appareil, decal, service, horloge, cible, vise, suite, passe, du, doute>>

StateUpdate(reglages) == state' = reglages /\ known' = TRUE

DemanderParametres ==
    /\ Recoit("lire")
    /\ StateUpdate(Head(wire).val)
    /\ wire' = Tail(wire)
    /\ Fini
    /\ UNCHANGED <<jeu, appareil, decal, inbox, connected, horloge, temoins>>

-----------------------------------------------------------------------------
(* The time.                                                               *)

\* The offset of a time computed `passe' seconds ago; one second is rounding.
Ecart(n) == IF n \in -1..1 THEN 0 ELSE n

\* Each synchronisation may lose some seconds, and the next one starts from the
\* offset left, so offsets have no lower bound.  Below -DeriveMax they are counted
\* from there, the device's and the one held, since only their difference matters
\* then; a device too far from what is held has a time like any other.
Retenir(n) ==
    /\ clock_offset' = IF n < -DeriveMax THEN -DeriveMax ELSE n
    /\ decal' = IF decal = Ailleurs \/ n >= -DeriveMax THEN decal
                ELSE IF decal - n > Delai + 1 THEN Ailleurs
                ELSE decal - n - DeriveMax

\* Mutant: the offset kept from the first synchronisation on.
NoterHeureUneFois ==
    /\ clock_set' = TRUE
    /\ Retenir(IF clock_set THEN clock_offset ELSE Ecart(vise - passe))
    /\ echu' = FALSE

NoterHeure ==
    /\ clock_set' = TRUE
    /\ Retenir(Ecart(vise - passe))
    /\ echu' = FALSE

\* The offset sent is `vise' until the answer; that of a time given up is nothing
\* to the device any more (Ailleurs).
EnvoiHeure == Envoyer("heure", Rien) /\ doute' = TRUE

\* Settings/Sync time and Settings/Set time: manual mode is left first.
EnvoyerHeure ==
    /\ "heure" \in jeu /\ pc = "libre" /\ known
    /\ \E e \in Ecarts :
          /\ vise' = e /\ passe' = 0 /\ suite' = "heure"
          /\ IF state.time # 0
             THEN /\ cible' = [state EXCEPT !.time = 0]
                  /\ Envoyer("ecrire", cible')
                  /\ UNCHANGED doute
             ELSE EnvoiHeure /\ cible' = Rien
    /\ UNCHANGED <<jeu, appareil, decal, connected, service, horloge, du>>

\* Mutant: never again after the first synchronisation.
EntretenirUneFois ==
    /\ pc = "libre" /\ HorlogeDue /\ ~clock_set
    /\ vise' = 0
    /\ EnvoiHeure
    /\ suite' = "entretien" /\ passe' = 0
    /\ UNCHANGED <<jeu, appareil, decal, connected, service, horloge, cible, du>>

EntretenirHorloge ==
    /\ pc = "libre" /\ HorlogeDue
    /\ vise' = IF clock_set THEN clock_offset ELSE 0
    /\ EnvoiHeure
    /\ suite' = "entretien" /\ passe' = 0
    /\ UNCHANGED <<jeu, appareil, decal, connected, service, horloge, cible, du>>

HeureRecue ==
    /\ Recoit("heure")
    /\ NoterHeure
    /\ doute' = ~(Sienne /\ Head(wire).bon /\ "heure" \notin touche)
    /\ wire' = Tail(wire)
    /\ Fini
    /\ UNCHANGED <<jeu, appareil, inbox, connected, service, patience, touche, du>>

\* The two delays are only looked at between two exchanges.
Jour ==
    /\ pc = "libre" /\ clock_set /\ ~echu
    /\ echu' = TRUE /\ patience' = FALSE
    /\ UNCHANGED <<jeu, appareil, decal, radio, connected, service, clock_set, clock_offset,
                   commande, temoins>>

DixMinutes ==
    /\ pc = "libre" /\ patience
    /\ patience' = FALSE
    /\ UNCHANGED <<jeu, appareil, decal, radio, connected, service, clock_set, clock_offset,
                   echu, commande, temoins>>

-----------------------------------------------------------------------------
(* The settings: all five are written, the others as they are remembered.  *)

EcrireReglage ==
    /\ pc = "libre" /\ known
    /\ \E c \in jeu \intersect {"autre", "time"}, v \in Bit :
          /\ cible' = [state EXCEPT ![c] = v]
          /\ Envoyer("ecrire", cible')
          /\ suite' = IF c = "autre" THEN "autre" ELSE IF v = 0 THEN "auto" ELSE "rien"
          /\ du' = IF c = "autre" THEN [du EXCEPT !["autre"] = -1] ELSE du
    /\ UNCHANGED <<jeu, appareil, decal, connected, service, horloge, vise, passe, doute>>

\* Mutant: the settings just written are not remembered.
ReglageEcritOublie ==
    /\ Recoit("ecrire")
    /\ du' = IF suite = "autre" /\ Sienne /\ "autre" \notin touche
             THEN [du EXCEPT !["autre"] = cible.autre] ELSE du
    /\ IF suite \in {"heure", "auto"}
       THEN /\ EnvoiHeure
            /\ passe' = IF suite = "auto" THEN 0 ELSE passe
            /\ UNCHANGED <<cible, vise, suite>>
       ELSE /\ Fini /\ wire' = Tail(wire)
            /\ UNCHANGED <<inbox, touche, doute>>
    /\ UNCHANGED <<jeu, appareil, decal, connected, service, horloge>>

\* The write is acknowledged; a command that gives the time goes on with it.
ReglageEcrit ==
    /\ Recoit("ecrire")
    /\ StateUpdate(cible)
    /\ du' = IF suite = "autre" /\ Sienne /\ "autre" \notin touche
             THEN [du EXCEPT !["autre"] = cible.autre] ELSE du
    /\ IF suite \in {"heure", "auto"}
       THEN /\ EnvoiHeure
            /\ passe' = IF suite = "auto" THEN 0 ELSE passe
            /\ UNCHANGED <<cible, vise, suite>>
       ELSE /\ Fini /\ wire' = Tail(wire)
            /\ UNCHANGED <<inbox, touche, doute>>
    /\ UNCHANGED <<jeu, appareil, decal, connected, horloge>>

-----------------------------------------------------------------------------
(* An alarm: read, changed, written back (ecrire_alarme).                  *)

EcrireAlarme ==
    /\ "alarme" \in jeu /\ pc = "libre"
    /\ \E c \in {"a", "b"}, v \in Bit :
          /\ suite' = c /\ vise' = v
          /\ du' = [du EXCEPT ![c] = -1]
    /\ Envoyer("al_lire", Rien)
    /\ UNCHANGED <<jeu, appareil, decal, connected, service, horloge, cible, passe, doute>>

\* Mutant: min_data is not asked for.
AssezLongueJamais(t) == TRUE

AssezLongue(t) == t.val # Rien

AlarmeLue ==
    /\ Recoit("al_lire")
    /\ IF AssezLongue(Head(wire))
       THEN /\ cible' = [Head(wire).val EXCEPT ![suite] = vise]
            /\ Envoyer("al_ecrire", cible')
            /\ UNCHANGED <<suite, vise, passe>>
       ELSE Fini /\ wire' = Tail(wire) /\ UNCHANGED <<inbox, touche>>
    /\ UNCHANGED <<jeu, appareil, decal, connected, service, horloge, du, doute>>

AlarmeEcrite ==
    /\ Recoit("al_ecrire")
    /\ du' = IF Sienne /\ suite \notin touche THEN [du EXCEPT ![suite] = vise] ELSE du
    /\ wire' = Tail(wire)
    /\ Fini
    /\ UNCHANGED <<jeu, appareil, decal, inbox, connected, service, horloge, touche, doute>>

-----------------------------------------------------------------------------
Boutons == BoutonMode \/ BoutonAutre \/ BoutonHeure \/ BoutonAlarme
Clients == EnvoyerHeure \/ EcrireReglage \/ EcrireAlarme

Next ==
    \/ Boutons \/ AppareilRepond \/ AppareilIgnore
    \/ Ecarter \/ Expirer \/ PerdreLiaison \/ Reconnecter
    \/ Seconde \/ Jour \/ DixMinutes
    \/ Lire \/ DemanderParametres \/ Clients
    \/ EntretenirHorloge \/ HeureRecue \/ ReglageEcrit \/ AlarmeLue \/ AlarmeEcrite

Spec == Init /\ [][Next]_vars

\* An answer of the exchange in progress is still to come.
EnChemin ==
    \/ \E i \in DOMAIN inbox : inbox[i].de = "sienne"
    \/ \E i \in DOMAIN wire : wire[i].de = "sienne"

\* The steps that end an exchange, or open the link again.
Echange ==
    \/ AppareilRepond \/ Reconnecter \/ Ecarter \/ (~EnChemin /\ Expirer)
    \/ DemanderParametres \/ HeureRecue \/ ReglageEcrit \/ AlarmeLue \/ AlarmeEcrite

\* An exchange ends, by an answer or at its deadline; the loop of the service
\* comes back to its periodic tasks, whatever the clients ask; time passes.
Fairness ==
    /\ WF_vars(Echange)
    /\ SF_vars(Lire) /\ SF_vars(EntretenirHorloge)
    /\ SF_vars(Jour \/ DixMinutes)

FairSpec == Spec /\ Fairness

-----------------------------------------------------------------------------
(* Properties.                                                             *)

\* horloge_aml: the service says what time it is on the device.
Connue == clock_set /\ known /\ state.time = 0

\* The time given is the device's, but for the time of an exchange and the
\* second of the rounding.
Juste == decal # Ailleurs /\ clock_offset - decal \in (-Delai - 1)..1

\* The variables have their types.
TypeOK ==
    /\ jeu \in Jeux
    /\ appareil \in [reglages : Reglages, alarme : Alarme]
    /\ decal \in Int \union {Ailleurs} /\ connected \in BOOLEAN
    /\ state \in Reglages /\ known \in BOOLEAN
    /\ clock_set \in BOOLEAN /\ clock_offset \in Int
    /\ echu \in BOOLEAN /\ patience \in BOOLEAN
    /\ pc \in {"libre", "lire", "ecrire", "heure", "al_lire", "al_ecrire"}
    /\ cible \in Reglages \union Alarme \union {Rien}
    /\ vise \in Int /\ passe \in 0..Delai
    /\ suite \in {"rien", "autre", "auto", "heure", "entretien", "a", "b"}
    /\ touche \subseteq {"autre", "heure", "a", "b"}
    /\ du \in [{"autre", "a", "b"} -> -1..1] /\ doute \in BOOLEAN
    /\ Len(inbox) <= FileMax
    /\ connected \/ (pc = "libre" /\ inbox = <<>> /\ wire = <<>>)
    /\ clock_set => known

\* The time reported as known is the device's, unless the device was given a
\* time without its own answer, or the buttons changed it since the last answer.
ClockKnownIsTrue == Connue /\ ~doute => Juste

\* A change acknowledged to a client by its own answer stays until a client or
\* a button changes the same thing: no other command, no reading, no switch to
\* auto before a time, no request given up that is treated later undoes it.
AckedStays ==
    /\ du["autre"] \in {-1, appareil.reglages.autre}
    /\ \A c \in {"a", "b"} : du[c] \in {-1, appareil.alarme[c]}

\* Nothing but the program's own periodic tasks, with answers in time.
Calme ==
    /\ ~Boutons /\ ~Clients /\ ~PerdreLiaison /\ ~AppareilIgnore
    /\ ~(EnChemin /\ Expirer)

\* A device left alone in auto mode ends up with its time known, and true
\* whenever the service can be asked for it, whatever happened before, also when
\* its buttons had changed it.  While the service waits for the answer to a time
\* (nobody can ask then), the device may have taken it and lost some seconds
\* that the offset held does not count yet.
ClockConverges ==
    <>[](appareil.reglages.time = 0) /\ <>[][Calme]_vars
        => <>[](Connue /\ (pc # "heure" => Juste))
=============================================================================
