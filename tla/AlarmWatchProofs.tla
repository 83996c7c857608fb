-------------------------- MODULE AlarmWatchProofs --------------------------
(***************************************************************************)
(* Safety of AlarmWatch for any number of alarms, any durations and any    *)
(* size of the queue.  The invariants are not inductive one by one: that a *)
(* snooze is presumed of an alarm that rings, and that the status is read  *)
(* only while watching, has to be carried along (IInv).                    *)
(*                                                                         *)
(* For a stop, what the device and the frames on their way say once it has *)
(* been done has to be carried along too (StopInv).                        *)
(*                                                                         *)
(* Each lemma splits Next on the actions that can disturb its conjunct;    *)
(* the others leave its variables alone and are treated together.          *)
(***************************************************************************)
EXTENDS AlarmWatch, SequenceTheorems, TLAPS

\* suivre_reveil reads, and loops over the alarms, only while surveiller is set.
WatchedWhileReading == pc \in {"status", "alarmes", "presumer"} => surveiller

\* presumer_snooze waits for the settings of an alarm that is shown as ringing.
PresumesOfRinging == pc = "presumer" => numero \in Alarmes /\ etat[numero] = "ringing"

IInv ==
    /\ TypeOK
    /\ WatchCovers
    /\ RungIsTracked
    /\ ClientsUpToDate
    /\ WatchedWhileReading
    /\ PresumesOfRinging

USE ConstantsAssumption
USE DEF appareil, radio, liaison, notes, suivi, veille, sortie, boucle

-----------------------------------------------------------------------------
(* Types *)

\* Receiving a frame: what is taken from the wire and what is left are typed.
LEMMA WireHead ==
    ASSUME RadioType, wire # <<>>
    PROVE  /\ Head(wire) \in Trames
           /\ Tail(wire) \in Seq(Trames)
           /\ Head(wire).a \in Numeros /\ Head(wire).b \in Numeros
<1>1. Head(wire) \in Trames /\ Tail(wire) \in Seq(Trames)
  BY HeadTailProperties DEF RadioType
<1>. QED
  BY <1>1 DEF Trames

\* However an exchange ends, the radio keeps its type.
LEMMA ExchangeType ==
    ASSUME RadioType, NEW p, Repondu(p) \/ Perdre \/ Expirer \/ Echoue(p)
    PROVE  /\ inbox' \in Seq(Reponses) /\ wire' \in Seq(Trames)
           /\ connected' \in BOOLEAN /\ nouvelle' \in BOOLEAN /\ envoyee' \in BOOLEAN
<1>1. CASE Repondu(p)
  BY <1>1, WireHead DEF Repondu, RadioType
<1>2. CASE Perdre
  BY <1>2, EmptySeq DEF Perdre, RadioType
<1>3. CASE Expirer
  BY <1>3 DEF Expirer, RadioType
<1>4. CASE Echoue(p)
  <2>1. CASE ~connected /\ UNCHANGED <<radio, liaison, envoyee>>
    BY <2>1 DEF RadioType
  <2>. QED
    BY <1>2, <1>3, <1>4, <2>1 DEF Echoue
<1>. QED
  BY <1>1, <1>2, <1>3, <1>4

\* Every action keeps the types of the device, of the radio and of the link.
LEMMA RadioStep ==
    ASSUME RadioType, LoopType, Next
    PROVE  RadioType'
<1>. USE DEF RadioType, Numeros, Alarmes
<1>1. ASSUME NEW n \in Alarmes, AppareilLever(n) \/ AppareilSonne(n)
      PROVE  RadioType'
  <2>1. Trame("C6", n, 0) \in Trames /\ Trame("C7", n, 0) \in Trames
    BY DEF Trame, Trames, Codes, EvtFile, EvtReveil
  <2>2. wire' \in Seq(Trames)
    <3>1. CASE AppareilLever(n)
      BY <2>1, <3>1, AppendProperties DEF AppareilLever, Emettre
    <3>2. CASE AppareilSonne(n)
      BY <2>1, <3>2, AppendProperties DEF AppareilSonne, Emettre
    <3>. QED  BY <1>1, <3>1, <3>2
  <2>. QED
    BY <1>1, <2>2 DEF AppareilLever, AppareilSonne, service
<1>2. CASE AppareilSeTait
  BY <1>2 DEF AppareilSeTait, ApresTape, service
<1>3. CASE AppareilParle
  <2>1. PICK c \in Autres : Emettre(Trame(c, 0, 0))
    BY <1>3 DEF AppareilParle
  <2>2. Trame(c, 0, 0) \in Trames
    BY DEF Trame, Trames, Codes, EvtFile, EvtReveil
  <2>3. wire' \in Seq(Trames)
    BY <2>1, <2>2, AppendProperties DEF Emettre
  <2>. QED
    BY <1>3, <2>3 DEF AppareilParle, service
<1>4. CASE AppareilRepond
  <2>1. Head(inbox) \in Reponses /\ Tail(inbox) \in Seq(Reponses)
    BY <1>4, HeadTailProperties DEF AppareilRepond
  <2>2. Trame("C5", lever, sonne) \in Trames /\ Trame(Head(inbox), 0, 0) \in Trames
    BY <2>1 DEF Trame, Trames, Codes, Reponses
  <2>3. wire' \in Seq(Trames) /\ inbox' \in Seq(Reponses)
    BY <1>4, <2>1, <2>2, AppendProperties DEF AppareilRepond
  <2>4. lever' \in Numeros /\ sonne' \in Numeros
    BY <1>4 DEF AppareilRepond, ApresTape
  <2>. QED
    BY <1>4, <2>3, <2>4 DEF AppareilRepond, service
<1>5. CASE Ecouter
  BY <1>5, WireHead DEF Ecouter
<1>6. CASE Envoyer
  <2>1. Attendue[pc] \in Reponses
    BY <1>6 DEF Envoyer, Attendue, Echanges, Reponses
  <2>. QED
    BY <1>6, <2>1, AppendProperties DEF Envoyer
<1>7. CASE TickPerdu
  BY <1>7, ExchangeType DEF TickPerdu
<1>8. CASE RelireLumiere \/ RelireAmbiance \/ RelireEchoue
  BY <1>8, ExchangeType DEF RelireLumiere, RelireAmbiance, RelireEchoue
<1>9. CASE SuivreLit \/ SuivreEchoue
  BY <1>9, ExchangeType DEF SuivreLit, SuivreEchoue
<1>10. CASE PresumerLit \/ PresumerEchoue
  BY <1>10, ExchangeType DEF PresumerLit, PresumerEchoue, Presumer
<1>11. CASE StopReussi \/ AgirSansStop
  BY <1>11, ExchangeType DEF StopReussi, AgirSansStop
<1>12. CASE Reconnecter \/ HandlersTick
  BY <1>12 DEF Reconnecter, HandlersTick
<1>13. CASE Seconde \/ Minute \/ Tick \/ AgirSurAlarme \/ Suivre
  BY <1>13 DEF Seconde, Minute, Tick, AgirSurAlarme, Suivre
<1>14. CASE TraiterUn \/ FinTraiter
  BY <1>14 DEF TraiterUn, FinTraiter
<1>15. CASE SuivreUne \/ SuivreCesse \/ FinSuivre
  BY <1>15 DEF SuivreUne, SuivreCesse, FinSuivre, dansBoucle
<1>. QED
  BY <1>1, <1>2, <1>3, <1>4, <1>5, <1>6, <1>7, <1>8, <1>9, <1>10, <1>11, <1>12,
     <1>13, <1>14, <1>15 DEF Next, Appareil, Traitement, Suivi

\* handlers_on_event drops what exceeds QueueSize, so the queue keeps its bound.
LEMMA QueueStep ==
    ASSUME RadioType, QueueType, Next
    PROVE  QueueType'
<1>. USE DEF QueueType
<1>1. CASE Ecouter
  <2>1. Head(wire) \in Trames
    BY <1>1, WireHead DEF Ecouter
  <2>2. file' \in Seq(Trames) /\ Len(file') <= QueueSize
    BY <1>1, <2>1, AppendProperties, LenProperties DEF Ecouter, Noter
  <2>3. eclairage_change' \in BOOLEAN
    BY <1>1 DEF Ecouter, Noter
  <2>. QED
    BY <2>2, <2>3
<1>2. CASE TraiterUn
  <2>1. Tail(file) \in Seq(Trames) /\ Len(Tail(file)) <= QueueSize
    BY <1>2, HeadTailProperties, LenProperties DEF TraiterUn
  <2>2. eclairage_change' \in BOOLEAN
    BY <1>2 DEF TraiterUn
  <2>. QED
    BY <1>2, <2>1, <2>2 DEF TraiterUn
<1>3. CASE FinTraiter
  BY <1>3 DEF FinTraiter
<1>4. CASE Appareil \/ AppareilRepond
  BY <1>4 DEF Appareil, AppareilLever, AppareilSonne, AppareilSeTait,
              AppareilParle, AppareilRepond, service
<1>5. CASE Seconde \/ Minute \/ Envoyer \/ Tick \/ Reconnecter \/ TickPerdu \/ HandlersTick
  BY <1>5 DEF Seconde, Minute, Envoyer, Tick, Reconnecter, TickPerdu, HandlersTick
<1>6. CASE RelireLumiere \/ RelireAmbiance \/ RelireEchoue
  BY <1>6 DEF RelireLumiere, RelireAmbiance, RelireEchoue
<1>7. CASE Suivi
  BY <1>7 DEF Suivi, Suivre, SuivreLit, SuivreEchoue, SuivreUne, SuivreCesse,
              PresumerLit, PresumerEchoue, Presumer, FinSuivre, dansBoucle
<1>8. CASE AgirSurAlarme \/ StopReussi \/ AgirSansStop
  BY <1>8 DEF AgirSurAlarme, StopReussi, AgirSansStop
<1>. QED
  BY <1>1, <1>2, <1>3, <1>4, <1>5, <1>6, <1>7, <1>8 DEF Next, Traitement

\* Every action keeps the type of the loop's variables; presumer_snooze leaves numero in range.
LEMMA LoopStep ==
    ASSUME RadioType, LoopType, PresumesOfRinging, Next
    PROVE  LoopType'
<1>. USE DEF LoopType
<1>1. CASE Appareil
  BY <1>1 DEF Appareil, AppareilLever, AppareilSonne, AppareilSeTait,
              AppareilParle, service
<1>2. CASE AppareilRepond \/ Ecouter \/ Envoyer
  BY <1>2 DEF AppareilRepond, service, Ecouter, Envoyer
<1>3. CASE Seconde \/ Minute
  BY <1>3 DEF Seconde, Minute
<1>4. CASE Tick \/ Reconnecter \/ TickPerdu
  BY <1>4 DEF Tick, Reconnecter, TickPerdu, Pcs
<1>5. CASE HandlersTick
  <2>1. surveiller' \in BOOLEAN /\ a_relire' \in BOOLEAN
    BY <1>5 DEF HandlersTick, RadioType
  <2>. QED
    BY <1>5, <2>1 DEF HandlersTick, Pcs
<1>6. CASE TraiterUn
  BY <1>6 DEF TraiterUn
<1>7. CASE FinTraiter \/ RelireLumiere \/ RelireAmbiance \/ RelireEchoue
  BY <1>7 DEF FinTraiter, RelireLumiere, RelireAmbiance, RelireEchoue, Pcs, Echanges
<1>8. CASE Suivre \/ SuivreEchoue
  BY <1>8 DEF Suivre, SuivreEchoue, Pcs, Echanges
<1>9. CASE SuivreLit
  <2>1. lu' \in Numeros \X Numeros
    BY <1>9, WireHead DEF SuivreLit, Repondu
  <2>. QED
    BY <1>9, <2>1 DEF SuivreLit, Pcs
<1>10. CASE SuivreUne \/ SuivreCesse
  <2>1. numero' \in 1..(NbAlarmes + 1) /\ pc' \in Pcs
    BY <1>10 DEF SuivreUne, SuivreCesse, Pcs, Echanges
  <2>. QED
    BY <1>10, <2>1 DEF SuivreUne, SuivreCesse, dansBoucle
<1>11. ASSUME NEW d, Presumer(d), pc = "presumer"
       PROVE  LoopType'
  BY <1>11 DEF Presumer, PresumesOfRinging, Alarmes, Pcs
<1>12. CASE PresumerLit \/ PresumerEchoue
  BY <1>11, <1>12 DEF PresumerLit, PresumerEchoue, Repondu, Echoue
<1>13. CASE FinSuivre
  <2>1. surveiller' \in BOOLEAN /\ arret_demande' \in BOOLEAN
    BY <1>13 DEF FinSuivre
  <2>2. lu' \in Numeros \X Numeros /\ numero' \in 1..(NbAlarmes + 1)
    BY <1>13 DEF FinSuivre, Numeros
  <2>. QED
    BY <1>13, <2>1, <2>2 DEF FinSuivre, Pcs
<1>14. CASE AgirSurAlarme \/ StopReussi \/ AgirSansStop
  <2>1. surveiller' \in BOOLEAN /\ a_relire' \in BOOLEAN /\ arret_demande' \in BOOLEAN
    BY <1>14 DEF AgirSurAlarme, StopReussi, AgirSansStop, SurveillerBientot
  <2>2. pc' \in Pcs /\ arret' \in {"none", "queued", "clear"}
    BY <1>14 DEF AgirSurAlarme, StopReussi, AgirSansStop, Pcs, Echanges
  <2>. QED
    BY <1>14, <2>1, <2>2 DEF AgirSurAlarme, StopReussi, AgirSansStop
<1>. QED
  BY <1>1, <1>2, <1>3, <1>4, <1>5, <1>6, <1>7, <1>8, <1>9, <1>10, <1>12, <1>13,
     <1>14 DEF Next, Traitement, Suivi

\* changer_alarme
LEMMA ChangerType ==
    ASSUME SuiviType, NEW n \in Alarmes, NEW e \in Etats, Changer(n, e)
    PROVE  /\ etat' \in [Alarmes -> Etats]
           /\ reveil_change' \in BOOLEAN
           /\ etat' = [etat EXCEPT ![n] = e]
           /\ reveil_change' = FALSE => etat' = etat /\ reveil_change = FALSE
           /\ etat[n] = e \/ reveil_change' = TRUE
BY DEF Changer, SuiviType

\* Every action keeps the type of evenements.alarmes and of what is sent to the clients.
LEMMA SuiviStep ==
    ASSUME TypeOK, PresumesOfRinging, Next
    PROVE  SuiviType'
<1>. USE DEF SuiviType
<1>. SuiviType /\ 0 \in 0..(DureeMax + Marge)
  BY DEF TypeOK
<1>1. CASE TraiterUn
  <2>. DEFINE e == Head(file)
  <2>1. CASE e.code \in EvtReveil /\ e.a \in Alarmes
    <3>1. NoteAlarme(e) /\ diffuse' = diffuse
      BY <1>1, <2>1 DEF TraiterUn
    <3>2. PICK s \in Etats : Changer(e.a, s)
      BY <2>1, <3>1 DEF NoteAlarme, Etats
    <3>3. etat' \in [Alarmes -> Etats] /\ reveil_change' \in BOOLEAN
      BY <2>1, <3>2, ChangerType
    <3>4. a_sonne' \in [Alarmes -> BOOLEAN]
      BY <2>1, <3>1 DEF NoteAlarme
    <3>5. fin_snooze' \in [Alarmes -> 0..(DureeMax + Marge)]
      <4>1. fin_snooze' \in {fin_snooze, [fin_snooze EXCEPT ![e.a] = 0]}
        BY <2>1, <3>1 DEF NoteAlarme
      <4>. QED
        BY <2>1, <4>1
    <3>. QED
      BY <3>1, <3>3, <3>4, <3>5
  <2>2. CASE ~(e.code \in EvtReveil /\ e.a \in Alarmes)
    BY <1>1, <2>2 DEF TraiterUn, NoteAlarme
  <2>. QED
    BY <2>1, <2>2
<1>2. CASE FinTraiter \/ FinSuivre
  BY <1>2 DEF FinTraiter, FinSuivre, Diffuser
<1>3. CASE SuivreUne
  <2>1. numero \in Alarmes
    BY <1>3 DEF SuivreUne, TypeOK, LoopType, Alarmes
  <2>2. PICK s \in Etats : Changer(numero, s) \/ UNCHANGED <<suivi, reveil_change>>
    BY <1>3 DEF SuivreUne, Etats
  <2>3. etat' \in [Alarmes -> Etats] /\ reveil_change' \in BOOLEAN
    BY <2>1, <2>2, ChangerType
  <2>4. a_sonne' \in [Alarmes -> BOOLEAN]
    BY <1>3, <2>1 DEF SuivreUne
  <2>5. fin_snooze' \in [Alarmes -> 0..(DureeMax + Marge)]
    <3>1. fin_snooze' \in {fin_snooze, [fin_snooze EXCEPT ![numero] = 0]}
      BY <1>3 DEF SuivreUne
    <3>. QED
      BY <2>1, <3>1
  <2>. QED
    BY <1>3, <2>3, <2>4, <2>5 DEF SuivreUne, dansBoucle
<1>4. ASSUME NEW d \in Durees \union {DureeMax}, Presumer(d), pc = "presumer"
      PROVE  SuiviType'
  <2>1. numero \in Alarmes
    BY <1>4 DEF PresumesOfRinging
  <2>2. etat' \in [Alarmes -> Etats] /\ reveil_change' \in BOOLEAN
    BY <1>4, <2>1, ChangerType DEF Presumer, Etats
  <2>3. d + Marge \in 0..(DureeMax + Marge)
    OBVIOUS
  <2>4. fin_snooze' \in [Alarmes -> 0..(DureeMax + Marge)]
    BY <1>4, <2>1, <2>3 DEF Presumer
  <2>. QED
    BY <1>4, <2>2, <2>4 DEF Presumer
<1>5. CASE PresumerLit \/ PresumerEchoue
  BY <1>4, <1>5 DEF PresumerLit, PresumerEchoue, Repondu, Echoue
<1>6. CASE Minute
  BY <1>6 DEF Minute
<1>7. CASE Appareil \/ AppareilRepond
  BY <1>7 DEF Appareil, AppareilLever, AppareilSonne, AppareilSeTait,
              AppareilParle, AppareilRepond, service
<1>8. CASE Seconde \/ Ecouter \/ Envoyer \/ Tick \/ Reconnecter \/ TickPerdu \/ HandlersTick
  BY <1>8 DEF Seconde, Ecouter, Envoyer, Tick, Reconnecter, TickPerdu, HandlersTick
<1>9. CASE RelireLumiere \/ RelireAmbiance \/ RelireEchoue
  BY <1>9 DEF RelireLumiere, RelireAmbiance, RelireEchoue
<1>10. CASE Suivre \/ SuivreLit \/ SuivreEchoue \/ SuivreCesse
  BY <1>10 DEF Suivre, SuivreLit, SuivreEchoue, SuivreCesse, dansBoucle
<1>11. CASE AgirSurAlarme \/ StopReussi \/ AgirSansStop
  BY <1>11 DEF AgirSurAlarme, StopReussi, AgirSansStop
<1>. QED
  BY <1>1, <1>2, <1>3, <1>5, <1>6, <1>7, <1>8, <1>9, <1>10, <1>11
     DEF Next, Traitement, Suivi

-----------------------------------------------------------------------------
(* The invariants *)

\* Steps that change nothing of what the clients are told, and keep or set surveiller.
Quiet ==
    /\ UNCHANGED <<etat, a_sonne, diffuse, reveil_change>>
    /\ surveiller => surveiller'

\* Every action but seven is quiet.
LEMMA QuietSteps ==
    ASSUME TypeOK, Next
    PROVE  \/ Quiet /\ UNCHANGED fin_snooze
           \/ Minute \/ TraiterUn \/ FinTraiter \/ SuivreUne \/ FinSuivre
           \/ PresumerLit \/ PresumerEchoue
<1>1. CASE Appareil \/ AppareilRepond
  BY <1>1 DEF Appareil, AppareilLever, AppareilSonne, AppareilSeTait,
              AppareilParle, AppareilRepond, service, Quiet
<1>2. CASE Seconde \/ Ecouter \/ Envoyer \/ Tick \/ Reconnecter \/ TickPerdu \/ HandlersTick
  BY <1>2 DEF Seconde, Ecouter, Envoyer, Tick, Reconnecter, TickPerdu, HandlersTick, Quiet
<1>3. CASE RelireLumiere \/ RelireAmbiance \/ RelireEchoue
  BY <1>3 DEF RelireLumiere, RelireAmbiance, RelireEchoue, Quiet
<1>4. CASE Suivre \/ SuivreLit \/ SuivreEchoue \/ SuivreCesse
  BY <1>4 DEF Suivre, SuivreLit, SuivreEchoue, SuivreCesse, dansBoucle, Quiet
<1>5. CASE AgirSurAlarme \/ StopReussi \/ AgirSansStop
  BY <1>5 DEF AgirSurAlarme, StopReussi, AgirSansStop, SurveillerBientot, Quiet
<1>. QED
  BY <1>1, <1>2, <1>3, <1>4, <1>5 DEF Next, Traitement, Suivi

\* What the loop of suivre_reveil, presumer_snooze and traiter_evenements do to one alarm n
\* and to no other: the relation of its state with a_sonne and fin_snooze is kept.
RungOf(n) ==
    /\ a_sonne[n] <=> etat[n] \in {"ringing", "snoozed"}
    /\ etat[n] = "ringing" => fin_snooze[n] = 0

\* RungIsTracked needs to be shown again only for the alarm a step has touched.
LEMMA OneAlarm ==
    ASSUME SuiviType, SuiviType', RungIsTracked, NEW n \in Alarmes, RungOf(n)',
           \A k \in Alarmes \ {n} : /\ etat'[k] = etat[k] /\ a_sonne'[k] = a_sonne[k]
                                    /\ fin_snooze'[k] = fin_snooze[k]
    PROVE  RungIsTracked'
BY DEF RungIsTracked, RungOf

\* traiter_evenements: a C7 sets a_sonne and clears the deadline, a C6 clears a_sonne.
LEMMA TraiterUnTracks ==
    ASSUME TypeOK, TypeOK', RungIsTracked, TraiterUn
    PROVE  RungIsTracked'
<1>. DEFINE e == Head(file)
<1>. SuiviType /\ SuiviType'
  BY DEF TypeOK
<1>1. CASE e.code \in EvtReveil /\ e.a \in Alarmes
  <2>1. PICK n \in Alarmes : n = e.a
    BY <1>1
  <2>2. /\ a_sonne' = [a_sonne EXCEPT ![n] = (e.code = "C7")]
        /\ fin_snooze' = IF e.code = "C7" THEN [fin_snooze EXCEPT ![n] = 0]
                                          ELSE fin_snooze
        /\ etat' = [etat EXCEPT ![n] = IF e.code = "C7" THEN "ringing" ELSE "sunrise"]
    BY <1>1, <2>1 DEF TraiterUn, NoteAlarme, Changer
  <2>3. RungOf(n)'
    BY <2>2 DEF SuiviType, RungOf
  <2>4. \A k \in Alarmes \ {n} : /\ etat'[k] = etat[k] /\ a_sonne'[k] = a_sonne[k]
                                 /\ fin_snooze'[k] = fin_snooze[k]
    BY <2>2 DEF SuiviType
  <2>. QED
    BY <2>3, <2>4, OneAlarm
<1>2. CASE ~(e.code \in EvtReveil /\ e.a \in Alarmes)
  <2>1. UNCHANGED <<suivi, reveil_change>>
    BY <1>2 DEF TraiterUn, NoteAlarme
  <2>. QED
    BY <2>1 DEF RungIsTracked
<1>. QED
  BY <1>1, <1>2

\* suivre_reveil, one alarm: each of its four outcomes keeps a_sonne in step with the state.
LEMMA SuivreUneTracks ==
    ASSUME TypeOK, TypeOK', RungIsTracked, SuivreUne
    PROVE  RungIsTracked'
<1>. SuiviType /\ SuiviType'
  BY DEF TypeOK
<1>1. PICK n \in Alarmes : n = numero
  BY DEF TypeOK, SuivreUne, LoopType, Alarmes
<1>2. RungOf(n)
  BY DEF RungIsTracked, RungOf
<1>3. RungOf(n)'
  <2>1. CASE a_sonne' = [a_sonne EXCEPT ![n] = TRUE] /\ etat'[n] = "ringing"
             /\ fin_snooze' = [fin_snooze EXCEPT ![n] = 0]
    BY <2>1 DEF SuiviType, RungOf
  <2>2. CASE /\ UNCHANGED <<a_sonne, fin_snooze>>
             /\ etat'[n] = IF a_sonne[n] THEN "snoozed" ELSE "sunrise"
    BY <2>2 DEF SuiviType, RungOf
  <2>3. CASE UNCHANGED suivi
    BY <1>2, <2>3 DEF RungOf
  <2>4. CASE a_sonne' = [a_sonne EXCEPT ![n] = FALSE] /\ etat'[n] = "idle"
    BY <2>4 DEF SuiviType, RungOf
  <2>. QED
    BY <1>1, <2>1, <2>2, <2>3, <2>4 DEF SuivreUne, Changer, SuiviType
<1>4. \A k \in Alarmes \ {n} : /\ etat'[k] = etat[k] /\ a_sonne'[k] = a_sonne[k]
                               /\ fin_snooze'[k] = fin_snooze[k]
  BY <1>1 DEF SuivreUne, Changer, SuiviType
<1>. QED
  BY <1>3, <1>4, OneAlarm

\* presumer_snooze: the alarm rang, so a_sonne is set already.
LEMMA PresumerTracks ==
    ASSUME TypeOK, TypeOK', RungIsTracked, PresumesOfRinging,
           PresumerLit \/ PresumerEchoue
    PROVE  RungIsTracked'
<1>1. PICK d : Presumer(d) /\ pc = "presumer"
  BY DEF PresumerLit, PresumerEchoue, Repondu, Echoue
<1>2. PICK n \in Alarmes : n = numero /\ etat[n] = "ringing"
  BY <1>1 DEF PresumesOfRinging
<1>. SuiviType /\ SuiviType'
  BY DEF TypeOK
<1>3. etat'[n] = "snoozed" /\ a_sonne'[n] = a_sonne[n]
  BY <1>1, <1>2 DEF Presumer, Changer, SuiviType
<1>4. RungOf(n)'
  BY <1>2, <1>3 DEF RungOf, RungIsTracked
<1>5. \A k \in Alarmes \ {n} : /\ etat'[k] = etat[k] /\ a_sonne'[k] = a_sonne[k]
                               /\ fin_snooze'[k] = fin_snooze[k]
  BY <1>1, <1>2 DEF Presumer, Changer, SuiviType
<1>. QED
  BY <1>4, <1>5, OneAlarm

\* A deadline only comes nearer with the minutes.
LEMMA MinuteTracks ==
    ASSUME TypeOK, RungIsTracked, Minute
    PROVE  RungIsTracked'
BY DEF Minute, RungIsTracked, TypeOK, SuiviType

\* Every action keeps a_sonne, the state and the deadline in agreement.
LEMMA RungStep ==
    ASSUME TypeOK, TypeOK', RungIsTracked, PresumesOfRinging, Next
    PROVE  RungIsTracked'
<1>1. CASE UNCHANGED <<etat, a_sonne, fin_snooze>>
  BY <1>1 DEF RungIsTracked
<1>2. CASE FinTraiter \/ FinSuivre
  BY <1>1, <1>2 DEF FinTraiter, FinSuivre
<1>. QED
  BY <1>1, <1>2, QuietSteps, MinuteTracks, TraiterUnTracks, SuivreUneTracks,
     PresumerTracks DEF Quiet

\* The loop of suivre_reveil is entered with surveiller set, and FinSuivre ends it.
LEMMA WatchStep ==
    ASSUME TypeOK, TypeOK', WatchCovers, WatchedWhileReading, Next
    PROVE  WatchCovers' /\ WatchedWhileReading'
<1>. USE DEF WatchCovers, WatchedWhileReading
<1>1. CASE UNCHANGED <<etat, arret_demande, surveiller, pc>>
  BY <1>1
<1>2. CASE Appareil \/ AppareilRepond \/ Ecouter \/ Envoyer
  BY <1>1, <1>2 DEF Appareil, AppareilLever, AppareilSonne, AppareilSeTait,
              AppareilParle, AppareilRepond, service, Ecouter, Envoyer
<1>3. CASE Seconde \/ Minute
  BY <1>1, <1>3 DEF Seconde, Minute
<1>4. CASE Tick \/ Reconnecter \/ TickPerdu \/ HandlersTick
  <2>1. UNCHANGED <<etat, arret_demande>> /\ pc' \in {"tick", "boucle", "traiter"}
    BY <1>4 DEF Tick, Reconnecter, TickPerdu, HandlersTick
  <2>2. surveiller => surveiller'
    BY <1>4 DEF Tick, Reconnecter, TickPerdu, HandlersTick
  <2>. QED
    BY <2>1, <2>2
<1>5. CASE TraiterUn
  BY <1>5 DEF TraiterUn
<1>6. CASE FinTraiter \/ RelireLumiere \/ RelireAmbiance \/ RelireEchoue
  BY <1>6 DEF FinTraiter, RelireLumiere, RelireAmbiance, RelireEchoue
<1>7. CASE Suivre \/ SuivreLit \/ SuivreEchoue \/ SuivreCesse
  BY <1>7 DEF Suivre, SuivreLit, SuivreEchoue, SuivreCesse, dansBoucle, Repondu, Echoue
<1>8. CASE SuivreUne
  BY <1>8 DEF SuivreUne, dansBoucle
<1>9. CASE PresumerLit \/ PresumerEchoue
  BY <1>9 DEF PresumerLit, PresumerEchoue, Presumer, Repondu, Echoue
<1>10. CASE FinSuivre
  <2>1. surveiller
    BY <1>10 DEF FinSuivre
  <2>. QED
    BY <1>10, <2>1 DEF FinSuivre
<1>11. CASE AgirSurAlarme
  BY <1>11 DEF AgirSurAlarme, TypeOK, LoopType, ConstantsAssumption
<1>12. CASE StopReussi \/ AgirSansStop
  BY <1>12 DEF StopReussi, AgirSansStop, SurveillerBientot
<1>. QED
  BY <1>2, <1>3, <1>4, <1>5, <1>6, <1>7, <1>8, <1>9, <1>10, <1>11, <1>12
     DEF Next, Traitement, Suivi

\* presumer_snooze is entered from RingCeased, and nothing disturbs it before its answer.
LEMMA PresumesStep ==
    ASSUME TypeOK, PresumesOfRinging, Next
    PROVE  PresumesOfRinging'
<1>. USE DEF PresumesOfRinging, Alarmes
<1>1. CASE UNCHANGED <<etat, numero, pc>>
  BY <1>1
<1>2. CASE Appareil \/ AppareilRepond \/ Ecouter \/ Envoyer
  BY <1>1, <1>2 DEF Appareil, AppareilLever, AppareilSonne, AppareilSeTait,
              AppareilParle, AppareilRepond, service, Ecouter, Envoyer
<1>3. CASE Seconde \/ Minute
  BY <1>1, <1>3 DEF Seconde, Minute
<1>4. CASE Tick \/ Reconnecter \/ TickPerdu \/ HandlersTick
  BY <1>4 DEF Tick, Reconnecter, TickPerdu, HandlersTick
<1>5. CASE Traitement
  BY <1>5 DEF Traitement, TraiterUn, FinTraiter, RelireLumiere, RelireAmbiance, RelireEchoue
<1>6. CASE Suivre \/ SuivreLit \/ SuivreEchoue \/ FinSuivre
  BY <1>6 DEF Suivre, SuivreLit, SuivreEchoue, FinSuivre
<1>7. CASE SuivreCesse
  BY <1>7 DEF SuivreCesse, RingCeased, dansBoucle, TypeOK, LoopType
<1>8. CASE SuivreUne \/ PresumerLit \/ PresumerEchoue
  BY <1>8 DEF SuivreUne, PresumerLit, PresumerEchoue, Presumer
<1>9. CASE AgirSurAlarme \/ StopReussi \/ AgirSansStop
  BY <1>9 DEF AgirSurAlarme, StopReussi, AgirSansStop, ConstantsAssumption
<1>. QED
  BY <1>2, <1>3, <1>4, <1>5, <1>6, <1>7, <1>8, <1>9 DEF Next, Suivi

\* Every change of state is marked, and both loops end with diffuser_reveil.
LEMMA ClientsStep ==
    ASSUME TypeOK, TypeOK', ChangesMarked, PresumesOfRinging, Next
    PROVE  ChangesMarked'
<1>. USE DEF ChangesMarked
<1>. SuiviType
  BY DEF TypeOK
<1>1. CASE UNCHANGED <<etat, diffuse, reveil_change, pc>>
  BY <1>1
<1>2. CASE Appareil \/ AppareilRepond \/ Ecouter \/ Envoyer
  BY <1>1, <1>2 DEF Appareil, AppareilLever, AppareilSonne, AppareilSeTait,
              AppareilParle, AppareilRepond, service, Ecouter, Envoyer
<1>3. CASE Seconde \/ Minute
  BY <1>1, <1>3 DEF Seconde, Minute
<1>4. CASE Tick \/ Reconnecter \/ TickPerdu \/ HandlersTick
  BY <1>4 DEF Tick, Reconnecter, TickPerdu, HandlersTick
<1>5. CASE TraiterUn
  <2>1. pc' = "traiter" /\ diffuse' = diffuse
    BY <1>5 DEF TraiterUn
  <2>2. reveil_change' = FALSE => etat' = etat /\ reveil_change = FALSE
    <3>1. CASE UNCHANGED <<suivi, reveil_change>>
      BY <3>1
    <3>2. CASE \E n \in Alarmes, s \in Etats : Changer(n, s)
      BY <3>2, ChangerType
    <3>. QED
      BY <1>5, <3>1, <3>2 DEF TraiterUn, NoteAlarme, Etats
  <2>. QED
    BY <2>1, <2>2, TypeOK' DEF TypeOK, SuiviType
<1>6. CASE FinTraiter \/ FinSuivre
  BY <1>6 DEF FinTraiter, FinSuivre, Diffuser, SuiviType
<1>7. CASE RelireLumiere \/ RelireAmbiance \/ RelireEchoue
  BY <1>7 DEF RelireLumiere, RelireAmbiance, RelireEchoue, Repondu, Echoue
<1>8. CASE Suivre \/ SuivreLit \/ SuivreEchoue \/ SuivreCesse
  BY <1>8 DEF Suivre, SuivreLit, SuivreEchoue, SuivreCesse, dansBoucle, Repondu, Echoue
<1>9. CASE SuivreUne
  <2>1. numero \in Alarmes /\ pc' = "alarmes" /\ diffuse' = diffuse
    BY <1>9 DEF SuivreUne, dansBoucle, TypeOK, LoopType, Alarmes
  <2>2. reveil_change' = FALSE => etat' = etat /\ reveil_change = FALSE
    <3>1. CASE UNCHANGED <<suivi, reveil_change>>
      BY <3>1
    <3>2. CASE \E s \in Etats : Changer(numero, s)
      BY <2>1, <3>2, ChangerType
    <3>. QED
      BY <1>9, <3>1, <3>2 DEF SuivreUne, Etats
  <2>. QED
    BY <2>1, <2>2 DEF TypeOK, SuiviType
<1>10. CASE PresumerLit \/ PresumerEchoue
  <2>1. PICK d : Presumer(d) /\ pc = "presumer"
    BY <1>10 DEF PresumerLit, PresumerEchoue, Repondu, Echoue
  <2>2. etat[numero] = "ringing" /\ numero \in Alarmes
    BY <2>1 DEF PresumesOfRinging
  <2>3. reveil_change' = TRUE /\ pc' = "alarmes"
    BY <2>1, <2>2, ChangerType DEF Presumer, Etats
  <2>. QED
    BY <2>3
<1>11. CASE AgirSurAlarme \/ StopReussi \/ AgirSansStop
  BY <1>11 DEF AgirSurAlarme, StopReussi, AgirSansStop, Repondu, Echoue
<1>. QED
  BY <1>2, <1>3, <1>4, <1>5, <1>6, <1>7, <1>8, <1>9, <1>10, <1>11
     DEF Next, Traitement, Suivi

\* suivre_reveil changes an alarm when its number comes, and starts with everything sent.
LEMMA RestStep ==
    ASSUME TypeOK, ClientsUpToDate, PresumesOfRinging, Next
    PROVE  RestIsSent'
<1>. SuiviType /\ LoopType
  BY DEF TypeOK
<1>0. ChangesMarked /\ RestIsSent
  BY DEF ClientsUpToDate
<1>1. CASE UNCHANGED <<etat, diffuse, numero, pc>>
  BY <1>0, <1>1 DEF RestIsSent
<1>2. CASE pc' \notin {"alarmes", "presumer"}
  BY <1>2 DEF RestIsSent
<1>3. CASE Appareil \/ AppareilRepond \/ Ecouter \/ Envoyer
  BY <1>1, <1>3 DEF Appareil, AppareilLever, AppareilSonne, AppareilSeTait,
              AppareilParle, AppareilRepond, service, Ecouter, Envoyer
<1>4. CASE Seconde \/ Minute
  BY <1>1, <1>4 DEF Seconde, Minute
<1>5. CASE Tick \/ Reconnecter \/ TickPerdu \/ HandlersTick
  BY <1>2, <1>5 DEF Tick, Reconnecter, TickPerdu, HandlersTick
<1>6. CASE Traitement
  <2>1. pc' \in {"traiter", "lumiere", "suivre", "ambiance"}
    BY <1>6 DEF Traitement, TraiterUn, FinTraiter, RelireLumiere, RelireAmbiance, RelireEchoue
  <2>. QED
    BY <1>2, <2>1
<1>7. CASE Suivre \/ SuivreEchoue \/ FinSuivre
  <2>1. pc' \in {"status", "boucle"}
    BY <1>7 DEF Suivre, SuivreEchoue, FinSuivre
  <2>. QED
    BY <1>2, <2>1
<1>8. CASE SuivreLit
  <2>1. pc = "status" /\ UNCHANGED <<etat, diffuse>>
    BY <1>8 DEF SuivreLit, Repondu
  <2>2. diffuse = etat
    BY <1>0, <2>1 DEF ChangesMarked
  <2>. QED
    BY <2>1, <2>2 DEF RestIsSent
<1>9. CASE SuivreCesse
  BY <1>0, <1>9 DEF SuivreCesse, dansBoucle, RestIsSent
<1>10. CASE SuivreUne \/ PresumerLit \/ PresumerEchoue
  <2>1. /\ pc \in {"alarmes", "presumer"} /\ numero' = numero + 1
        /\ diffuse' = diffuse
        /\ \A n \in Alarmes : n # numero => etat'[n] = etat[n]
    <3>1. CASE SuivreUne
      BY <3>1 DEF SuivreUne, dansBoucle, Changer, SuiviType
    <3>2. CASE PresumerLit \/ PresumerEchoue
      BY <3>2 DEF PresumerLit, PresumerEchoue, Presumer, Repondu, Echoue, Changer, SuiviType
    <3>. QED
      BY <1>10, <3>1, <3>2
  <2>2. SUFFICES ASSUME NEW n \in Alarmes, n >= numero + 1
                 PROVE  diffuse[n] = etat'[n]
    BY <2>1 DEF RestIsSent
  <2>3. n >= numero /\ n # numero
    BY <2>2 DEF LoopType, Alarmes
  <2>. QED
    BY <1>0, <2>1, <2>3 DEF RestIsSent
<1>11. CASE AgirSurAlarme \/ StopReussi \/ AgirSansStop
  <2>1. pc' \in {"boucle", "stop", "snooze"}
    BY <1>11 DEF AgirSurAlarme, StopReussi, AgirSansStop, ConstantsAssumption
  <2>. QED
    BY <1>2, <2>1
<1>. QED
  BY <1>3, <1>4, <1>5, <1>6, <1>7, <1>8, <1>9, <1>10, <1>11 DEF Next, Suivi

\* A state becomes "snoozed" from "ringing" only, and leaves it for "idle" at the
\* end of its time or after a stop: what one step of the loop may do.
SnoozeStepOf(n) ==
    /\ etat'[n] = "snoozed" => etat[n] \in {"ringing", "snoozed"}
    /\ etat[n] = "snoozed" /\ etat'[n] = "idle" => fin_snooze[n] = 0 \/ arret_demande

\* Every step respects SnoozeStepOf: suivre_reveil is the only place where a snooze starts or ends.
LEMMA SnoozeStep ==
    ASSUME TypeOK, RungIsTracked, PresumesOfRinging, Next
    PROVE  \A n \in Alarmes : SnoozeStepOf(n)
<1>. SUFFICES ASSUME NEW n \in Alarmes
              PROVE  SnoozeStepOf(n)
  OBVIOUS
<1>. SuiviType
  BY DEF TypeOK
<1>0. CASE etat' = etat
  BY <1>0 DEF SnoozeStepOf
<1>1. CASE TraiterUn
  <2>1. etat'[n] \in {etat[n], "ringing", "sunrise"}
    BY <1>1 DEF TraiterUn, NoteAlarme, Changer, SuiviType
  <2>. QED
    BY <2>1 DEF SnoozeStepOf
<1>2. CASE SuivreUne
  <2>1. CASE numero # n
    BY <1>0, <1>2, <2>1 DEF SuivreUne, Changer, SuiviType, SnoozeStepOf
  <2>2. CASE numero = n /\ Changer(n, "ringing")
    BY <2>2 DEF Changer, SuiviType, SnoozeStepOf
  <2>3. CASE numero = n /\ Changer(n, IF a_sonne[n] THEN "snoozed" ELSE "sunrise")
    BY <2>3 DEF Changer, SuiviType, SnoozeStepOf, RungIsTracked
  <2>4. CASE numero = n /\ Ended(n) /\ Changer(n, "idle")
    <3>1. etat[n] = "snoozed" => ~(fin_snooze[n] > 0) \/ arret_demande
      BY <2>4 DEF Ended, SnoozeRuns
    <3>2. fin_snooze[n] \in Nat
      BY DEF SuiviType
    <3>3. etat'[n] = "idle"
      BY <2>4 DEF Changer, SuiviType
    <3>4. etat[n] = "snoozed" => fin_snooze[n] = 0 \/ arret_demande
      BY <3>1, <3>2
    <3>. QED
      BY <3>3, <3>4 DEF SnoozeStepOf
  <2>. QED
    BY <1>0, <1>2, <2>1, <2>2, <2>3, <2>4 DEF SuivreUne
<1>3. CASE PresumerLit \/ PresumerEchoue
  <2>1. PICK d : Presumer(d) /\ pc = "presumer"
    BY <1>3 DEF PresumerLit, PresumerEchoue, Repondu, Echoue
  <2>2. etat' = [etat EXCEPT ![numero] = "snoozed"] /\ etat[numero] = "ringing"
    BY <2>1 DEF Presumer, Changer, PresumesOfRinging
  <2>. QED
    BY <2>2 DEF SuiviType, SnoozeStepOf
<1>4. CASE FinTraiter \/ FinSuivre \/ Minute
  BY <1>0, <1>4 DEF FinTraiter, FinSuivre, Minute
<1>. QED
  BY <1>0, <1>1, <1>2, <1>3, <1>4, QuietSteps DEF Quiet

-----------------------------------------------------------------------------
(* The theorems *)

\* The service starts with every alarm idle, nothing noted and nothing to announce.
LEMMA IInvInit == Init => IInv
<1>. SUFFICES ASSUME Init
              PROVE  IInv
  OBVIOUS
<1>1. RadioType /\ QueueType
  <2>1. 0 \in Numeros /\ <<>> \in Seq(Reponses) /\ <<>> \in Seq(Trames)
    BY EmptySeq DEF Numeros
  <2>2. Len(<<>>) <= QueueSize
    OBVIOUS
  <2>. QED
    BY <2>1, <2>2 DEF Init, RadioType, QueueType
<1>2. LoopType
  <2>1. 0 \in Numeros /\ 1 \in 1..(NbAlarmes + 1)
    BY DEF Numeros
  <2>. QED
    BY <2>1 DEF Init, LoopType, Pcs
<1>3. SuiviType
  <2>1. "idle" \in Etats /\ 0 \in 0..(DureeMax + Marge)
    BY DEF Etats
  <2>. QED
    BY <2>1 DEF Init, SuiviType
<1>4. WatchCovers /\ RungIsTracked
  BY DEF Init, WatchCovers, RungIsTracked
<1>5. ClientsUpToDate /\ WatchedWhileReading /\ PresumesOfRinging
  BY DEF Init, ClientsUpToDate, ChangesMarked, RestIsSent, WatchedWhileReading, PresumesOfRinging
<1>. QED
  BY <1>1, <1>2, <1>3, <1>4, <1>5 DEF IInv, TypeOK

\* Every step of the service and of the device keeps the inductive invariant.
LEMMA IInvStep == IInv /\ [Next]_vars => IInv'
<1>. SUFFICES ASSUME IInv, [Next]_vars
              PROVE  IInv'
  OBVIOUS
<1>1. CASE Next
  <2>1. TypeOK'
    BY <1>1, RadioStep, QueueStep, LoopStep, SuiviStep DEF IInv, TypeOK
  <2>2. WatchCovers' /\ WatchedWhileReading'
    BY <1>1, <2>1, WatchStep DEF IInv
  <2>3. RungIsTracked'
    BY <1>1, <2>1, RungStep DEF IInv
  <2>4. ClientsUpToDate'
    BY <1>1, <2>1, ClientsStep, RestStep DEF IInv, ClientsUpToDate
  <2>5. PresumesOfRinging'
    BY <1>1, PresumesStep DEF IInv
  <2>. QED
    BY <2>1, <2>2, <2>3, <2>4, <2>5 DEF IInv
<1>2. CASE UNCHANGED vars
  BY <1>2 DEF vars, IInv, TypeOK, RadioType, QueueType, LoopType, SuiviType,
     WatchCovers, RungIsTracked, ClientsUpToDate, ChangesMarked, RestIsSent,
     WatchedWhileReading, PresumesOfRinging
<1>. QED
  BY <1>1, <1>2

\* The inductive invariant holds in every reachable state.
THEOREM Inductive == Spec => []IInv
BY IInvInit, IInvStep, PTL DEF Spec

\* Every variable has its type and the queue of messages never exceeds its size.
THEOREM Typed == Spec => []TypeOK
<1>1. IInv => TypeOK
  BY DEF IInv
<1>. QED
  BY <1>1, Inductive, PTL

\* suivre_reveil: an alarm in progress, or a stop remembered, is always watched.
THEOREM Watched == Spec => []WatchCovers
<1>1. IInv => WatchCovers
  BY DEF IInv
<1>. QED
  BY <1>1, Inductive, PTL

\* evenements.alarmes: a_sonne, the state shown and the snooze deadline agree.
THEOREM Tracked == Spec => []RungIsTracked
<1>1. IInv => RungIsTracked
  BY DEF IInv
<1>. QED
  BY <1>1, Inductive, PTL

\* diffuser_reveil: whenever the program waits, every change has been announced, but
\* those that suivre_reveil has made to the alarms before the one presumer_snooze reads.
THEOREM Announced == Spec => []ClientsUpToDate
<1>1. IInv => ClientsUpToDate
  BY DEF IInv
<1>. QED
  BY <1>1, Inductive, PTL

\* suivre_reveil: a snooze comes from a ringing, and ends at its time or by a stop.
THEOREM SnoozeTimed == Spec => SnoozeHasItsTime
<1>1. IInv /\ [Next]_vars =>
        [\A n \in Alarmes :
         /\ etat'[n] = "snoozed" => etat[n] \in {"ringing", "snoozed"}
         /\ etat[n] = "snoozed" /\ etat'[n] = "idle"
               => fin_snooze[n] = 0 \/ arret_demande]_vars
  BY SnoozeStep DEF IInv, SnoozeStepOf
<1>. QED
  BY <1>1, Inductive, PTL DEF Spec, SnoozeHasItsTime

-----------------------------------------------------------------------------
(* After a stop: what the device has done and says, what the service knows *)

\* Nothing arrives over a link that is down, and nothing is left of the old one.
RadioInv == ~connected => wire = <<>> /\ inbox = <<>>

Eteint == lever = 0 /\ sonne = 0

\* In a list of frames, no message of an alarm comes after place i.
SansReveil(s, i) == \A j \in (i + 1)..Len(s) : s[j].code \notin EvtReveil

\* The statuses after place i say that nothing is in progress.
StatutNul(s, i) ==
    \A j \in (i + 1)..Len(s) : s[j].code = "C5" => s[j].a = 0 /\ s[j].b = 0

\* Once it has done a stop, the device has nothing in progress and says so, until
\* it sends a message of an alarm.
ApresStop ==
    \A i \in 1..Len(wire) :
        wire[i].code = "C9" /\ SansReveil(wire, i) => Eteint /\ StatutNul(wire, i)

\* The same after the answer of a stop with nothing in the queue; the next reading
\* finds every alarm ended.
FileSansReveil == \A j \in 1..Len(file) : file[j].code \notin EvtReveil

ApresClair ==
    arret = "clear" =>
        /\ Eteint /\ SansReveil(wire, 0) /\ StatutNul(wire, 0)
        /\ FileSansReveil
        /\ lu = <<0, 0>>
        /\ ~arret_demande => \A n \in Alarmes : etat[n] = "idle"

\* The status read is kept for the loop only; a snooze is presumed without a stop.
BoucleInv ==
    /\ pc \notin {"alarmes", "presumer"} => lu = <<0, 0>>
    /\ pc = "presumer" => ~arret_demande

StopInv == RadioInv /\ ApresStop /\ ApresClair /\ BoucleInv

\* The frames after a place, when the first frame is taken and when one comes last.
LEMMA ApresTail ==
    ASSUME NEW s \in Seq(Trames), s # <<>>
    PROVE  /\ Len(Tail(s)) = Len(s) - 1 /\ Len(s) \in Nat /\ Len(s) >= 1
           /\ \A i \in 1..Len(Tail(s)) : i + 1 \in 1..Len(s) /\ Tail(s)[i] = s[i + 1]
           /\ \A i \in 0..Len(Tail(s)) : /\ SansReveil(Tail(s), i) <=> SansReveil(s, i + 1)
                                         /\ StatutNul(s, i + 1) => StatutNul(Tail(s), i)
<1>1. Tail(s) \in Seq(Trames) /\ Len(Tail(s)) = Len(s) - 1
  BY HeadTailProperties
<1>2. Len(s) \in Nat /\ Len(s) >= 1
  BY EmptySeq, LenProperties
<1>3. \A i \in 1..Len(Tail(s)) : i + 1 \in 1..Len(s) /\ Tail(s)[i] = s[i + 1]
  BY <1>1, <1>2, HeadTailProperties
<1>. DEFINE m == Len(s)
<1>4. ASSUME NEW i \in 0..Len(Tail(s))
      PROVE  /\ SansReveil(Tail(s), i) <=> SansReveil(s, i + 1)
             /\ StatutNul(s, i + 1) => StatutNul(Tail(s), i)
  <2>1. \A j \in (i + 1)..Len(Tail(s)) : j + 1 \in (i + 2)..m /\ Tail(s)[j] = s[j + 1]
    BY <1>1, <1>2, <1>3
  <2>2. \A j \in (i + 2)..m : j - 1 \in (i + 1)..Len(Tail(s)) /\ s[j] = Tail(s)[j - 1]
    <3>. TAKE j \in (i + 2)..m
    <3>1. j - 1 \in (i + 1)..Len(Tail(s)) /\ (j - 1) + 1 = j
      BY <1>1, <1>2
    <3>. QED
      BY <2>1, <3>1
  <2>3. i + 1 + 1 = i + 2
    BY <1>1, <1>2
  <2>. QED
    BY <2>1, <2>2, <2>3 DEF SansReveil, StatutNul
<1>. QED
  BY <1>1, <1>2, <1>3, <1>4

LEMMA ApresAppend ==
    ASSUME NEW s \in Seq(Trames), NEW f \in Trames
    PROVE  /\ Append(s, f) \in Seq(Trames)
           /\ Len(Append(s, f)) = Len(s) + 1 /\ Len(s) \in Nat
           /\ Append(s, f)[Len(s) + 1] = f
           /\ \A i \in 1..Len(s) : Append(s, f)[i] = s[i]
           /\ \A i \in 0..Len(s) :
                 /\ SansReveil(Append(s, f), i) <=> SansReveil(s, i) /\ f.code \notin EvtReveil
                 /\ StatutNul(s, i) /\ (f.code = "C5" => f.a = 0 /\ f.b = 0)
                       => StatutNul(Append(s, f), i)
<1>1. /\ Append(s, f) \in Seq(Trames)
      /\ Len(Append(s, f)) = Len(s) + 1 /\ Append(s, f)[Len(s) + 1] = f
      /\ \A i \in 1..Len(s) : Append(s, f)[i] = s[i]
  BY AppendProperties
<1>2. Len(s) \in Nat
  BY LenProperties
<1>3. PICK t, m : t = Append(s, f) /\ m = Len(s)
  OBVIOUS
<1>4. ASSUME NEW i \in 0..m
      PROVE  /\ SansReveil(t, i) <=> SansReveil(s, i) /\ f.code \notin EvtReveil
             /\ StatutNul(s, i) /\ (f.code = "C5" => f.a = 0 /\ f.b = 0)
                   => StatutNul(t, i)
  <2>1. \A j \in (i + 1)..m : j \in (i + 1)..(m + 1) /\ t[j] = s[j]
    BY <1>1, <1>2, <1>3
  <2>2. \A j \in (i + 1)..(m + 1) : j \in (i + 1)..m \/ j = m + 1
    BY <1>2, <1>3
  <2>3. m + 1 \in (i + 1)..(m + 1) /\ t[m + 1] = f /\ Len(t) = m + 1 /\ Len(s) = m
    BY <1>1, <1>2, <1>3
  <2>. QED
    BY <2>1, <2>2, <2>3 DEF SansReveil, StatutNul
<1>. QED
  BY <1>1, <1>2, <1>3, <1>4

\* Frames are received or lost: what held after a stop still does.
LEMMA MoinsDeTrames ==
    ASSUME TypeOK, ApresStop, UNCHANGED appareil,
           wire' = wire \/ wire' = <<>> \/ (wire # <<>> /\ wire' = Tail(wire))
    PROVE  /\ ApresStop'
           /\ SansReveil(wire, 0) => SansReveil(wire', 0)
           /\ StatutNul(wire, 0) => StatutNul(wire', 0)
<1>1. CASE wire' = wire
  BY <1>1 DEF ApresStop, Eteint
<1>2. CASE wire' = <<>>
  BY <1>2, EmptySeq DEF ApresStop, SansReveil, StatutNul
<1>3. CASE wire # <<>> /\ wire' = Tail(wire)
  <2>1. PICK s \in Seq(Trames) : s = wire /\ s # <<>>
    BY <1>3 DEF TypeOK, RadioType
  <2>2. ASSUME NEW i \in 1..Len(Tail(s)), Tail(s)[i].code = "C9", SansReveil(Tail(s), i)
        PROVE  Eteint /\ StatutNul(Tail(s), i)
    <3>1. Len(Tail(s)) \in Nat /\ i \in 0..Len(Tail(s))
      BY <2>1, ApresTail
    <3>2. i + 1 \in 1..Len(s) /\ s[i + 1].code = "C9" /\ SansReveil(s, i + 1)
      BY <2>1, <2>2, <3>1, ApresTail
    <3>3. Eteint /\ StatutNul(s, i + 1)
      BY <2>1, <3>2 DEF ApresStop
    <3>. QED
      BY <2>1, <3>1, <3>3, ApresTail
  <2>3. SansReveil(s, 0) => SansReveil(s, 1)
    BY <2>1, ApresTail DEF SansReveil
  <2>4. StatutNul(s, 0) => StatutNul(s, 1)
    BY <2>1, ApresTail DEF StatutNul
  <2>5. 0 \in 0..Len(Tail(s)) /\ 0 + 1 = 1
    BY <2>1, ApresTail
  <2>6. /\ SansReveil(Tail(s), 0) <=> SansReveil(s, 1)
        /\ StatutNul(s, 1) => StatutNul(Tail(s), 0)
    BY <2>1, <2>5, ApresTail
  <2>7. ApresStop'
    BY <1>3, <2>1, <2>2 DEF ApresStop, Eteint
  <2>. QED
    BY <1>3, <2>1, <2>3, <2>4, <2>6, <2>7
<1>. QED
  BY <1>1, <1>2, <1>3

\* However an exchange ends, frames are only received or lost.
LEMMA ExchangeFrames ==
    ASSUME NEW p, Repondu(p) \/ Perdre \/ Echoue(p)
    PROVE  wire' = wire \/ wire' = <<>> \/ (wire # <<>> /\ wire' = Tail(wire))
BY DEF Repondu, Perdre, Echoue, Expirer

\* The device adds a frame that is no message of an alarm: after a stop, a status is null.
LEMMA UneTrame ==
    ASSUME TypeOK, ApresStop, ApresClair, NEW f \in Trames, wire' = Append(wire, f),
           f.code \notin EvtReveil,
           f.code = "C5" /\ Eteint => f.a = 0 /\ f.b = 0,
           f.code = "C9" \/ Eteint => Eteint',
           UNCHANGED <<file, lu, arret_demande, etat, arret>>
    PROVE  ApresStop' /\ ApresClair'
<1>1. PICK s \in Seq(Trames) : s = wire
  BY DEF TypeOK, RadioType
<1>2. PICK t : t = Append(s, f)
  OBVIOUS
<1>3. /\ Len(t) = Len(s) + 1 /\ Len(s) \in Nat /\ t[Len(s) + 1] = f
      /\ \A i \in 1..Len(s) : t[i] = s[i]
      /\ \A i \in 0..Len(s) :
            /\ SansReveil(t, i) <=> SansReveil(s, i) /\ f.code \notin EvtReveil
            /\ StatutNul(s, i) /\ (f.code = "C5" => f.a = 0 /\ f.b = 0) => StatutNul(t, i)
  BY <1>2, ApresAppend
<1>4. ApresStop'
  <2>1. ASSUME NEW i \in 1..Len(t), t[i].code = "C9", SansReveil(t, i)
        PROVE  Eteint' /\ StatutNul(t, i)
    <3>1. CASE i = Len(s) + 1
      <4>1. \A j \in (i + 1)..Len(t) : FALSE
        BY <1>3, <3>1
      <4>. QED
        BY <1>3, <2>1, <3>1, <4>1 DEF StatutNul
    <3>2. CASE i # Len(s) + 1
      <4>1. i \in 1..Len(s) /\ i \in 0..Len(s)
        BY <1>3, <3>2
      <4>2. s[i].code = "C9" /\ SansReveil(s, i)
        BY <1>3, <2>1, <4>1
      <4>3. Eteint /\ StatutNul(s, i)
        BY <1>1, <4>1, <4>2 DEF ApresStop
      <4>. QED
        BY <1>3, <4>1, <4>3
    <3>. QED
      BY <3>1, <3>2
  <2>. QED
    BY <1>1, <1>2, <2>1 DEF ApresStop
<1>5. ApresClair'
  <2>. SUFFICES ASSUME arret = "clear"
                PROVE  /\ Eteint' /\ SansReveil(t, 0) /\ StatutNul(t, 0)
                       /\ FileSansReveil /\ lu = <<0, 0>>
                       /\ ~arret_demande => \A n \in Alarmes : etat[n] = "idle"
    BY <1>1, <1>2 DEF ApresClair, FileSansReveil
  <2>1. Eteint /\ SansReveil(s, 0) /\ StatutNul(s, 0)
    BY <1>1 DEF ApresClair
  <2>2. 0 \in 0..Len(s)
    BY <1>3
  <2>3. SansReveil(t, 0) /\ StatutNul(t, 0)
    BY <1>3, <2>1, <2>2
  <2>. QED
    BY <2>1, <2>3 DEF ApresClair
<1>. QED
  BY <1>4, <1>5

LEMMA TrameFaite ==
    ASSUME NEW c \in Codes, NEW x \in Numeros, NEW y \in Numeros
    PROVE  \E f \in Trames : f = Trame(c, x, y) /\ f.code = c /\ f.a = x /\ f.b = y
<1>1. Trame(c, x, y) \in Trames
  BY DEF Trame, Trames
<1>2. Trame(c, x, y).code = c /\ Trame(c, x, y).a = x /\ Trame(c, x, y).b = y
  BY DEF Trame
<1>. QED
  BY <1>1, <1>2

\* The device: a new sunrise or a new ringing says so, everything else is quiet after a stop.
LEMMA StopAppareil ==
    ASSUME TypeOK, RadioInv, ApresStop, ApresClair, Appareil \/ AppareilRepond
    PROVE  ApresStop' /\ ApresClair'
<1>1. ASSUME NEW n \in Alarmes, NEW c \in EvtReveil, Emettre(Trame(c, n, 0)), arret' = "none"
      PROVE  ApresStop' /\ ApresClair'
  <2>1. ApresClair'
    BY <1>1 DEF ApresClair
  <2>2. CASE ~connected
    <3>1. wire' = <<>>
      BY <1>1, <2>2 DEF Emettre, RadioInv
    <3>. QED
      BY <2>1, <3>1, EmptySeq DEF ApresStop
  <2>3. CASE connected
    <3>1. PICK s \in Seq(Trames) : s = wire
      BY DEF TypeOK, RadioType
    <3>2. PICK f \in Trames : f = Trame(c, n, 0) /\ f.code = c
      <4>1. c \in Codes /\ n \in Numeros /\ 0 \in Numeros
        BY DEF Codes, EvtFile, Numeros, Alarmes
      <4>. QED
        BY <4>1, TrameFaite
    <3>3. PICK t : t = Append(s, f)
      OBVIOUS
    <3>4. wire' = t
      BY <1>1, <2>3, <3>1, <3>2, <3>3 DEF Emettre
    <3>5. ASSUME NEW i \in 1..Len(t), t[i].code = "C9", SansReveil(t, i)
          PROVE  FALSE
      <4>1. Len(t) = Len(s) + 1 /\ Len(s) \in Nat /\ t[Len(s) + 1] = f
        BY <3>3, ApresAppend
      <4>2. CASE i = Len(s) + 1
        BY <3>2, <3>5, <4>1, <4>2 DEF EvtReveil
      <4>3. CASE i # Len(s) + 1
        <5>1. Len(s) + 1 \in (i + 1)..Len(t)
          BY <4>1, <4>3
        <5>. QED
          BY <3>2, <3>5, <4>1, <5>1 DEF SansReveil
      <4>. QED
        BY <4>2, <4>3
    <3>. QED
      BY <2>1, <3>4, <3>5 DEF ApresStop
  <2>. QED
    BY <2>2, <2>3
<1>2. ASSUME NEW n \in Alarmes, AppareilLever(n) \/ AppareilSonne(n)
      PROVE  ApresStop' /\ ApresClair'
  BY <1>1, <1>2 DEF AppareilLever, AppareilSonne, EvtReveil
<1>3. CASE AppareilSeTait
  <2>1. ~Eteint /\ wire' = wire /\ arret' = arret
    BY <1>3 DEF AppareilSeTait, Eteint
  <2>. QED
    BY <2>1 DEF ApresStop, ApresClair
<1>4. CASE AppareilParle
  <2>1. PICK c \in Autres : Emettre(Trame(c, 0, 0))
    BY <1>4 DEF AppareilParle
  <2>2. PICK f \in Trames : f = Trame(c, 0, 0) /\ f.code = c
    <3>1. c \in Codes /\ 0 \in Numeros
      BY DEF Codes, EvtFile, EvtReveil, Numeros
    <3>. QED
      BY <3>1, TrameFaite
  <2>3. c \in {"CA", "EB"}
    OBVIOUS
  <2>4. wire' = Append(wire, f) /\ UNCHANGED <<appareil, file, lu, arret_demande, etat, arret>>
    BY <1>4, <2>1, <2>2 DEF AppareilParle, Emettre, service
  <2>5. Eteint => Eteint'
    BY <2>4 DEF Eteint
  <2>6. f.code \notin EvtReveil /\ f.code # "C5" /\ f.code # "C9"
    BY <2>2, <2>3 DEF EvtReveil
  <2>. QED
    BY <2>4, <2>5, <2>6, UneTrame
<1>5. CASE AppareilRepond
  <2>1. PICK r \in Reponses : r = Head(inbox)
    BY <1>5, HeadTailProperties DEF AppareilRepond, TypeOK, RadioType
  <2>2. Trame("C5", lever, sonne) \in Trames /\ Trame(r, 0, 0) \in Trames
    BY DEF Trame, Trames, Codes, Reponses, TypeOK, RadioType, Numeros
  <2>3. PICK f \in Trames :
            /\ f = IF r = "C5" THEN Trame("C5", lever, sonne) ELSE Trame(r, 0, 0)
            /\ f.code = r /\ (r = "C5" => f.a = lever /\ f.b = sonne)
    BY <2>2 DEF Trame
  <2>4. wire' = Append(wire, f) /\ UNCHANGED <<file, lu, arret_demande, etat, arret>>
    BY <1>5, <2>1, <2>3 DEF AppareilRepond, service
  <2>5. f.code \notin EvtReveil /\ (f.code = "C5" /\ Eteint => f.a = 0 /\ f.b = 0)
    BY <2>1, <2>3 DEF EvtReveil, Reponses, Eteint
  <2>6. f.code = "C9" \/ Eteint => Eteint'
    <3>1. CASE r = "C9"
      BY <1>5, <2>1, <3>1 DEF AppareilRepond, Eteint
    <3>2. CASE r = "C8"
      BY <1>5, <2>1, <2>3, <3>2 DEF AppareilRepond, Eteint, ApresTape
    <3>3. CASE r \notin {"C9", "C8"}
      BY <1>5, <2>1, <2>3, <3>3 DEF AppareilRepond, Eteint
    <3>. QED
      BY <3>1, <3>2, <3>3
  <2>. QED
    BY <2>4, <2>5, <2>6, UneTrame
<1>. QED
  BY <1>2, <1>3, <1>4, <1>5 DEF Appareil

\* Steps that touch nothing of this, but for frames received or lost.
SansEffet ==
    /\ wire' = wire \/ wire' = <<>> \/ (wire # <<>> /\ wire' = Tail(wire))
    /\ UNCHANGED <<appareil, file, lu, arret_demande, etat, arret>>

LEMMA StopSansEffet ==
    ASSUME TypeOK, ApresStop, ApresClair, SansEffet
    PROVE  ApresStop' /\ ApresClair'
<1>1. ApresStop' /\ (SansReveil(wire, 0) => SansReveil(wire', 0))
      /\ (StatutNul(wire, 0) => StatutNul(wire', 0))
  BY MoinsDeTrames DEF SansEffet
<1>2. ApresClair'
  BY <1>1 DEF ApresClair, SansEffet, Eteint, FileSansReveil
<1>. QED
  BY <1>1, <1>2

\* handlers_on_event notes no message of an alarm when none has arrived.
LEMMA StopEcouter ==
    ASSUME TypeOK, ApresStop, ApresClair, Ecouter
    PROVE  ApresStop' /\ ApresClair'
<1>1. ApresStop' /\ (SansReveil(wire, 0) => SansReveil(wire', 0))
      /\ (StatutNul(wire, 0) => StatutNul(wire', 0))
  BY MoinsDeTrames DEF Ecouter
<1>2. PICK f \in Trames : f = Head(wire)
  BY WireHead DEF Ecouter, TypeOK
<1>3. f = wire[1] /\ 1 \in (0 + 1)..Len(wire)
  <2>1. wire \in Seq(Trames) /\ wire # <<>>
    BY DEF Ecouter, TypeOK, RadioType
  <2>. QED
    BY <1>2, <2>1, EmptySeq, LenProperties, HeadTailProperties
<1>4. SansReveil(wire, 0) => f.code \notin EvtReveil
  BY <1>3 DEF SansReveil
<1>5. ASSUME FileSansReveil, f.code \notin EvtReveil
      PROVE  FileSansReveil'
  <2>1. CASE file' = file
    BY <1>5, <2>1 DEF FileSansReveil
  <2>2. CASE file' = Append(file, f)
    <3>1. file \in Seq(Trames)
      BY DEF TypeOK, QueueType
    <3>2. PICK t : t = Append(file, f)
      OBVIOUS
    <3>3. \A i \in 1..Len(file) : t[i] = file[i]
      BY <3>1, <3>2, AppendProperties
    <3>4. Len(t) = Len(file) + 1 /\ t[Len(file) + 1] = f /\ Len(file) \in Nat
      BY <3>1, <3>2, AppendProperties, LenProperties
    <3>5. \A i \in 1..Len(t) : i \in 1..Len(file) \/ i = Len(file) + 1
      BY <3>4
    <3>6. \A i \in 1..Len(t) : t[i].code \notin EvtReveil
      BY <1>5, <3>3, <3>4, <3>5 DEF FileSansReveil
    <3>. QED
      BY <2>2, <3>2, <3>6 DEF FileSansReveil
  <2>. QED
    BY <1>2, <2>1, <2>2 DEF Ecouter, Noter
<1>6. ApresClair'
  <2>1. UNCHANGED <<appareil, lu, arret_demande, etat, arret>>
    BY DEF Ecouter
  <2>. QED
    BY <1>1, <1>4, <1>5, <2>1 DEF ApresClair, Eteint
<1>. QED
  BY <1>1, <1>6

\* traiter_evenements: after a stop that found the queue clear, no message is of an alarm.
LEMMA StopTraiterUn ==
    ASSUME TypeOK, ApresStop, ApresClair, TraiterUn
    PROVE  /\ ApresStop' /\ ApresClair'
           /\ arret = "clear" => etat' = etat
<1>1. file \in Seq(Trames) /\ file # <<>>
  BY DEF TraiterUn, TypeOK, QueueType
<1>2. /\ Head(file) = file[1] /\ 1 \in 1..Len(file)
      /\ Len(Tail(file)) = Len(file) - 1 /\ Len(file) \in Nat
      /\ \A i \in 1..(Len(file) - 1) : Tail(file)[i] = file[i + 1]
  BY <1>1, EmptySeq, LenProperties, HeadTailProperties
<1>3. UNCHANGED <<wire, appareil, lu, arret>> /\ file' = Tail(file)
  BY DEF TraiterUn
<1>4. ASSUME FileSansReveil
      PROVE  FileSansReveil' /\ UNCHANGED <<etat, arret_demande>>
  <2>1. Head(file).code \notin EvtReveil
    BY <1>2, <1>4 DEF FileSansReveil
  <2>2. UNCHANGED <<etat, arret_demande>>
    BY <2>1 DEF TraiterUn
  <2>3. \A i \in 1..Len(Tail(file)) : i \in 1..(Len(file) - 1) /\ i + 1 \in 1..Len(file)
    BY <1>2
  <2>4. \A i \in 1..Len(Tail(file)) : Tail(file)[i].code \notin EvtReveil
    BY <1>2, <1>4, <2>3 DEF FileSansReveil
  <2>. QED
    BY <1>3, <2>2, <2>4 DEF FileSansReveil
<1>5. ApresStop'
  BY <1>3 DEF ApresStop, Eteint
<1>. QED
  BY <1>3, <1>4, <1>5 DEF ApresClair, Eteint

\* suivre_reveil, one alarm, after a stop: it is over, or its snooze has just been told.
LEMMA StopSuivreUne ==
    ASSUME TypeOK, ApresStop, ApresClair, SuivreUne
    PROVE  /\ ApresStop' /\ ApresClair'
           /\ arret = "clear" => \A n \in Alarmes : etat'[n] \in {etat[n], "idle"}
<1>1. UNCHANGED <<wire, file, appareil, lu, arret_demande, arret>>
  BY DEF SuivreUne, dansBoucle
<1>2. ApresStop'
  BY <1>1 DEF ApresStop, Eteint
<1>3. ASSUME arret = "clear"
      PROVE  \A n \in Alarmes : etat'[n] \in {etat[n], "idle"}
  <2>1. lu[1] = 0 /\ lu[2] = 0 /\ numero \in Alarmes /\ numero # 0
    BY <1>3 DEF ApresClair, SuivreUne, TypeOK, LoopType, Alarmes
  <2>2. ~RingSeen(numero) /\ ~SunriseSeen(numero)
    BY <2>1 DEF RingSeen, SunriseSeen
  <2>3. etat' = etat \/ Changer(numero, "idle")
    BY <2>2 DEF SuivreUne
  <2>. QED
    BY <2>3 DEF Changer, TypeOK, SuiviType
<1>4. ApresClair'
  <2>. SUFFICES ASSUME arret = "clear"
                PROVE  ~arret_demande => \A n \in Alarmes : etat'[n] = "idle"
    BY <1>1 DEF ApresClair, Eteint, FileSansReveil
  <2>. QED
    BY <1>3 DEF ApresClair
<1>. QED
  BY <1>2, <1>3, <1>4

\* The status read after a stop says that nothing is in progress.
LEMMA StopSuivreLit ==
    ASSUME TypeOK, ApresStop, ApresClair, SuivreLit
    PROVE  ApresStop' /\ ApresClair'
<1>1. ApresStop' /\ (SansReveil(wire, 0) => SansReveil(wire', 0))
      /\ (StatutNul(wire, 0) => StatutNul(wire', 0))
  BY MoinsDeTrames DEF SuivreLit, Repondu
<1>2. Head(wire).code = "C5"
  BY DEF SuivreLit, Repondu, EstReponse, Attendue, Echanges
<1>3. Head(wire) = wire[1] /\ 1 \in (0 + 1)..Len(wire)
  <2>1. wire \in Seq(Trames) /\ wire # <<>>
    BY DEF SuivreLit, Repondu, TypeOK, RadioType
  <2>. QED
    BY <2>1, EmptySeq, LenProperties, HeadTailProperties
<1>4. StatutNul(wire, 0) => lu' = <<0, 0>>
  BY <1>2, <1>3 DEF StatutNul, SuivreLit
<1>5. UNCHANGED <<appareil, file, arret_demande, etat, arret>>
  BY DEF SuivreLit
<1>. QED
  BY <1>1, <1>4, <1>5 DEF ApresClair, Eteint, FileSansReveil

\* The answer of a stop: the device has done it, and its messages since are on the wire.
LEMMA StopStopReussi ==
    ASSUME TypeOK, ApresStop, BoucleInv, StopReussi
    PROVE  ApresStop' /\ ApresClair'
<1>1. ApresStop' /\ wire' = Tail(wire) /\ wire # <<>>
  BY MoinsDeTrames DEF StopReussi, Repondu
<1>2. PICK s \in Seq(Trames) : s = wire /\ s # <<>>
  BY <1>1 DEF TypeOK, RadioType
<1>3. s[1].code = "C9" /\ 1 \in 1..Len(s)
  <2>1. Head(s).code = "C9"
    BY <1>2 DEF StopReussi, Repondu, EstReponse, Attendue, Echanges
  <2>. QED
    BY <1>2, <2>1, EmptySeq, LenProperties, HeadTailProperties
<1>4. lu = <<0, 0>>
  BY DEF BoucleInv, StopReussi, Repondu
<1>5. UNCHANGED <<appareil, file, lu, etat>> /\ arret_demande' = TRUE
  BY DEF StopReussi
<1>6. ASSUME arret' = "clear"
      PROVE  Eteint' /\ SansReveil(wire', 0) /\ StatutNul(wire', 0) /\ FileSansReveil'
  <2>1. ~Contient(Tail(wire), EvtReveil) /\ ~Contient(file, EvtReveil)
    BY <1>6 DEF StopReussi
  <2>2. FileSansReveil
    <3>1. DOMAIN file = 1..Len(file)
      BY LenProperties DEF TypeOK, QueueType
    <3>. QED
      BY <2>1, <3>1 DEF FileSansReveil, Contient
  <2>3. SansReveil(Tail(s), 0)
    <3>1. Tail(s) \in Seq(Trames) /\ DOMAIN Tail(s) = 1..Len(Tail(s))
      BY <1>2, HeadTailProperties, LenProperties
    <3>. QED
      BY <1>2, <2>1, <3>1 DEF SansReveil, Contient
  <2>4. /\ SansReveil(Tail(s), 0) <=> SansReveil(s, 1)
        /\ StatutNul(s, 1) => StatutNul(Tail(s), 0)
    <3>1. 0 \in 0..Len(Tail(s)) /\ 0 + 1 = 1
      BY <1>2, ApresTail
    <3>. QED
      BY <1>2, <3>1, ApresTail
  <2>5. Eteint /\ StatutNul(s, 1)
    BY <1>2, <1>3, <2>3, <2>4 DEF ApresStop
  <2>. QED
    BY <1>1, <1>2, <1>5, <2>2, <2>3, <2>4, <2>5 DEF Eteint, FileSansReveil
<1>. QED
  BY <1>1, <1>4, <1>5, <1>6 DEF ApresClair

\* The end of the loop forgets a stop when every alarm is idle only.
LEMMA StopFinSuivre ==
    ASSUME TypeOK, ApresStop, ApresClair, FinSuivre
    PROVE  ApresStop' /\ ApresClair'
<1>1. UNCHANGED <<wire, file, appareil, etat, arret>> /\ lu' = <<0, 0>>
  BY DEF FinSuivre
<1>2. arret_demande /\ ~arret_demande' => \A n \in Alarmes : etat[n] = "idle"
  BY DEF FinSuivre
<1>3. ApresStop'
  BY <1>1 DEF ApresStop, Eteint
<1>. QED
  BY <1>1, <1>2, <1>3 DEF ApresClair, Eteint, FileSansReveil

\* presumer_snooze never runs after a stop that found the queue clear.
LEMMA StopPresumer ==
    ASSUME TypeOK, ApresStop, ApresClair, BoucleInv, PresumesOfRinging,
           PresumerLit \/ PresumerEchoue
    PROVE  ApresStop' /\ ApresClair' /\ arret # "clear"
<1>1. arret # "clear"
  <2>1. pc = "presumer"
    BY DEF PresumerLit, PresumerEchoue, Repondu, Echoue
  <2>. QED
    BY <2>1 DEF ApresClair, BoucleInv, PresumesOfRinging
<1>2. UNCHANGED <<appareil, arret>>
  BY DEF PresumerLit, PresumerEchoue, Presumer
<1>3. ApresStop'
  BY <1>2, MoinsDeTrames, ExchangeFrames DEF PresumerLit, PresumerEchoue
<1>. QED
  BY <1>1, <1>2, <1>3 DEF ApresClair

\* After a stop with nothing in the queue an alarm may only become idle, and what
\* makes it so is kept by every step.
LEMMA ApresStep ==
    ASSUME IInv, StopInv, Next
    PROVE  /\ ApresStop' /\ ApresClair'
           /\ arret = "clear" /\ arret' = "clear"
                 => \A n \in Alarmes : etat'[n] \in {etat[n], "idle"}
<1>. TypeOK /\ PresumesOfRinging /\ RadioInv /\ ApresStop /\ ApresClair /\ BoucleInv
  BY DEF IInv, StopInv
<1>1. CASE Appareil \/ AppareilRepond
  <2>1. etat' = etat
    BY <1>1 DEF Appareil, AppareilLever, AppareilSonne, AppareilSeTait, AppareilParle,
                AppareilRepond, service
  <2>. QED
    BY <1>1, <2>1, StopAppareil
<1>2. CASE Seconde \/ Minute \/ Envoyer \/ Tick \/ Reconnecter \/ HandlersTick
           \/ FinTraiter \/ Suivre \/ SuivreCesse \/ AgirSurAlarme
  <2>1. SansEffet
    BY <1>2 DEF SansEffet, Seconde, Minute, Envoyer, Tick, Reconnecter, HandlersTick,
                FinTraiter, Suivre, SuivreCesse, AgirSurAlarme, dansBoucle
  <2>. QED
    BY <2>1, StopSansEffet DEF SansEffet
<1>3. CASE TickPerdu \/ RelireLumiere \/ RelireAmbiance \/ RelireEchoue \/ SuivreEchoue
           \/ AgirSansStop
  <2>1. wire' = wire \/ wire' = <<>> \/ (wire # <<>> /\ wire' = Tail(wire))
    BY <1>3, ExchangeFrames DEF TickPerdu, RelireLumiere, RelireAmbiance, RelireEchoue,
                SuivreEchoue, AgirSansStop
  <2>2. SansEffet
    BY <1>3, <2>1 DEF SansEffet, TickPerdu, RelireLumiere, RelireAmbiance, RelireEchoue,
                SuivreEchoue, AgirSansStop
  <2>. QED
    BY <2>2, StopSansEffet DEF SansEffet
<1>4. CASE Ecouter
  BY <1>4, StopEcouter DEF Ecouter
<1>5. CASE SuivreLit
  BY <1>5, StopSuivreLit DEF SuivreLit
<1>6. CASE FinSuivre
  BY <1>6, StopFinSuivre DEF FinSuivre
<1>7. CASE StopReussi
  BY <1>7, StopStopReussi DEF StopReussi
<1>. QED
  BY <1>1, <1>2, <1>3, <1>4, <1>5, <1>6, <1>7, StopTraiterUn, StopSuivreUne, StopPresumer
     DEF Next, Traitement, Suivi

\* What a link that goes down or a loop that ends leaves behind.
LEMMA PlacesStep ==
    ASSUME TypeOK, RadioInv, BoucleInv, Next
    PROVE  RadioInv' /\ BoucleInv'
<1>. USE DEF RadioInv, BoucleInv
<1>1. CASE Appareil
  BY <1>1 DEF Appareil, AppareilLever, AppareilSonne, AppareilSeTait, AppareilParle,
              Emettre, service
<1>2. CASE AppareilRepond
  BY <1>2 DEF AppareilRepond, service
<1>3. CASE Seconde \/ Minute
  BY <1>3 DEF Seconde, Minute
<1>4. CASE Ecouter \/ Envoyer
  BY <1>4 DEF Ecouter, Envoyer
<1>5. CASE Tick \/ Reconnecter \/ TickPerdu \/ HandlersTick
  BY <1>5 DEF Tick, Reconnecter, TickPerdu, HandlersTick, Perdre
<1>6. CASE TraiterUn \/ FinTraiter
  BY <1>6 DEF TraiterUn, FinTraiter
<1>7. CASE RelireLumiere \/ RelireAmbiance \/ RelireEchoue
  BY <1>7 DEF RelireLumiere, RelireAmbiance, RelireEchoue, Repondu, Echoue, Perdre, Expirer
<1>8. CASE Suivre \/ SuivreLit \/ SuivreEchoue
  BY <1>8 DEF Suivre, SuivreLit, SuivreEchoue, Repondu, Echoue, Perdre, Expirer
<1>9. CASE SuivreUne \/ SuivreCesse \/ FinSuivre
  BY <1>9 DEF SuivreUne, SuivreCesse, FinSuivre, RingCeased, dansBoucle
<1>10. CASE PresumerLit \/ PresumerEchoue
  BY <1>10 DEF PresumerLit, PresumerEchoue, Presumer, Repondu, Echoue, Perdre, Expirer
<1>11. CASE AgirSurAlarme \/ StopReussi \/ AgirSansStop
  BY <1>11 DEF AgirSurAlarme, StopReussi, AgirSansStop, Repondu, Echoue, Perdre, Expirer
<1>. QED
  BY <1>1, <1>2, <1>3, <1>4, <1>5, <1>6, <1>7, <1>8, <1>9, <1>10, <1>11
     DEF Next, Traitement, Suivi

LEMMA StopInductive == Spec => [](IInv /\ StopInv)
<1>1. Init => StopInv
  BY EmptySeq DEF Init, StopInv, RadioInv, ApresStop, ApresClair, BoucleInv
<1>2. IInv /\ StopInv /\ [Next]_vars => StopInv'
  <2>. SUFFICES ASSUME IInv, StopInv, [Next]_vars
                PROVE  StopInv'
    OBVIOUS
  <2>1. CASE Next
    BY <2>1, ApresStep, PlacesStep DEF StopInv, IInv
  <2>2. CASE UNCHANGED vars
    BY <2>2 DEF vars, StopInv, RadioInv, ApresStop, ApresClair, BoucleInv, Eteint,
                FileSansReveil
  <2>. QED
    BY <2>1, <2>2
<1>. QED
  BY <1>1, <1>2, Inductive, PTL DEF Spec

\* agir_sur_alarme and suivre_reveil: once a stop is answered and no message of an
\* alarm waits, an alarm only goes to idle, until the device starts one again.
THEOREM StopsForGood == Spec => StopGivesIdle
<1>1. IInv /\ StopInv /\ [Next]_vars =>
        [arret = "clear" /\ arret' = "clear" =>
            \A n \in Alarmes : etat'[n] \in {etat[n], "idle"}]_vars
  BY ApresStep
<1>. QED
  BY <1>1, StopInductive, PTL DEF Spec, StopGivesIdle
=============================================================================
