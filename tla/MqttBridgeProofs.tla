-------------------------- MODULE MqttBridgeProofs --------------------------
(***************************************************************************)
(* Proofs about MqttBridge, for any number of disturbances: what the bridge *)
(* holds for published is what the broker keeps, what it commands is read  *)
(* again, and an ON is for a lamp that is off.                             *)
(***************************************************************************)
EXTENDS MqttBridge, TLAPS

\* What may be in `rep' and `ordre' at each place of the main thread.
FilInv ==
    /\ pc \in {"file", "dues", "poll"} => rep = Absent
    /\ pc = "poll_status" => rep \in Etats \union {"injoignable", Absent}
    /\ pc \in Lire => rep \in Etats \union {"refus", "injoignable", Absent}
    /\ pc = "on_lire" => ordre = "ON"
    /\ pc = "commande" => ordre \in Etats /\ rep \in {"ok", "refus", "injoignable", Absent}

\* An answer that holds the lamp, and an event that is not old, are of the lamp as it is.
LuInv ==
    /\ pc \in Lire /\ rep # Absent => explique \/ depasse \/ rep = lampe
    /\ pc = "on_lire" /\ rep # Absent => surprise \/ rep = lampe
    /\ \A i \in DOMAIN commands :
          commands[i] \in Evenements /\ ~commands[i].vieux => commands[i].data \in {lampe, "timer_ended"}

IInv == TypeOK /\ FilInv /\ LuInv /\ PublishedIsShown /\ CommandedIsReread

Publies == Topics \ {"bridge"}

\* A value to publish: of some topics, and never the absent one.
APublier(d) == DOMAIN d \subseteq Publies /\ \A t \in DOMAIN d : d[t] \in Valeurs \ {Absent}

-----------------------------------------------------------------------------
(* The queue.                                                              *)

\* An element of a sequence is its head, or an element of its tail.
LEMMA HeadOrTail ==
    ASSUME NEW S, NEW q \in Seq(S), q # <<>>, NEW i \in DOMAIN q
    PROVE  q[i] = Head(q) \/ (i - 1 \in DOMAIN Tail(q) /\ q[i] = Tail(q)[i - 1])
OBVIOUS

\* An element of the tail of a sequence is one of the sequence.
LEMMA TailInside ==
    ASSUME NEW S, NEW q \in Seq(S), q # <<>>, NEW i \in DOMAIN Tail(q)
    PROVE  i + 1 \in DOMAIN q /\ Tail(q)[i] = q[i + 1] /\ Tail(q) \in Seq(S) /\ Head(q) \in S
OBVIOUS

LEMMA AppendInside ==
    ASSUME NEW S, NEW q \in Seq(S), NEW x \in S, NEW i \in DOMAIN Append(q, x)
    PROVE  Append(q, x)[i] = x \/ (i \in DOMAIN q /\ Append(q, x)[i] = q[i])
OBVIOUS

\* The kinds of items are told apart by their first field.
LEMMA ItemKinds ==
    ASSUME NEW x \in Items
    PROVE  /\ x.item \in {"republish", "order", "event"}
           /\ x.item = "event" <=> x \in Evenements
           /\ x.item = "order" => x.data \in Etats
BY DEF Items, Evenements

\* An event that becomes old is still an event, of the same lamp.
LEMMA Vieillir ==
    ASSUME NEW x \in Evenements
    PROVE  /\ [x EXCEPT !.vieux = TRUE] \in Evenements
           /\ [x EXCEPT !.vieux = TRUE].vieux = TRUE
           /\ [x EXCEPT !.vieux = TRUE].item = "event"
BY DEF Evenements

\* Events that become old: the queue keeps its length, its items and their kinds.
LEMMA ChangerQueue ==
    ASSUME NEW etat \in Etats, Changer(etat), commands \in Seq(Items)
    PROVE  /\ commands' \in Seq(Items) /\ DOMAIN commands' = DOMAIN commands
           /\ \A i \in DOMAIN commands : /\ commands'[i].item = commands[i].item
                                         /\ commands'[i] \in Evenements => commands'[i].vieux
<1>1. \A i \in DOMAIN commands : commands[i] \in Items
    OBVIOUS
<1>2. DOMAIN commands' = DOMAIN commands
    BY DEF Changer
<1>3. ASSUME NEW i \in DOMAIN commands
      PROVE  /\ commands'[i] \in Items
             /\ commands'[i].item = commands[i].item
             /\ commands'[i] \in Evenements => commands'[i].vieux
  <2>1. CASE commands[i].item = "event"
    <3>1. commands[i] \in Evenements
          BY <1>1, <2>1, ItemKinds
    <3>2. commands'[i] = [commands[i] EXCEPT !.vieux = TRUE]
          BY <2>1 DEF Changer
    <3> QED
          BY <2>1, <3>1, <3>2, Vieillir DEF Items
  <2>2. CASE commands[i].item # "event"
    <3>1. commands'[i] = commands[i]
          BY <2>2 DEF Changer
    <3> QED
          BY <1>1, <2>2, <3>1, ItemKinds
  <2> QED
      BY <2>1, <2>2
<1>4. commands' \in Seq(Items)
  <2>1. PICK n \in Nat : DOMAIN commands = 1..n
        OBVIOUS
  <2>2. commands' = [i \in 1..n |-> commands'[i]]
        BY <1>2, <2>1 DEF Changer
  <2> QED
        BY <1>2, <1>3, <2>1, <2>2
<1> QED
    BY <1>2, <1>3, <1>4

-----------------------------------------------------------------------------
(* What is published.                                                      *)

LEMMA PublishTyped ==
    ASSUME NEW d, APublier(d), publish(d), TypeOK
    PROVE  /\ published' \in [Publies -> Valeurs] /\ retained' \in [Topics -> Valeurs]
           /\ UNCHANGED <<broker, accueil>>
<1>1. published' \in [Publies -> Valeurs]
    BY DEF publish, APublier, TypeOK, MqttOK, PontOK, Publies
<1>2. retained' \in [Topics -> Valeurs]
    BY DEF publish, APublier, TypeOK, MqttOK, PontOK, Publies
<1> QED
    BY <1>1, <1>2 DEF publish

LEMMA PublishShows ==
    ASSUME NEW d, APublier(d), publish(d), PublishedIsShown, TypeOK,
           UNCHANGED commands \/ (commands # <<>> /\ commands' = Tail(commands)
                                  /\ Head(commands).item # "republish")
    PROVE  PublishedIsShown'
<1> SUFFICES ASSUME broker', ~accueil', \A i \in DOMAIN commands' : commands'[i].item # "republish",
                    NEW t \in DOMAIN published'
             PROVE  published'[t] \in {Absent, retained'[t]}
    BY DEF PublishedIsShown
<1>1. broker /\ ~accueil
    BY DEF publish
<1>2. \A i \in DOMAIN commands : commands[i].item # "republish"
  <2>1. CASE UNCHANGED commands
        BY <2>1
  <2>2. CASE commands # <<>> /\ commands' = Tail(commands) /\ Head(commands).item # "republish"
    <3>1. commands \in Seq(Items)
          BY DEF TypeOK
    <3> QED
        BY <2>2, <3>1, HeadOrTail
  <2> QED
      BY <2>1, <2>2
<1>3. t \in Publies /\ t \in Topics
    BY DEF publish, Publies, TypeOK, PontOK
<1>4. published[t] \in {Absent, retained[t]}
    BY <1>1, <1>2, <1>3 DEF PublishedIsShown, TypeOK, PontOK, Publies
<1> QED
    BY <1>1, <1>3, <1>4 DEF publish

\* What refresh publishes, and what it keeps, of an answer of its kind.
LEMMA RefreshPublishes ==
    ASSUME NEW group \in {"status", "mood"}, refresh(group), TypeOK, rep # Absent,
           group = "status" => rep \in Etats \union {"injoignable"},
           group = "mood" => rep \in Etats \union {"refus", "injoignable"}
    PROVE  /\ \/ UNCHANGED <<published, mqtt>>
              \/ \E d : APublier(d) /\ publish(d)
           /\ cache' \in [status : Etats \union {Absent}, mood : Etats \union {Absent}]
           /\ group = "mood" => cache'.mood = IF rep \in Etats THEN rep ELSE cache.mood
           /\ group = "status" => cache'.mood = cache.mood
<1>1. CASE rep = "refus"
    BY <1>1 DEF refresh, TypeOK, PontOK, Etats
<1>2. CASE rep = "injoignable"
  <2>1. cache' = [cache EXCEPT !.status = Absent] /\ publish([aml |-> "offline"])
        BY <1>2 DEF refresh
  <2>2. APublier([aml |-> "offline"])
        BY DEF APublier, Publies, Topics, Valeurs, Absent
  <2> QED
      BY <1>2, <2>1, <2>2 DEF TypeOK, PontOK, Etats
<1>3. CASE rep \in Etats /\ group = "status"
  <2> DEFINE d == [aml |-> IF rep = "ON" THEN "online" ELSE "offline", connected |-> rep]
  <2>1. cache' = [cache EXCEPT ![group] = rep] /\ publish(d)
        BY <1>3 DEF refresh, Etats
  <2>2. APublier(d)
        BY <1>3 DEF APublier, Publies, Topics, Valeurs, Absent, Etats
  <2>3. cache' = [cache EXCEPT !.status = rep]
        BY <1>3, <2>1
  <2> QED
      BY <1>3, <2>1, <2>2, <2>3 DEF TypeOK, PontOK, Etats
<1>4. CASE rep \in Etats /\ group = "mood"
  <2> DEFINE d == [mood |-> rep]
  <2>1. cache' = [cache EXCEPT ![group] = rep] /\ publish(d)
        BY <1>4 DEF refresh, Etats
  <2>2. APublier(d)
        BY <1>4 DEF APublier, Publies, Topics, Valeurs, Absent, Etats
  <2>3. cache' = [cache EXCEPT !.mood = rep]
        BY <1>4, <2>1
  <2> QED
      BY <1>4, <2>1, <2>2, <2>3 DEF TypeOK, PontOK, Etats
<1> QED
    BY <1>1, <1>2, <1>3, <1>4

-----------------------------------------------------------------------------
(* Types, and what is in `rep' at each place.                              *)

\* What a step leaves alone keeps its type.
LEMMA Intact ==
    ASSUME TypeOK
    PROVE  /\ UNCHANGED appareil => AppareilOK'
           /\ UNCHANGED processus => ProcessusOK'
           /\ UNCHANGED mqtt => MqttOK'
           /\ UNCHANGED pont => PontOK'
           /\ UNCHANGED fil => FilOK'
           /\ UNCHANGED <<pc, ordre, rep>> /\ FilInv => FilInv'
           /\ UNCHANGED commands => commands' \in Seq(Items)
           /\ UNCHANGED <<aleas, histoire>> => ComptesOK'
<1>1. UNCHANGED appareil => AppareilOK'
    BY DEF TypeOK, appareil, AppareilOK
<1>2. UNCHANGED processus => ProcessusOK'
    BY DEF TypeOK, processus, ProcessusOK
<1>3. UNCHANGED mqtt => MqttOK'
    BY DEF TypeOK, mqtt, MqttOK
<1>4. UNCHANGED pont => PontOK'
    BY DEF TypeOK, pont, PontOK
<1>5. UNCHANGED fil => FilOK'
    BY DEF TypeOK, fil, FilOK
<1>6. UNCHANGED <<pc, ordre, rep>> /\ FilInv => FilInv'
    BY DEF FilInv
<1>7. UNCHANGED <<aleas, histoire>> => ComptesOK'
    BY DEF TypeOK, histoire, ComptesOK
<1> QED
    BY <1>1, <1>2, <1>3, <1>4, <1>5, <1>6, <1>7 DEF TypeOK

LEMMA AleaTyped == TypeOK /\ Alea => aleas' \in 0..AleasMax
BY BridgeAssumption DEF TypeOK, ComptesOK, Alea

LEMMA TypeInit == Init => TypeOK /\ FilInv
<1> SUFFICES ASSUME Init PROVE TypeOK /\ FilInv
    OBVIOUS
<1>1. AppareilOK /\ ProcessusOK
    BY DEF Init, AppareilOK, ProcessusOK
<1>2. MqttOK
    BY DEF Init, MqttOK, Valeurs
<1>3. PontOK
    BY DEF Init, PontOK, Valeurs
<1>4. FilOK /\ FilInv
    BY DEF Init, FilOK, FilInv, Lire, Absent
<1>5. ComptesOK
  <2>1. aleas \in 0..AleasMax
        BY BridgeAssumption, SMT DEF Init
  <2> QED
      BY <2>1, Zenon DEF Init, ComptesOK
<1>6. commands \in Seq(Items)
    BY DEF Init
<1> QED
    BY <1>1, <1>2, <1>3, <1>4, <1>5, <1>6 DEF TypeOK

\* The steps of the device, of the service and of the two links.
LEMMA TypeEnvironnement ==
    ASSUME TypeOK, FilInv, Environnement
    PROVE  TypeOK' /\ FilInv'
<1> USE DEF Environnement
<1>1. CASE Bouton
  <2>1. PICK e \in Etats : Bouger(e)
        BY <1>1 DEF Bouton
  <2>2. commands' \in Seq(Items)
        BY <2>1, ChangerQueue DEF Bouger, TypeOK
  <2>3. AppareilOK' /\ ProcessusOK'
        BY <1>1, <2>1 DEF Bouton, Bouger, Changer, TypeOK, AppareilOK, ProcessusOK
  <2>4. ComptesOK'
    <3>1. aleas' \in 0..AleasMax
          BY <1>1, AleaTyped DEF Bouton
    <3> QED
        BY <2>1, <3>1 DEF Bouger, TypeOK, ComptesOK
  <2>5. MqttOK' /\ PontOK' /\ FilOK' /\ FilInv'
        BY <1>1, Intact DEF Bouton, fil
  <2> QED
      BY <2>2, <2>3, <2>4, <2>5 DEF TypeOK
<1>2. CASE ServiceEnfin
  <2>1. tard \in Etats
        BY <1>2 DEF ServiceEnfin, TypeOK, ProcessusOK
  <2>2. commands' \in Seq(Items) /\ AppareilOK' /\ ComptesOK'
    <3>1. CASE Changer(tard) /\ depasse' = TRUE /\ surprise' = TRUE /\ UNCHANGED explique
      <4>1. commands' \in Seq(Items)
            BY <2>1, <3>1, ChangerQueue DEF TypeOK
      <4>2. AppareilOK'
            BY <1>2, <2>1, <3>1 DEF ServiceEnfin, Changer, TypeOK, AppareilOK
      <4>3. ComptesOK'
            BY <1>2, <3>1 DEF ServiceEnfin, TypeOK, ComptesOK
      <4> QED
          BY <4>1, <4>2, <4>3
    <3>2. CASE UNCHANGED <<lampe, commands, histoire>>
          BY <1>2, <3>2, Intact DEF ServiceEnfin, appareil
    <3> QED
        BY <1>2, <3>1, <3>2 DEF ServiceEnfin
  <2>3. ProcessusOK'
        BY <1>2 DEF ServiceEnfin, TypeOK, ProcessusOK
  <2>4. MqttOK' /\ PontOK' /\ FilOK' /\ FilInv'
        BY <1>2, Intact DEF ServiceEnfin, fil
  <2> QED
      BY <2>2, <2>3, <2>4 DEF TypeOK
<1>3. CASE PerdreLiaison \/ RetablirLiaison \/ Arreter \/ Demarrer
  <2>1. AppareilOK' /\ ProcessusOK'
        BY <1>3 DEF PerdreLiaison, RetablirLiaison, Arreter, Demarrer, TypeOK,
                    AppareilOK, ProcessusOK, appareil, processus
  <2>2. ComptesOK'
    <3>1. aleas' \in 0..AleasMax
          BY <1>3, AleaTyped DEF PerdreLiaison, RetablirLiaison, Arreter, Demarrer, TypeOK, ComptesOK
    <3> QED
        BY <1>3, <3>1 DEF PerdreLiaison, RetablirLiaison, Arreter, Demarrer, histoire,
                          TypeOK, ComptesOK
  <2>3. MqttOK' /\ PontOK' /\ FilOK' /\ FilInv' /\ commands' \in Seq(Items)
        BY <1>3, Intact DEF PerdreLiaison, RetablirLiaison, Arreter, Demarrer, fil
  <2> QED
      BY <2>1, <2>2, <2>3 DEF TypeOK
<1>4. CASE Couper \/ Joindre
  <2>1. MqttOK'
        BY <1>4 DEF Couper, Joindre, TypeOK, MqttOK, Valeurs
  <2>2. ComptesOK'
    <3>1. aleas' \in 0..AleasMax
          BY <1>4, AleaTyped DEF Couper, Joindre, TypeOK, ComptesOK
    <3> QED
        BY <1>4, <3>1 DEF Couper, Joindre, histoire, TypeOK, ComptesOK
  <2>3. AppareilOK' /\ ProcessusOK' /\ PontOK' /\ FilOK' /\ FilInv' /\ commands' \in Seq(Items)
        BY <1>4, Intact DEF Couper, Joindre, fil
  <2> QED
      BY <2>1, <2>2, <2>3 DEF TypeOK
<1> QED
    BY <1>1, <1>2, <1>3, <1>4

\* The steps of the listening thread and of the thread of the MQTT client.
LEMMA TypeFiles ==
    ASSUME TypeOK, FilInv, listen_events \/ on_connect \/ on_message
    PROVE  TypeOK' /\ FilInv'
<1>1. CASE listen_events
  <2>1. \A d \in {lampe, "timer_ended"} : [item |-> "event", data |-> d, vieux |-> FALSE] \in Items
        BY DEF TypeOK, AppareilOK, Items, Evenements
  <2>2. commands' \in Seq(Items)
        BY <1>1, <2>1 DEF listen_events, TypeOK
  <2>3. ProcessusOK'
        BY <1>1 DEF listen_events, TypeOK, ProcessusOK
  <2>4. AppareilOK' /\ MqttOK' /\ PontOK' /\ FilOK' /\ FilInv' /\ ComptesOK'
        BY <1>1, Intact DEF listen_events, fil
  <2> QED
      BY <2>2, <2>3, <2>4 DEF TypeOK
<1>2. CASE on_connect \/ on_message
  <2>1. [item |-> "republish"] \in Items /\ \A o \in Etats : [item |-> "order", data |-> o] \in Items
        BY DEF Items
  <2>2. commands' \in Seq(Items)
    <3>1. \E x \in Items : commands' = Append(commands, x)
          BY <1>2, <2>1 DEF on_connect, on_message, announce
    <3> QED
        BY <3>1 DEF TypeOK
  <2>3. MqttOK'
        BY <1>2 DEF on_connect, on_message, announce, TypeOK, MqttOK, Valeurs
  <2>4. ComptesOK'
    <3>1. aleas' \in 0..AleasMax
          BY <1>2, AleaTyped DEF on_connect, on_message, TypeOK, ComptesOK
    <3> QED
        BY <1>2, <3>1 DEF on_connect, on_message, histoire, TypeOK, ComptesOK
  <2>5. AppareilOK' /\ ProcessusOK' /\ PontOK' /\ FilOK' /\ FilInv'
        BY <1>2, Intact DEF on_connect, on_message, fil
  <2> QED
      BY <2>2, <2>3, <2>4, <2>5 DEF TypeOK
<1> QED
    BY <1>1, <1>2

\* The requests of the main thread, and their answers.
LEMMA TypeDemandes ==
    ASSUME TypeOK, FilInv, DemanderLecture \/ DemanderCommande
    PROVE  TypeOK' /\ FilInv'
<1>1. CASE DemanderLecture
  <2>1. FilOK' /\ FilInv'
        BY <1>1 DEF DemanderLecture, TypeOK, AppareilOK, FilOK, FilInv, Lire, Etats, Absent
  <2>2. ComptesOK'
    <3>1. aleas' \in 0..AleasMax
          BY <1>1, AleaTyped DEF DemanderLecture, TypeOK, ComptesOK
    <3>2. explique' \in BOOLEAN /\ depasse' \in BOOLEAN /\ surprise' \in BOOLEAN
          BY <1>1 DEF DemanderLecture, histoire, TypeOK, ComptesOK
    <3> QED
        BY <3>1, <3>2 DEF ComptesOK
  <2>3. AppareilOK' /\ ProcessusOK' /\ MqttOK' /\ PontOK' /\ commands' \in Seq(Items)
        BY <1>1, Intact DEF DemanderLecture
  <2> QED
      BY <2>1, <2>2, <2>3 DEF TypeOK
<1>2. CASE DemanderCommande
  <2>1. ordre \in Etats /\ pc' = "commande" /\ ordre' = ordre
        BY <1>2 DEF DemanderCommande, FilInv
  <2>2. commands' \in Seq(Items) /\ AppareilOK'
    <3>1. CASE Changer(ordre)
      <4>1. commands' \in Seq(Items)
            BY <2>1, <3>1, ChangerQueue DEF TypeOK
      <4>2. AppareilOK'
            BY <1>2, <2>1, <3>1 DEF DemanderCommande, Changer, TypeOK, AppareilOK
      <4> QED
            BY <4>1, <4>2
    <3>2. CASE UNCHANGED <<lampe, commands>>
          BY <1>2, <3>2, Intact DEF DemanderCommande, appareil
    <3> QED
        BY <1>2, <3>1, <3>2 DEF DemanderCommande
  <2>3. ProcessusOK'
        BY <1>2, <2>1 DEF DemanderCommande, TypeOK, ProcessusOK
  <2>4. FilOK' /\ FilInv'
    <3>1. rep' \in {"ok", "refus", "injoignable"}
          BY <1>2 DEF DemanderCommande
    <3> QED
        BY <2>1, <3>1 DEF FilOK, FilInv, Lire
  <2>5. ComptesOK'
    <3>1. aleas' \in 0..AleasMax
          BY <1>2, AleaTyped DEF DemanderCommande, TypeOK, ComptesOK
    <3> QED
        BY <1>2, <3>1 DEF DemanderCommande, histoire, TypeOK, ComptesOK
  <2>6. MqttOK' /\ PontOK'
        BY <1>2, Intact DEF DemanderCommande
  <2> QED
      BY <2>2, <2>3, <2>4, <2>5, <2>6 DEF TypeOK
<1> QED
    BY <1>1, <1>2

\* An item of the queue: what it holds decides where the thread goes.
LEMMA TypePrendre ==
    ASSUME TypeOK, FilInv, Prendre
    PROVE  TypeOK' /\ FilInv'
<1>1. commands' \in Seq(Items) /\ Head(commands) \in Items
    BY DEF Prendre, TypeOK
<1>2. AppareilOK' /\ ProcessusOK'
    BY Intact DEF Prendre
<1>3. CASE PrendreRepublish
  <2>1. PontOK'
        BY <1>3 DEF PrendreRepublish, Republier, TypeOK, PontOK, Valeurs
  <2>2. FilOK' /\ FilInv'
        BY <1>3 DEF PrendreRepublish, Vers, TypeOK, FilOK, FilInv, Lire
  <2>3. MqttOK' /\ ComptesOK'
        BY <1>3, Intact DEF Prendre, PrendreRepublish
  <2> QED
      BY <1>1, <1>2, <2>1, <2>2, <2>3 DEF TypeOK
<1>4. CASE handle_event
  <2>1. Head(commands).data \in Etats \union {"timer_ended"} /\ Head(commands).vieux \in BOOLEAN
        BY <1>1, <1>4, ItemKinds DEF handle_event, Evenements
  <2>2. FilOK' /\ FilInv'
        BY <1>4 DEF handle_event, Vers, TypeOK, FilOK, FilInv, Lire
  <2>3. ComptesOK'
    <3>1. aleas' \in 0..AleasMax
          BY DEF Prendre, TypeOK, ComptesOK
    <3>2. explique' \in BOOLEAN /\ depasse' \in BOOLEAN /\ surprise' \in BOOLEAN
          BY <1>4, <2>1 DEF handle_event, TypeOK, ComptesOK
    <3> QED
        BY <3>1, <3>2 DEF ComptesOK
  <2>4. CASE Head(commands).data = "timer_ended"
    <3>1. MqttOK' /\ PontOK'
          BY <1>4, <2>4, Intact DEF handle_event, pont
    <3> QED
        BY <1>1, <1>2, <2>2, <2>3, <3>1 DEF TypeOK
  <2>5. CASE Head(commands).data # "timer_ended"
    <3> DEFINE d == [mood |-> Head(commands).data]
    <3>1. publish(d) /\ cache' = [cache EXCEPT !.mood = Head(commands).data]
          BY <1>4, <2>5 DEF handle_event
    <3>2. APublier(d)
          BY <2>1, <2>5 DEF APublier, Publies, Topics, Valeurs, Absent, Etats
    <3>3. published' \in [Publies -> Valeurs] /\ retained' \in [Topics -> Valeurs]
          /\ UNCHANGED <<broker, accueil>>
          BY <3>1, <3>2, PublishTyped
    <3>4. MqttOK'
          BY <3>3 DEF TypeOK, MqttOK
    <3>5. cache' \in [status : Etats \union {Absent}, mood : Etats \union {Absent}]
          BY <2>1, <2>5, <3>1 DEF TypeOK, PontOK
    <3>6. PontOK'
          BY <1>4, <3>3, <3>5 DEF handle_event, TypeOK, PontOK, Publies
    <3> QED
        BY <1>1, <1>2, <2>2, <2>3, <3>4, <3>6 DEF TypeOK
  <2> QED
      BY <2>4, <2>5
<1>5. CASE PrendreOrdre
  <2>1. Head(commands).data \in Etats
        BY <1>1, <1>5, ItemKinds DEF PrendreOrdre
  <2>2. FilOK' /\ FilInv'
        BY <1>5, <2>1 DEF PrendreOrdre, TypeOK, FilOK, FilInv, Lire
  <2>3. MqttOK' /\ PontOK'
        BY <1>5, Intact DEF PrendreOrdre
  <2>4. ComptesOK'
        BY <1>5 DEF Prendre, PrendreOrdre, TypeOK, ComptesOK
  <2> QED
      BY <1>1, <1>2, <2>2, <2>3, <2>4 DEF TypeOK
<1> QED
    BY <1>3, <1>4, <1>5 DEF Prendre

\* The group that an answer is of, and the answers it may have.
LEMMA Reponse ==
    ASSUME TypeOK, FilInv, already_on \/ Relu \/ refresh_all
    PROVE  \E group \in {"status", "mood"} :
              /\ refresh(group) /\ rep # Absent
              /\ group = (IF refresh_all THEN "status" ELSE "mood")
              /\ group = "status" => rep \in Etats \union {"injoignable"}
              /\ group = "mood" => rep \in Etats \union {"refus", "injoignable"}
<1>1. CASE refresh_all
    BY <1>1 DEF refresh_all, FilInv
<1>2. CASE ~refresh_all
    BY <1>2 DEF already_on, Relu, FilInv, Lire
<1> QED
    BY <1>1, <1>2

\* An answer is dealt with.
LEMMA TypeReponse ==
    ASSUME TypeOK, FilInv, already_on \/ Relu \/ refresh_all
    PROVE  TypeOK' /\ FilInv'
<1>1. PICK group \in {"status", "mood"} :
            /\ refresh(group) /\ rep # Absent
            /\ group = "status" => rep \in Etats \union {"injoignable"}
            /\ group = "mood" => rep \in Etats \union {"refus", "injoignable"}
    BY Reponse
<1>2. cache' \in [status : Etats \union {Absent}, mood : Etats \union {Absent}]
    BY <1>1, RefreshPublishes
<1>3. PontOK' /\ MqttOK'
  <2>1. CASE UNCHANGED <<published, mqtt>>
        BY <1>2, <2>1 DEF already_on, Relu, refresh_all, mqtt, TypeOK, PontOK, MqttOK
  <2>2. CASE \E d : APublier(d) /\ publish(d)
    <3>1. published' \in [Publies -> Valeurs] /\ retained' \in [Topics -> Valeurs]
          /\ UNCHANGED <<broker, accueil>>
          BY <2>2, PublishTyped
    <3> QED
        BY <1>2, <3>1 DEF already_on, Relu, refresh_all, TypeOK, PontOK, MqttOK, Publies
  <2> QED
      BY <1>1, <2>1, <2>2, RefreshPublishes
<1>4. FilOK' /\ FilInv'
  <2>1. CASE already_on
        BY <2>1 DEF already_on, TypeOK, FilOK, FilInv, Lire, Etats
  <2>2. CASE Relu \/ refresh_all
        BY <2>2 DEF Relu, refresh_all, Vers, TypeOK, FilOK, FilInv, Lire
  <2> QED
      BY <2>1, <2>2
<1>5. AppareilOK' /\ ProcessusOK' /\ ComptesOK' /\ commands' \in Seq(Items)
    BY Intact DEF already_on, Relu, refresh_all
<1> QED
    BY <1>3, <1>4, <1>5 DEF TypeOK

\* The other steps of the main thread.
LEMMA TypeTour ==
    ASSUME TypeOK, FilInv, execute \/ RelireDu \/ Poll \/ PasEncore
    PROVE  TypeOK' /\ FilInv'
<1>1. PontOK'
    BY DEF execute, RelireDu, Poll, PasEncore, TypeOK, PontOK, pont
<1>2. FilOK' /\ FilInv'
    BY DEF execute, RelireDu, Poll, PasEncore, Vers, TypeOK, FilOK, FilInv, Lire
<1>3. AppareilOK' /\ ProcessusOK' /\ MqttOK' /\ ComptesOK' /\ commands' \in Seq(Items)
    BY Intact DEF execute, RelireDu, Poll, PasEncore
<1> QED
    BY <1>1, <1>2, <1>3 DEF TypeOK

LEMMA TypeStep == TypeOK /\ FilInv /\ [Next]_vars => TypeOK' /\ FilInv'
<1> SUFFICES ASSUME TypeOK, FilInv, [Next]_vars PROVE TypeOK' /\ FilInv'
    OBVIOUS
<1>1. CASE UNCHANGED vars
  <2>1. AppareilOK' /\ ProcessusOK' /\ MqttOK' /\ PontOK' /\ FilOK' /\ FilInv' /\ ComptesOK'
        /\ commands' \in Seq(Items)
        BY <1>1, Intact DEF vars, fil
  <2> QED
      BY <2>1 DEF TypeOK
<1>2. CASE Next
    BY <1>2, TypeEnvironnement, TypeFiles, TypeDemandes, TypePrendre, TypeReponse, TypeTour
       DEF Next, Principal
<1> QED
    BY <1>1, <1>2

-----------------------------------------------------------------------------
(* What is published is shown.                                             *)

\* A queue that grows, or whose events become old, keeps its announcements.
LEMMA ShownQueue ==
    ASSUME PublishedIsShown, UNCHANGED <<published, retained, broker, accueil>>,
           \A i \in DOMAIN commands : i \in DOMAIN commands' /\ commands'[i].item = commands[i].item
    PROVE  PublishedIsShown'
BY DEF PublishedIsShown

LEMMA ShownInit == Init => PublishedIsShown
BY DEF Init, PublishedIsShown

LEMMA ShownStep == TypeOK /\ FilInv /\ PublishedIsShown /\ [Next]_vars => PublishedIsShown'
<1> SUFFICES ASSUME TypeOK, FilInv, PublishedIsShown, [Next]_vars PROVE PublishedIsShown'
    OBVIOUS
<1>1. CASE UNCHANGED vars
    BY <1>1 DEF vars, PublishedIsShown, mqtt, pont
<1>2. CASE Bouton \/ ServiceEnfin \/ DemanderCommande
  <2>1. CASE UNCHANGED commands
        BY <1>2, <2>1 DEF Bouton, ServiceEnfin, DemanderCommande, PublishedIsShown, mqtt, pont
  <2>2. CASE \E e \in Etats : Changer(e)
    <3>1. DOMAIN commands' = DOMAIN commands
          /\ \A i \in DOMAIN commands : commands'[i].item = commands[i].item
          BY <2>2, ChangerQueue DEF TypeOK
    <3> QED
        BY <1>2, <3>1, ShownQueue DEF Bouton, ServiceEnfin, DemanderCommande, mqtt, pont
  <2>3. UNCHANGED commands \/ \E e \in Etats : Changer(e)
    <3>1. CASE Bouton
          BY <3>1 DEF Bouton, Bouger
    <3>2. CASE ServiceEnfin
          BY <3>2 DEF ServiceEnfin, Bouger, TypeOK, ProcessusOK
    <3>3. CASE DemanderCommande
          BY <3>3 DEF DemanderCommande, FilInv
    <3> QED
        BY <1>2, <3>1, <3>2, <3>3
  <2> QED
      BY <2>1, <2>2, <2>3
<1>3. CASE PerdreLiaison \/ RetablirLiaison \/ Arreter \/ Demarrer \/ DemanderLecture
    BY <1>3 DEF PerdreLiaison, RetablirLiaison, Arreter, Demarrer, DemanderLecture,
                PublishedIsShown, mqtt, pont
<1>4. CASE Couper
    \* the link is down: nothing is promised
    BY <1>4 DEF Couper, PublishedIsShown
<1>5. CASE Joindre
    \* on_connect is still to be called
    BY <1>5 DEF Joindre, PublishedIsShown
<1>6. CASE listen_events
  <2>1. UNCHANGED commands \/ \E x : commands' = Append(commands, x)
        BY <1>6 DEF listen_events
  <2>2. \A i \in DOMAIN commands : i \in DOMAIN commands' /\ commands'[i].item = commands[i].item
        BY <2>1 DEF TypeOK
  <2> QED
      BY <1>6, <2>2, ShownQueue DEF listen_events, mqtt, pont
<1>7. CASE on_connect \/ on_message
  <2>1. CASE announce
    \* the announcement is in the queue: the bridge has still to forget
    <3>1. commands' = Append(commands, [item |-> "republish"])
          BY <2>1 DEF announce
    <3>2. Len(commands) + 1 \in DOMAIN commands'
          /\ commands'[Len(commands) + 1].item = "republish"
          BY <3>1 DEF TypeOK
    <3> QED
        BY <3>2 DEF PublishedIsShown
  <2>2. CASE \E o \in Etats : commands' = Append(commands, [item |-> "order", data |-> o])
    <3>1. \A i \in DOMAIN commands : i \in DOMAIN commands' /\ commands'[i].item = commands[i].item
          BY <2>2 DEF TypeOK
    <3>2. CASE UNCHANGED <<retained, accueil>>
          BY <1>7, <3>1, <3>2, ShownQueue DEF on_connect, on_message, pont
    <3> QED
        BY <1>7, <2>1, <3>2 DEF on_connect, on_message
  <2> QED
      BY <1>7, <2>1, <2>2 DEF on_connect, on_message
<1>8. CASE Prendre
  <2>1. commands # <<>> /\ commands' = Tail(commands) /\ commands \in Seq(Items)
        BY <1>8 DEF Prendre, TypeOK
  <2>2. CASE PrendreRepublish
    <3>1. \A t \in DOMAIN published' : published'[t] = Absent
          BY <2>2 DEF PrendreRepublish, Republier
    <3> QED
        BY <3>1 DEF PublishedIsShown
  <2>3. CASE \E d : APublier(d) /\ publish(d) /\ Head(commands).item # "republish"
        BY <2>1, <2>3, PublishShows
  <2>4. CASE UNCHANGED <<published, mqtt>> /\ Head(commands).item # "republish"
    <3>1. (\A i \in DOMAIN commands' : commands'[i].item # "republish")
             => \A i \in DOMAIN commands : commands[i].item # "republish"
          BY <2>1, <2>4, HeadOrTail
    <3> QED
        BY <2>4, <3>1 DEF PublishedIsShown, mqtt
  <2>5. CASE handle_event
    <3>1. Head(commands).item # "republish"
          BY <2>5 DEF handle_event
    <3>2. Head(commands).data \in Etats \union {"timer_ended"}
          BY <2>1, <2>5, ItemKinds DEF handle_event, Evenements
    <3>3. CASE Head(commands).data = "timer_ended"
          BY <2>4, <2>5, <3>1, <3>3 DEF handle_event
    <3>4. CASE Head(commands).data # "timer_ended"
      <4> DEFINE d == [mood |-> Head(commands).data]
      <4>1. publish(d)
            BY <2>5, <3>4 DEF handle_event
      <4>2. APublier(d)
            BY <3>2, <3>4 DEF APublier, Publies, Topics, Valeurs, Absent, Etats
      <4> HIDE DEF d
      <4> QED
          BY <2>3, <3>1, <4>1, <4>2
    <3> QED
        BY <3>3, <3>4
  <2>6. CASE PrendreOrdre
        BY <2>4, <2>6 DEF PrendreOrdre, pont
  <2> QED
      BY <1>8, <2>2, <2>5, <2>6 DEF Prendre
<1>9. CASE already_on \/ Relu \/ refresh_all
  <2>1. UNCHANGED commands
        BY <1>9 DEF already_on, Relu, refresh_all
  <2>2. CASE UNCHANGED <<published, mqtt>>
        BY <2>1, <2>2 DEF PublishedIsShown, mqtt
  <2>3. CASE \E d : APublier(d) /\ publish(d)
        BY <2>1, <2>3, PublishShows
  <2> QED
      BY <1>9, <2>2, <2>3, Reponse, RefreshPublishes
<1>10. CASE execute \/ RelireDu \/ Poll \/ PasEncore
    BY <1>10 DEF execute, RelireDu, Poll, PasEncore, PublishedIsShown, mqtt, pont
<1> QED
    BY <1>1, <1>2, <1>3, <1>4, <1>5, <1>6, <1>7, <1>8, <1>9, <1>10
       DEF Next, Environnement, Principal

-----------------------------------------------------------------------------
(* Answers and events of the lamp as it is.                                *)

LEMMA LuInit == Init => LuInv
BY DEF Init, LuInv, Lire, Absent

\* The lamp changes: what the queue holds of it is old.
LEMMA LuChanger ==
    ASSUME LuInv, NEW etat \in Etats, Changer(etat), commands \in Seq(Items)
    PROVE  \A i \in DOMAIN commands' :
              commands'[i] \in Evenements /\ ~commands'[i].vieux
                 => commands'[i].data \in {lampe', "timer_ended"}
BY ChangerQueue

LEMMA LuStep == TypeOK /\ FilInv /\ LuInv /\ [Next]_vars => LuInv'
<1> SUFFICES ASSUME TypeOK, FilInv, LuInv, [Next]_vars PROVE LuInv'
    OBVIOUS
<1>1. CASE UNCHANGED <<lampe, commands, fil, histoire>>
    BY <1>1 DEF LuInv, fil, histoire
<1>2. CASE Bouton \/ ServiceEnfin
  <2>1. CASE UNCHANGED <<lampe, commands, histoire>>
        BY <1>1, <1>2, <2>1 DEF Bouton, ServiceEnfin
  <2>2. CASE \E e \in Etats : Bouger(e)
        BY <2>2, LuChanger DEF Bouger, LuInv, TypeOK
  <2>3. CASE /\ tard \in Etats /\ Changer(tard)
             /\ depasse' = TRUE /\ surprise' = TRUE /\ UNCHANGED explique
        BY <2>3, LuChanger DEF LuInv, TypeOK
  <2> QED
      BY <1>2, <2>1, <2>2, <2>3 DEF Bouton, ServiceEnfin, TypeOK, ProcessusOK
<1>3. CASE PerdreLiaison \/ RetablirLiaison \/ Arreter \/ Demarrer \/ Couper \/ Joindre
    BY <1>1, <1>3 DEF PerdreLiaison, RetablirLiaison, Arreter, Demarrer, Couper, Joindre, appareil
<1>4. CASE listen_events \/ on_connect \/ on_message
  <2>1. UNCHANGED <<lampe, fil, histoire>>
        BY <1>4 DEF listen_events, on_connect, on_message, appareil
  <2>2. CASE UNCHANGED commands
        BY <1>1, <2>1, <2>2
  <2>3. CASE \E x \in Items : commands' = Append(commands, x)
                              /\ (x \in Evenements => x.data \in {lampe, "timer_ended"})
    <3>1. PICK x \in Items : commands' = Append(commands, x)
                             /\ (x \in Evenements => x.data \in {lampe, "timer_ended"})
          BY <2>3
    <3>2. \A i \in DOMAIN commands' : commands'[i] = x
                                      \/ (i \in DOMAIN commands /\ commands'[i] = commands[i])
          BY <3>1, AppendInside DEF TypeOK
    <3> QED
        BY <2>1, <3>1, <3>2 DEF LuInv, fil, histoire
  <2>4. CASE listen_events
    <3>1. \A d \in {lampe, "timer_ended"} : [item |-> "event", data |-> d, vieux |-> FALSE] \in Items
          BY DEF TypeOK, AppareilOK, Items, Evenements
    <3> QED
        BY <2>2, <2>3, <2>4, <3>1 DEF listen_events
  <2>5. CASE on_connect \/ on_message
    <3>1. /\ [item |-> "republish"] \in Items \ Evenements
          /\ \A o \in Etats : [item |-> "order", data |-> o] \in Items \ Evenements
          BY DEF Items, Evenements
    <3> QED
        BY <2>3, <2>5, <3>1 DEF on_connect, on_message, announce
  <2> QED
      BY <1>4, <2>4, <2>5
<1>5. CASE DemanderLecture
  <2>1. UNCHANGED <<lampe, commands, pc>> /\ (pc \in Lire => explique' \/ depasse' \/ rep' = lampe)
        /\ (pc = "on_lire" => surprise' \/ rep' = lampe)
        BY <1>5 DEF DemanderLecture, appareil, Lire
  <2> QED
      BY <2>1 DEF LuInv
<1>6. CASE DemanderCommande
  <2>1. pc' = "commande" /\ pc' \notin Lire
        BY <1>6 DEF DemanderCommande, Lire
  <2>2. CASE UNCHANGED <<lampe, commands>>
        BY <2>1, <2>2 DEF LuInv, Lire
  <2>3. CASE Changer(ordre)
        BY <1>6, <2>1, <2>3, LuChanger DEF DemanderCommande, FilInv, TypeOK, LuInv, Lire
  <2> QED
      BY <1>6, <2>2, <2>3 DEF DemanderCommande
<1>7. CASE Prendre
  <2>1. rep' = Absent /\ lampe' = lampe
        BY <1>7 DEF Prendre, PrendreRepublish, handle_event, PrendreOrdre, Vers, appareil
  <2>2. \A i \in DOMAIN commands' : i + 1 \in DOMAIN commands /\ commands'[i] = commands[i + 1]
        BY <1>7, TailInside DEF Prendre, TypeOK
  <2> QED
      BY <2>1, <2>2 DEF LuInv
<1>8. CASE already_on \/ Relu \/ refresh_all \/ execute \/ RelireDu \/ Poll \/ PasEncore
  <2>1. rep' = Absent /\ UNCHANGED <<lampe, commands>>
        BY <1>8 DEF already_on, Relu, refresh_all, execute, RelireDu, Poll, PasEncore, Vers, appareil
  <2> QED
      BY <2>1 DEF LuInv
<1> QED
    BY <1>1, <1>2, <1>3, <1>4, <1>5, <1>6, <1>7, <1>8
       DEF Next, Environnement, Principal, vars, appareil

-----------------------------------------------------------------------------
(* What the bridge commands is read again.                                 *)

LEMMA RereadInit == Init => CommandedIsReread
BY DEF Init, CommandedIsReread

LEMMA RereadStep ==
    TypeOK /\ FilInv /\ LuInv /\ CommandedIsReread /\ [Next]_vars => CommandedIsReread'
<1> SUFFICES ASSUME TypeOK, FilInv, LuInv, CommandedIsReread, [Next]_vars PROVE CommandedIsReread'
    OBVIOUS
<1>1. CASE UNCHANGED <<lampe, cache, refresh_due, explique, depasse, pc>>
    BY <1>1 DEF CommandedIsReread
<1>2. CASE explique' = TRUE \/ depasse' = TRUE
    BY <1>2 DEF CommandedIsReread
<1>3. CASE pc' \in {"commande"} \union Lire
    BY <1>3 DEF CommandedIsReread
<1>4. CASE Environnement \/ listen_events \/ on_connect \/ on_message \/ UNCHANGED vars
    BY <1>1, <1>2, <1>4 DEF Environnement, Bouton, ServiceEnfin, PerdreLiaison, RetablirLiaison,
          Arreter, Demarrer, Couper, Joindre, listen_events, on_connect, on_message, Bouger,
          vars, appareil, pont, fil, histoire
<1>5. CASE DemanderLecture
    BY <1>1, <1>3, <1>5 DEF DemanderLecture, appareil, pont, histoire
<1>6. CASE DemanderCommande
    BY <1>3, <1>6 DEF DemanderCommande
<1>7. CASE PrendreRepublish /\ Prendre
  <2>1. UNCHANGED <<lampe, cache, refresh_due, explique, depasse>> /\ pc = "file"
        BY <1>7 DEF Prendre, PrendreRepublish, appareil, histoire
  <2> QED
      BY <2>1 DEF CommandedIsReread, Lire
<1>8. CASE handle_event /\ Prendre
  <2>1. commands # <<>> /\ commands \in Seq(Items) /\ lampe' = lampe
        BY <1>8 DEF Prendre, TypeOK, appareil
  <2>2. Head(commands) \in Evenements /\ Head(commands) = commands[1] /\ 1 \in DOMAIN commands
        BY <1>8, <2>1, ItemKinds DEF handle_event
  <2>3. Head(commands).vieux \in BOOLEAN
        BY <2>2 DEF Evenements
  <2>4. CASE Head(commands).data = "timer_ended"
        BY <1>3, <1>8, <2>4 DEF handle_event, Vers, Lire
  <2>5. CASE Head(commands).data # "timer_ended" /\ Head(commands).vieux
        BY <1>2, <1>8, <2>5 DEF handle_event
  <2>6. CASE Head(commands).data # "timer_ended" /\ ~Head(commands).vieux
    <3>1. Head(commands).data = lampe
          BY <2>2, <2>6 DEF LuInv
    <3>2. cache'.mood = lampe'
          BY <1>8, <2>1, <2>6, <3>1 DEF handle_event, TypeOK, PontOK
    <3> QED
        BY <3>2 DEF CommandedIsReread
  <2> QED
      BY <2>3, <2>4, <2>5, <2>6
<1>9. CASE PrendreOrdre
    BY <1>3, <1>9 DEF PrendreOrdre, Lire
<1>10. CASE already_on \/ Relu
  <2>1. PICK group \in {"mood"} : refresh(group) /\ rep # Absent
                                  /\ rep \in Etats \union {"refus", "injoignable"}
        BY <1>10 DEF already_on, Relu, FilInv, Lire
  <2>2. cache'.mood = IF rep \in Etats THEN rep ELSE cache.mood
        BY <2>1, RefreshPublishes
  <2>3. explique \/ depasse \/ rep = lampe
        BY <1>10, <2>1 DEF already_on, Relu, LuInv, Lire
  <2>4. lampe' = lampe /\ explique' = explique /\ depasse' = depasse
        BY <1>10 DEF already_on, Relu, appareil, histoire
  <2> QED
      BY <2>2, <2>3, <2>4 DEF CommandedIsReread, TypeOK, AppareilOK
<1>11. CASE refresh_all
  <2>1. refresh("status") /\ rep # Absent /\ rep \in Etats \union {"injoignable"} /\ pc = "poll_status"
        BY <1>11 DEF refresh_all, FilInv
  <2>2. cache'.mood = cache.mood
        BY <2>1, RefreshPublishes
  <2> QED
      BY <1>11, <2>1, <2>2 DEF refresh_all, CommandedIsReread, Lire, appareil, histoire
<1>12. CASE execute
    BY <1>12 DEF execute, CommandedIsReread
<1>13. CASE RelireDu
    BY <1>3, <1>13 DEF RelireDu, Vers, Lire
<1>14. CASE Poll \/ PasEncore
    BY <1>14 DEF Poll, PasEncore, Tour, CommandedIsReread, Lire, appareil, histoire, pont
<1> QED
    BY <1>4, <1>5, <1>6, <1>7, <1>8, <1>9, <1>10, <1>11, <1>12, <1>13, <1>14
       DEF Next, Principal, Prendre

-----------------------------------------------------------------------------
(* The theorems.                                                           *)

\* The invariants together are inductive.
LEMMA Inductive == Spec => []IInv
<1>1. Init => IInv
    BY TypeInit, LuInit, ShownInit, RereadInit DEF IInv
<1>2. IInv /\ [Next]_vars => IInv'
    BY TypeStep, LuStep, ShownStep, RereadStep DEF IInv
<1> QED
    BY <1>1, <1>2, PTL DEF Spec

\* The variables have their types, whatever the disturbances.
THEOREM BridgeTyped == Spec => []TypeOK
<1>1. IInv => TypeOK
    BY DEF IInv
<1> QED
    BY <1>1, Inductive, PTL

\* publish never withholds a value that the broker has not been given: what the
\* bridge holds for published is retained, once its announcement is dealt with.
THEOREM BridgeShows == Spec => []PublishedIsShown
<1>1. IInv => PublishedIsShown
    BY DEF IInv
<1> QED
    BY <1>1, Inductive, PTL

\* After a command, answered or not, the cache holds the real lamp, or a reading
\* is due, or others explain the difference.
THEOREM BridgeRereads == Spec => []CommandedIsReread
<1>1. IInv => CommandedIsReread
    BY DEF IInv
<1> QED
    BY <1>1, Inductive, PTL

\* An ON is sent to the service for a dark lamp only, and dropped for a lamp
\* that is on only: the check that execute makes before it.
THEOREM BridgeKeepsScene == Spec => OnIsForADarkLamp
<1> DEFINE A == /\ pc # "commande" /\ pc' = "commande" /\ ordre' = "ON" => surprise' \/ lampe = "OFF"
                /\ pc = "on_lire" /\ pc' = "dues" => surprise \/ lampe = "ON"
<1>1. IInv /\ [Next]_vars => [A]_vars
  <2> SUFFICES ASSUME TypeOK, FilInv, LuInv, Next PROVE A
      BY DEF IInv
  <2>1. CASE already_on
    <3>1. refresh("mood") /\ rep # Absent /\ rep \in Etats \union {"refus", "injoignable"}
          BY <2>1 DEF already_on, FilInv, Lire
    <3>2. cache'.mood = IF rep \in Etats THEN rep ELSE cache.mood
          BY <3>1, RefreshPublishes
    <3>3. surprise \/ rep = lampe
          BY <2>1 DEF already_on, LuInv
    <3>4. lampe \in Etats /\ surprise' = surprise
          BY <2>1 DEF already_on, histoire, TypeOK, AppareilOK
    <3>5. pc' = IF cache'.mood = "ON" THEN "dues" ELSE "commande"
          BY <2>1 DEF already_on
    <3> QED
        BY <3>2, <3>3, <3>4, <3>5 DEF Etats
  <2>2. CASE PrendreOrdre /\ Prendre
        BY <2>2 DEF Prendre, PrendreOrdre
  <2>3. CASE (Environnement \/ listen_events \/ on_connect \/ on_message \/ DemanderLecture) /\ pc' = pc
        BY <2>3
  <2>4. Environnement \/ listen_events \/ on_connect \/ on_message \/ DemanderLecture => pc' = pc
        BY DEF Environnement, Bouton, ServiceEnfin, PerdreLiaison, RetablirLiaison, Arreter, Demarrer,
               Couper, Joindre, listen_events, on_connect, on_message, DemanderLecture, fil
  <2>5. CASE DemanderCommande
        BY <2>5 DEF DemanderCommande
  <2>6. CASE Prendre /\ (PrendreRepublish \/ handle_event)
        BY <2>6 DEF Prendre, PrendreRepublish, handle_event, Vers
  <2>7. CASE execute \/ RelireDu \/ Poll \/ PasEncore \/ refresh_all \/ Relu
        BY <2>7 DEF execute, RelireDu, Poll, PasEncore, refresh_all, Relu, Tour, Vers, Lire
  <2> QED
      BY <2>1, <2>2, <2>3, <2>4, <2>5, <2>6, <2>7 DEF Next, Principal, Prendre
<1> QED
    BY <1>1, Inductive, PTL DEF Spec, OnIsForADarkLamp

=============================================================================
