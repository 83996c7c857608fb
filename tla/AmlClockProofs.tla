--------------------------- MODULE AmlClockProofs ----------------------------
(***************************************************************************)
(* Proofs about AmlClock, for any offsets, delays and sets of commands: a   *)
(* time reported as known and not in doubt is the device's, and what was    *)
(* acknowledged to a client stays.                                         *)
(***************************************************************************)
EXTENDS AmlClock, SequenceTheorems, TLAPS

De == {"sienne", "tardive"}

\* What the device may be asked, and what it may answer.
Requetes ==
    [q : {"lire", "al_lire", "heure"}, val : {Rien}, de : De]
    \union [q : {"ecrire"}, val : Reglages, de : De] \union [q : {"al_ecrire"}, val : Alarme, de : De]
Trames ==
    [code : {"E2"}, val : Reglages, de : De, bon : BOOLEAN]
    \union [code : {"F1", "F2"}, val : {Rien}, de : De, bon : BOOLEAN]
    \union [code : {"F3"}, val : Alarme \union {Rien}, de : De, bon : BOOLEAN]

RadioOK == inbox \in Seq(Requetes) /\ wire \in Seq(Trames)

\* What the command in progress is about.
LieuInv ==
    /\ pc = "heure" => known
    /\ pc = "ecrire" => cible \in Reglages /\ suite \in {"autre", "auto", "heure", "rien"}
    /\ pc \in {"al_lire", "al_ecrire"} => suite \in {"a", "b"} /\ vise \in Bit /\ du[suite] = -1
    /\ pc = "al_ecrire" => cible \in Alarme /\ cible[suite] = vise

\* The request of the exchange is the last one, and what the command is about.
DemandeInv ==
    \A i \in DOMAIN inbox :
        inbox[i].de = "sienne" =>
            /\ i = Len(inbox)
            /\ pc # "libre" => inbox[i].q = pc
            /\ pc \in {"ecrire", "al_ecrire"} => inbox[i].val = cible

\* Its answer is the last one: the device has done it, nothing else waits there.
FaitInv ==
    \A i \in DOMAIN wire :
        wire[i].de = "sienne" =>
            /\ i = Len(wire) /\ inbox = <<>>
            /\ pc = "heure" /\ wire[i].bon /\ "heure" \notin touche =>
                  decal \in Int /\ vise - decal \in 0..passe
            /\ pc = "ecrire" /\ "autre" \notin touche => appareil.reglages.autre = cible.autre
            /\ pc = "al_ecrire" /\ suite \notin touche => appareil.alarme[suite] = vise

\* A time without a doubt: nothing on its way to the device changes it.
HeureInv ==
    ~doute => clock_set /\ Juste /\ \A i \in DOMAIN inbox : inbox[i].q # "heure"

\* A setting acknowledged is what was read, remembered, and is being written.
AutreInv ==
    du["autre"] # -1 =>
        /\ appareil.reglages.autre = du["autre"] /\ state.autre = du["autre"]
        /\ \A i \in DOMAIN inbox : inbox[i].q = "ecrire" => inbox[i].val.autre = du["autre"]
        /\ \A i \in DOMAIN wire : wire[i].code = "E2" => wire[i].val.autre = du["autre"]
        /\ pc = "ecrire" => cible.autre = du["autre"]

\* The same for a field of the alarm, which nothing remembers.
AlarmeInv ==
    \A c \in {"a", "b"} :
        du[c] # -1 =>
            /\ appareil.alarme[c] = du[c]
            /\ \A i \in DOMAIN inbox : inbox[i].q = "al_ecrire" => inbox[i].val[c] = du[c]
            /\ \A i \in DOMAIN wire :
                  wire[i].code = "F3" /\ wire[i].val # Rien => wire[i].val[c] = du[c]
            /\ pc = "al_ecrire" => cible[c] = du[c]

IInv ==
    /\ TypeOK /\ RadioOK /\ LieuInv /\ DemandeInv /\ FaitInv
    /\ HeureInv /\ AutreInv /\ AlarmeInv

-----------------------------------------------------------------------------
(* Requests and answers.                                                   *)

\* What is given up is still a request, or an answer, of the same thing.
LEMMA RequeteTardive ==
    ASSUME NEW r \in Requetes
    PROVE  /\ [r EXCEPT !.de = "tardive"] \in Requetes
           /\ [r EXCEPT !.de = "tardive"].q = r.q /\ [r EXCEPT !.de = "tardive"].val = r.val
           /\ [r EXCEPT !.de = "tardive"].de = "tardive"
BY DEF Requetes, De

LEMMA TrameTardive ==
    ASSUME NEW t \in Trames
    PROVE  /\ [t EXCEPT !.de = "tardive"] \in Trames
           /\ [t EXCEPT !.de = "tardive"].code = t.code /\ [t EXCEPT !.de = "tardive"].val = t.val
           /\ [t EXCEPT !.de = "tardive"].de = "tardive"
BY DEF Trames, De

LEMMA InboxTardive ==
    ASSUME RadioOK
    PROVE  /\ Tardives(inbox) \in Seq(Requetes) /\ Len(Tardives(inbox)) = Len(inbox)
           /\ DOMAIN Tardives(inbox) = DOMAIN inbox
           /\ \A i \in DOMAIN inbox :
                 /\ Tardives(inbox)[i].q = inbox[i].q /\ Tardives(inbox)[i].val = inbox[i].val
                 /\ Tardives(inbox)[i].de = "tardive"
<1>1. \A i \in DOMAIN inbox : inbox[i] \in Requetes
    BY DEF RadioOK
<1>2. \A i \in DOMAIN inbox : Tardives(inbox)[i] = [inbox[i] EXCEPT !.de = "tardive"]
    BY DEF Tardives
<1>3. PICK n \in Nat : DOMAIN inbox = 1..n /\ n = Len(inbox)
    BY DEF RadioOK
<1>4. Tardives(inbox) \in [1..n -> Requetes]
    BY <1>1, <1>3, RequeteTardive DEF Tardives
<1>5. Tardives(inbox) \in Seq(Requetes) /\ Len(Tardives(inbox)) = n /\ DOMAIN Tardives(inbox) = 1..n
    BY <1>3, <1>4
<1>6. ASSUME NEW i \in DOMAIN inbox
      PROVE  /\ Tardives(inbox)[i].q = inbox[i].q /\ Tardives(inbox)[i].val = inbox[i].val
             /\ Tardives(inbox)[i].de = "tardive"
  <2>1. inbox[i] \in Requetes /\ Tardives(inbox)[i] = [inbox[i] EXCEPT !.de = "tardive"]
        BY <1>1, <1>2
  <2> QED
      BY <2>1, RequeteTardive
<1> QED
    BY <1>3, <1>5, <1>6

LEMMA WireTardive ==
    ASSUME RadioOK
    PROVE  /\ Tardives(wire) \in Seq(Trames) /\ Len(Tardives(wire)) = Len(wire)
           /\ DOMAIN Tardives(wire) = DOMAIN wire
           /\ \A i \in DOMAIN wire :
                 /\ Tardives(wire)[i].code = wire[i].code /\ Tardives(wire)[i].val = wire[i].val
                 /\ Tardives(wire)[i].de = "tardive"
<1>1. \A i \in DOMAIN wire : wire[i] \in Trames
    BY DEF RadioOK
<1>2. \A i \in DOMAIN wire : Tardives(wire)[i] = [wire[i] EXCEPT !.de = "tardive"]
    BY DEF Tardives
<1>3. PICK n \in Nat : DOMAIN wire = 1..n /\ n = Len(wire)
    BY DEF RadioOK
<1>4. Tardives(wire) \in [1..n -> Trames]
    BY <1>1, <1>3, TrameTardive DEF Tardives
<1>5. Tardives(wire) \in Seq(Trames) /\ Len(Tardives(wire)) = n /\ DOMAIN Tardives(wire) = 1..n
    BY <1>3, <1>4
<1>6. ASSUME NEW i \in DOMAIN wire
      PROVE  /\ Tardives(wire)[i].code = wire[i].code /\ Tardives(wire)[i].val = wire[i].val
             /\ Tardives(wire)[i].de = "tardive"
  <2>1. wire[i] \in Trames /\ Tardives(wire)[i] = [wire[i] EXCEPT !.de = "tardive"]
        BY <1>1, <1>2
  <2> QED
      BY <2>1, TrameTardive
<1> QED
    BY <1>3, <1>5, <1>6

\* The tail and the head of a queue.
LEMMA Queue ==
    ASSUME NEW S, NEW s \in Seq(S), s # <<>>
    PROVE  /\ Head(s) = s[1] /\ 1 \in DOMAIN s /\ Head(s) \in S /\ Len(s) \in Nat \ {0}
           /\ Tail(s) \in Seq(S) /\ Len(Tail(s)) = Len(s) - 1
           /\ \A i \in DOMAIN Tail(s) : i + 1 \in DOMAIN s /\ Tail(s)[i] = s[i + 1] /\ i \in Nat
OBVIOUS

\* Something at the end of a queue.
LEMMA Ajout ==
    ASSUME NEW S, NEW s \in Seq(S), NEW x \in S
    PROVE  /\ Append(s, x) \in Seq(S) /\ Len(Append(s, x)) = Len(s) + 1
           /\ \A i \in DOMAIN Append(s, x) :
                 \/ i = Len(s) + 1 /\ Append(s, x)[i] = x
                 \/ i \in DOMAIN s /\ Append(s, x)[i] = s[i]
OBVIOUS

\* A request is sent: the others in the queue are late, no answer is waiting.
LEMMA EnvoyerRadio ==
    ASSUME RadioOK, NEW q, NEW val, Envoyer(q, val),
           [q |-> q, val |-> val, de |-> "sienne"] \in Requetes
    PROVE  /\ RadioOK' /\ Len(inbox') <= FileMax /\ wire' = <<>>
           /\ \A i \in DOMAIN inbox' :
                 \/ i = Len(inbox') /\ inbox'[i] = [q |-> q, val |-> val, de |-> "sienne"]
                 \/ /\ i \in DOMAIN inbox
                    /\ inbox'[i].q = inbox[i].q /\ inbox'[i].val = inbox[i].val
                    /\ inbox'[i].de = "tardive"
<1> DEFINE r == [q |-> q, val |-> val, de |-> "sienne"]
<1>1. inbox' = Append(Tardives(inbox), r) /\ wire' = <<>> /\ Len(inbox) < FileMax
    BY DEF Envoyer
<1> HIDE DEF r
<1>2. r \in Requetes
    BY DEF r
<1>3. inbox' \in Seq(Requetes) /\ Len(inbox') = Len(inbox) + 1
    BY <1>1, <1>2, InboxTardive, Ajout
<1>4. \A i \in DOMAIN inbox' : \/ i = Len(inbox') /\ inbox'[i] = r
                               \/ i \in DOMAIN inbox /\ inbox'[i] = Tardives(inbox)[i]
    BY <1>1, <1>2, <1>3, InboxTardive, Ajout
<1>5. Len(inbox') <= FileMax
    BY <1>1, <1>3, ClockAssumption DEF RadioOK
<1> QED
    BY <1>1, <1>3, <1>4, <1>5, InboxTardive DEF r, RadioOK

-----------------------------------------------------------------------------
(* What a request sent, and an exchange that ends, leave true.             *)

\* A request whose value agrees with what was acknowledged.
LEMMA EnvoyerInv ==
    ASSUME IInv, NEW q, NEW val, Envoyer(q, val),
           [q |-> q, val |-> val, de |-> "sienne"] \in Requetes,
           UNCHANGED <<appareil, decal, clock_set, clock_offset>>,
           q = "heure" => doute' = TRUE,
           q \in {"ecrire", "al_ecrire"} => val = cible',
           doute' \/ ~doute,
           \A c \in {"autre", "a", "b"} : du'[c] \in {-1, du[c]},
           du'["autre"] # -1 => state'.autre = du'["autre"]
                                /\ (q = "ecrire" => val.autre = du'["autre"]),
           q = "al_ecrire" => \A c \in {"a", "b"} : du'[c] # -1 => val[c] = du'[c]
    PROVE  /\ RadioOK' /\ Len(inbox') <= FileMax
           /\ DemandeInv' /\ FaitInv' /\ HeureInv' /\ AutreInv' /\ AlarmeInv'
<1> DEFINE r == [q |-> q, val |-> val, de |-> "sienne"]
<1>1. /\ RadioOK' /\ Len(inbox') <= FileMax /\ wire' = <<>>
      /\ \A i \in DOMAIN inbox' :
            \/ i = Len(inbox') /\ inbox'[i] = r
            \/ /\ i \in DOMAIN inbox
               /\ inbox'[i].q = inbox[i].q /\ inbox'[i].val = inbox[i].val
               /\ inbox'[i].de = "tardive"
    BY EnvoyerRadio DEF IInv
<1>2. r.q = q /\ r.val = val /\ r.de = "sienne" /\ pc' = q
    BY DEF Envoyer
<1> HIDE DEF r
<1>3. DemandeInv'
  <2> SUFFICES ASSUME NEW i \in DOMAIN inbox', inbox'[i].de = "sienne"
               PROVE  /\ i = Len(inbox')
                      /\ pc' # "libre" => inbox'[i].q = pc'
                      /\ pc' \in {"ecrire", "al_ecrire"} => inbox'[i].val = cible'
      BY DEF DemandeInv
  <2>1. i = Len(inbox') /\ inbox'[i] = r
        BY <1>1
  <2> QED
      BY <1>2, <2>1
<1>4. FaitInv'
    BY <1>1 DEF FaitInv
<1>5. HeureInv'
  <2>1. CASE q = "heure"
        BY <2>1 DEF HeureInv
  <2>2. CASE q # "heure" /\ ~doute'
    <3>1. ~doute
          BY <2>2
    <3>2. clock_set /\ Juste /\ \A i \in DOMAIN inbox : inbox[i].q # "heure"
          BY <3>1 DEF HeureInv, IInv
    <3>3. clock_set' /\ Juste'
          BY <3>2 DEF Juste
    <3>4. \A i \in DOMAIN inbox' : inbox'[i].q # "heure"
          BY <1>1, <1>2, <2>2, <3>2
    <3> QED
        BY <3>3, <3>4 DEF HeureInv
  <2> QED
      BY <2>1, <2>2 DEF HeureInv
<1>6. AutreInv'
  <2>1. CASE du'["autre"] = -1
        BY <2>1 DEF AutreInv
  <2>2. CASE du'["autre"] # -1
    <3>1. du'["autre"] = du["autre"]
          BY <2>2
    <3>2. /\ appareil.reglages.autre = du["autre"]
          /\ \A i \in DOMAIN inbox : inbox[i].q = "ecrire" => inbox[i].val.autre = du["autre"]
          BY <2>2, <3>1 DEF IInv, AutreInv
    <3>3. \A i \in DOMAIN inbox' : inbox'[i].q = "ecrire" => inbox'[i].val.autre = du'["autre"]
          BY <1>1, <1>2, <2>2, <3>1, <3>2
    <3>4. pc' = "ecrire" => cible'.autre = du'["autre"]
          BY <1>2, <2>2
    <3> QED
        BY <1>1, <2>2, <3>1, <3>2, <3>3, <3>4 DEF AutreInv
  <2> QED
      BY <2>1, <2>2
<1>7. AlarmeInv'
  <2> SUFFICES ASSUME NEW c \in {"a", "b"}, du'[c] # -1
               PROVE  /\ appareil'.alarme[c] = du'[c]
                      /\ \A i \in DOMAIN inbox' : inbox'[i].q = "al_ecrire" => inbox'[i].val[c] = du'[c]
                      /\ pc' = "al_ecrire" => cible'[c] = du'[c]
      BY <1>1 DEF AlarmeInv
  <2>1. du'[c] = du[c]
        OBVIOUS
  <2>2. /\ appareil.alarme[c] = du[c]
        /\ \A i \in DOMAIN inbox : inbox[i].q = "al_ecrire" => inbox[i].val[c] = du[c]
        BY <2>1 DEF IInv, AlarmeInv
  <2>3. \A i \in DOMAIN inbox' : inbox'[i].q = "al_ecrire" => inbox'[i].val[c] = du'[c]
        BY <1>1, <1>2, <2>1, <2>2
  <2>4. pc' = "al_ecrire" => cible'[c] = du'[c]
        BY <1>2
  <2> QED
      BY <2>1, <2>2, <2>3, <2>4
<1> QED
    BY <1>1, <1>3, <1>4, <1>5, <1>6, <1>7

\* The queues without some of their elements, or with some given up.
Moins ==
    /\ \A i \in DOMAIN inbox' : \E j \in DOMAIN inbox :
          /\ inbox'[i].q = inbox[j].q /\ inbox'[i].val = inbox[j].val
          /\ inbox'[i].de = "sienne" => inbox'[i] = inbox[j]
                                        /\ (j = Len(inbox) => i = Len(inbox'))
    /\ \A i \in DOMAIN wire' : \E j \in DOMAIN wire :
          /\ wire'[i].code = wire[j].code /\ wire'[i].val = wire[j].val
          /\ wire'[i].de = "sienne" => wire'[i] = wire[j]
                                       /\ (j = Len(wire) => i = Len(wire'))
    /\ inbox = <<>> => inbox' = <<>>

LEMMA MoinsTel ==
    ASSUME RadioOK, UNCHANGED radio
    PROVE  RadioOK' /\ Moins
BY DEF RadioOK, Moins, radio

LEMMA MoinsTardif ==
    ASSUME RadioOK, inbox' = Tardives(inbox), wire' = Tardives(wire)
    PROVE  RadioOK' /\ Moins /\ Len(inbox') = Len(inbox)
<1>1. RadioOK' /\ Len(inbox') = Len(inbox)
    BY InboxTardive, WireTardive DEF RadioOK
<1>2. \A i \in DOMAIN inbox' : /\ i \in DOMAIN inbox /\ inbox'[i].de = "tardive"
                               /\ inbox'[i].q = inbox[i].q /\ inbox'[i].val = inbox[i].val
    BY InboxTardive
<1>3. \A i \in DOMAIN wire' : /\ i \in DOMAIN wire /\ wire'[i].de = "tardive"
                              /\ wire'[i].code = wire[i].code /\ wire'[i].val = wire[i].val
    BY WireTardive
<1>4. inbox = <<>> => inbox' = <<>>
    BY DEF Tardives
<1> QED
    BY <1>1, <1>2, <1>3, <1>4 DEF Moins

LEMMA MoinsVide ==
    ASSUME inbox' = <<>>, wire' = <<>>
    PROVE  RadioOK' /\ Moins /\ Len(inbox') <= FileMax
BY ClockAssumption DEF RadioOK, Moins

LEMMA MoinsLue ==
    ASSUME RadioOK, wire # <<>>, wire' = Tail(wire), inbox' = inbox
    PROVE  RadioOK' /\ Moins
<1>1. /\ wire' \in Seq(Trames) /\ Len(wire') = Len(wire) - 1 /\ Len(wire) \in Nat
      /\ \A i \in DOMAIN wire' : i + 1 \in DOMAIN wire /\ wire'[i] = wire[i + 1] /\ i \in Nat
    BY Queue DEF RadioOK
<1>2. \A i \in DOMAIN wire' : i + 1 = Len(wire) => i = Len(wire')
    BY <1>1
<1> QED
    BY <1>1, <1>2 DEF RadioOK, Moins

LEMMA MoinsIgnoree ==
    ASSUME RadioOK, inbox # <<>>, inbox' = Tail(inbox), wire' = wire
    PROVE  RadioOK' /\ Moins /\ Len(inbox') <= Len(inbox)
<1>1. /\ inbox' \in Seq(Requetes) /\ Len(inbox') = Len(inbox) - 1 /\ Len(inbox) \in Nat
      /\ \A i \in DOMAIN inbox' : i + 1 \in DOMAIN inbox /\ inbox'[i] = inbox[i + 1] /\ i \in Nat
    BY Queue DEF RadioOK
<1>2. \A i \in DOMAIN inbox' : i + 1 = Len(inbox) => i = Len(inbox')
    BY <1>1
<1>3. Len(inbox') <= Len(inbox)
    BY <1>1
<1> QED
    BY <1>1, <1>2, <1>3 DEF RadioOK, Moins

\* The exchange goes on, or is over.
LEMMA MoinsDemande ==
    ASSUME IInv, Moins, UNCHANGED appareil, decal' = decal \/ pc' = "libre",
           pc' = "libre" \/ UNCHANGED <<pc, vise, cible, suite, touche>>,
           0..passe \subseteq 0..passe' \/ pc' = "libre"
    PROVE  DemandeInv' /\ FaitInv'
<1>1. DemandeInv'
  <2> SUFFICES ASSUME NEW i \in DOMAIN inbox', inbox'[i].de = "sienne"
               PROVE  /\ i = Len(inbox')
                      /\ pc' # "libre" => inbox'[i].q = pc'
                      /\ pc' \in {"ecrire", "al_ecrire"} => inbox'[i].val = cible'
      BY DEF DemandeInv
  <2>1. PICK j \in DOMAIN inbox : inbox'[i] = inbox[j] /\ (j = Len(inbox) => i = Len(inbox'))
        BY DEF Moins
  <2>2. /\ j = Len(inbox)
        /\ pc # "libre" => inbox[j].q = pc
        /\ pc \in {"ecrire", "al_ecrire"} => inbox[j].val = cible
        BY <2>1 DEF IInv, DemandeInv
  <2> QED
      BY <2>1, <2>2
<1>2. FaitInv'
  <2> SUFFICES ASSUME NEW i \in DOMAIN wire', wire'[i].de = "sienne"
               PROVE  /\ i = Len(wire') /\ inbox' = <<>>
                      /\ pc' = "heure" /\ wire'[i].bon /\ "heure" \notin touche' =>
                            decal' \in Int /\ vise' - decal' \in 0..passe'
                      /\ pc' = "ecrire" /\ "autre" \notin touche' =>
                            appareil'.reglages.autre = cible'.autre
                      /\ pc' = "al_ecrire" /\ suite' \notin touche' =>
                            appareil'.alarme[suite'] = vise'
      BY DEF FaitInv
  <2>1. PICK j \in DOMAIN wire : wire'[i] = wire[j] /\ (j = Len(wire) => i = Len(wire'))
        BY DEF Moins
  <2>2. /\ j = Len(wire) /\ inbox = <<>>
        /\ pc = "heure" /\ wire[j].bon /\ "heure" \notin touche =>
              decal \in Int /\ vise - decal \in 0..passe
        /\ pc = "ecrire" /\ "autre" \notin touche => appareil.reglages.autre = cible.autre
        /\ pc = "al_ecrire" /\ suite \notin touche => appareil.alarme[suite] = vise
        BY <2>1 DEF IInv, FaitInv
  <2>3. i = Len(wire') /\ inbox' = <<>>
        BY <2>1, <2>2 DEF Moins
  <2>4. CASE pc' = "libre"
        BY <2>3, <2>4
  <2>5. CASE pc' # "libre" /\ UNCHANGED <<pc, vise, cible, suite, touche>>
        BY <2>1, <2>2, <2>3, <2>5
  <2> QED
      BY <2>4, <2>5
<1> QED
    BY <1>1, <1>2

LEMMA MoinsHeure ==
    ASSUME IInv, Moins, UNCHANGED <<decal, clock_set, clock_offset>>, doute' \/ ~doute
    PROVE  HeureInv'
<1> SUFFICES ASSUME ~doute' PROVE clock_set' /\ Juste' /\ \A i \in DOMAIN inbox' : inbox'[i].q # "heure"
    BY DEF HeureInv
<1>1. clock_set /\ Juste /\ \A i \in DOMAIN inbox : inbox[i].q # "heure"
    BY DEF IInv, HeureInv
<1>2. clock_set' /\ Juste'
    BY <1>1 DEF Juste
<1> QED
    BY <1>1, <1>2 DEF Moins

LEMMA MoinsAutre ==
    ASSUME IInv, Moins, UNCHANGED appareil, du'["autre"] \in {-1, du["autre"]},
           du'["autre"] # -1 => state'.autre = du'["autre"],
           pc' = "libre" \/ UNCHANGED <<pc, cible>>
    PROVE  AutreInv'
<1> SUFFICES ASSUME du'["autre"] # -1
             PROVE  /\ appareil'.reglages.autre = du'["autre"]
                    /\ \A i \in DOMAIN inbox' :
                          inbox'[i].q = "ecrire" => inbox'[i].val.autre = du'["autre"]
                    /\ \A i \in DOMAIN wire' :
                          wire'[i].code = "E2" => wire'[i].val.autre = du'["autre"]
                    /\ pc' = "ecrire" => cible'.autre = du'["autre"]
    BY DEF AutreInv
<1>1. du'["autre"] = du["autre"] /\ AutreInv
    BY DEF IInv
<1>2. /\ appareil.reglages.autre = du["autre"]
      /\ \A i \in DOMAIN inbox : inbox[i].q = "ecrire" => inbox[i].val.autre = du["autre"]
      /\ \A i \in DOMAIN wire : wire[i].code = "E2" => wire[i].val.autre = du["autre"]
      /\ pc = "ecrire" => cible.autre = du["autre"]
    BY <1>1 DEF AutreInv
<1>3. \A i \in DOMAIN inbox' : inbox'[i].q = "ecrire" => inbox'[i].val.autre = du'["autre"]
    BY <1>1, <1>2 DEF Moins
<1>4. \A i \in DOMAIN wire' : wire'[i].code = "E2" => wire'[i].val.autre = du'["autre"]
    BY <1>1, <1>2 DEF Moins
<1> QED
    BY <1>1, <1>2, <1>3, <1>4

LEMMA MoinsAlarme ==
    ASSUME IInv, Moins, UNCHANGED appareil, \A c \in {"a", "b"} : du'[c] \in {-1, du[c]},
           pc' = "libre" \/ UNCHANGED <<pc, cible>>
    PROVE  AlarmeInv'
<1> SUFFICES ASSUME NEW c \in {"a", "b"}, du'[c] # -1
             PROVE  /\ appareil'.alarme[c] = du'[c]
                    /\ \A i \in DOMAIN inbox' :
                          inbox'[i].q = "al_ecrire" => inbox'[i].val[c] = du'[c]
                    /\ \A i \in DOMAIN wire' :
                          wire'[i].code = "F3" /\ wire'[i].val # Rien => wire'[i].val[c] = du'[c]
                    /\ pc' = "al_ecrire" => cible'[c] = du'[c]
    BY DEF AlarmeInv
<1>1. du'[c] = du[c] /\ AlarmeInv
    BY DEF IInv
<1>2. /\ appareil.alarme[c] = du[c]
      /\ \A i \in DOMAIN inbox : inbox[i].q = "al_ecrire" => inbox[i].val[c] = du[c]
      /\ \A i \in DOMAIN wire : wire[i].code = "F3" /\ wire[i].val # Rien => wire[i].val[c] = du[c]
      /\ pc = "al_ecrire" => cible[c] = du[c]
    BY <1>1 DEF AlarmeInv
<1>3. \A i \in DOMAIN inbox' : inbox'[i].q = "al_ecrire" => inbox'[i].val[c] = du'[c]
    BY <1>1, <1>2 DEF Moins
<1>4. \A i \in DOMAIN wire' : wire'[i].code = "F3" /\ wire'[i].val # Rien => wire'[i].val[c] = du'[c]
    BY <1>1, <1>2 DEF Moins
<1> QED
    BY <1>1, <1>2, <1>3, <1>4


-----------------------------------------------------------------------------
(* The first state.                                                        *)

LEMMA InitInv ==
    ASSUME Init
    PROVE  IInv
<1>1. TypeOK
  <2>1. jeu \in Jeux /\ appareil \in [reglages : Reglages, alarme : Alarme]
        BY DEF Init, Reglages, Alarme, Bit
  <2>2. state \in Reglages /\ passe \in 0..Delai /\ Len(inbox) <= FileMax
        BY ClockAssumption DEF Init, Reglages, Bit
  <2>3. du \in [{"autre", "a", "b"} -> -1..1]
        BY DEF Init
  <2>4. decal \in Int \union {Ailleurs} /\ cible \in Reglages \union Alarme \union {Rien}
        BY DEF Init
  <2>5. connected \/ (pc = "libre" /\ inbox = <<>> /\ wire = <<>>)
        BY DEF Init
  <2>6. clock_set => known
        BY DEF Init
  <2>7. /\ connected \in BOOLEAN /\ known \in BOOLEAN /\ clock_set \in BOOLEAN
        /\ echu \in BOOLEAN /\ patience \in BOOLEAN /\ doute \in BOOLEAN
        BY DEF Init
  <2>8. /\ clock_offset \in Int /\ vise \in Int /\ pc = "libre" /\ suite = "rien" /\ touche = {}
        BY DEF Init
  <2> QED
      BY <2>1, <2>2, <2>3, <2>4, <2>5, <2>6, <2>7, <2>8 DEF TypeOK
<1>2. RadioOK /\ LieuInv /\ DemandeInv /\ FaitInv /\ HeureInv
    BY DEF Init, RadioOK, LieuInv, DemandeInv, FaitInv, HeureInv
<1>3. AutreInv /\ AlarmeInv
    BY DEF Init, AutreInv, AlarmeInv
<1> QED
    BY <1>1, <1>2, <1>3 DEF IInv

-----------------------------------------------------------------------------
(* The buttons.                                                            *)

\* What the buttons changed since the exchange began is in touche.
LEMMA BoutonsRadio ==
    ASSUME IInv, UNCHANGED <<radio, programme>>, touche \subseteq touche',
           "heure" \in touche' \/ decal' = decal,
           "autre" \in touche' \/ appareil'.reglages.autre = appareil.reglages.autre,
           \A c \in {"a", "b"} : c \in touche' \/ appareil'.alarme[c] = appareil.alarme[c]
    PROVE  RadioOK' /\ DemandeInv' /\ FaitInv'
<1>1. UNCHANGED <<inbox, wire, pc, cible, vise, suite, passe>>
    BY DEF radio, programme, commande
<1>2. RadioOK' /\ DemandeInv'
    BY <1>1 DEF IInv, RadioOK, DemandeInv
<1>3. SUFFICES ASSUME NEW i \in DOMAIN wire, wire[i].de = "sienne"
               PROVE  /\ i = Len(wire) /\ inbox = <<>>
                      /\ pc = "heure" /\ wire[i].bon /\ "heure" \notin touche' =>
                            decal' \in Int /\ vise - decal' \in 0..passe
                      /\ pc = "ecrire" /\ "autre" \notin touche' =>
                            appareil'.reglages.autre = cible.autre
                      /\ pc = "al_ecrire" /\ suite \notin touche' =>
                            appareil'.alarme[suite] = vise
    BY <1>1, <1>2 DEF FaitInv
<1>4. /\ i = Len(wire) /\ inbox = <<>>
      /\ pc = "heure" /\ wire[i].bon /\ "heure" \notin touche =>
            decal \in Int /\ vise - decal \in 0..passe
      /\ pc = "ecrire" /\ "autre" \notin touche => appareil.reglages.autre = cible.autre
      /\ pc = "al_ecrire" /\ suite \notin touche => appareil.alarme[suite] = vise
    BY <1>3 DEF IInv, FaitInv
<1>5. pc = "al_ecrire" => suite \in {"a", "b"}
    BY DEF IInv, LieuInv
<1> QED
    BY <1>4, <1>5

\* What was acknowledged, and the time, are untouched or no longer promised.
LEMMA BoutonsPromesses ==
    ASSUME IInv, UNCHANGED <<radio, programme>>,
           doute' \/ (~doute /\ decal' = decal),
           du'["autre"] = -1 \/ /\ du'["autre"] = du["autre"]
                                /\ appareil'.reglages.autre = appareil.reglages.autre,
           \A c \in {"a", "b"} :
              du'[c] = -1 \/ (du'[c] = du[c] /\ appareil'.alarme[c] = appareil.alarme[c])
    PROVE  HeureInv' /\ AutreInv' /\ AlarmeInv'
<1>1. UNCHANGED <<inbox, wire, pc, cible, state, clock_set, clock_offset>>
    BY DEF radio, programme, commande, service, horloge
<1>2. HeureInv'
  <2>1. CASE doute'
        BY <2>1 DEF HeureInv
  <2>2. CASE ~doute /\ decal' = decal
        BY <1>1, <2>2 DEF IInv, HeureInv, Juste
  <2> QED
      BY <2>1, <2>2
<1>3. AutreInv'
    BY <1>1 DEF IInv, AutreInv
<1>4. AlarmeInv'
  <2> SUFFICES ASSUME NEW c \in {"a", "b"}, du'[c] # -1
               PROVE  /\ appareil'.alarme[c] = du'[c]
                      /\ \A i \in DOMAIN inbox :
                            inbox[i].q = "al_ecrire" => inbox[i].val[c] = du'[c]
                      /\ \A i \in DOMAIN wire :
                            wire[i].code = "F3" /\ wire[i].val # Rien => wire[i].val[c] = du'[c]
                      /\ pc = "al_ecrire" => cible[c] = du'[c]
      BY <1>1 DEF AlarmeInv
  <2>1. du'[c] = du[c] /\ appareil'.alarme[c] = appareil.alarme[c]
        OBVIOUS
  <2> QED
      BY <2>1 DEF IInv, AlarmeInv
<1> QED
    BY <1>2, <1>3, <1>4

\* The changes of the buttons.
LEMMA BoutonModeInv ==
    ASSUME IInv, BoutonMode
    PROVE  IInv'
<1>1. /\ UNCHANGED <<radio, programme, decal, touche, du, doute>>
      /\ appareil \in [reglages : Reglages, alarme : Alarme]
    BY DEF BoutonMode, temoins, IInv, TypeOK
<1>2. /\ appareil' \in [reglages : Reglages, alarme : Alarme]
      /\ appareil'.alarme = appareil.alarme
      /\ appareil'.reglages.autre = appareil.reglages.autre
    BY <1>1 DEF BoutonMode, Reglages, Bit
<1>3. TypeOK' /\ LieuInv'
    BY <1>1, <1>2 DEF IInv, TypeOK, LieuInv, radio, programme, service, horloge, commande
<1>4. doute' \/ (~doute /\ decal' = decal)
  <2>1. doute' = doute /\ decal' = decal
        BY <1>1
  <2> QED
      BY <2>1
<1>5. RadioOK' /\ DemandeInv' /\ FaitInv'
    BY <1>1, <1>2, BoutonsRadio
<1>6. HeureInv' /\ AutreInv' /\ AlarmeInv'
    BY <1>1, <1>2, <1>4, BoutonsPromesses
<1> QED
    BY <1>3, <1>5, <1>6 DEF IInv

LEMMA BoutonAutreInv ==
    ASSUME IInv, BoutonAutre
    PROVE  IInv'
<1>1. /\ UNCHANGED <<radio, programme, decal, doute>>
      /\ appareil \in [reglages : Reglages, alarme : Alarme]
      /\ touche' = touche \union {"autre"}
      /\ du \in [{"autre", "a", "b"} -> -1..1]
      /\ du' = [du EXCEPT !["autre"] = -1]
    BY DEF BoutonAutre, IInv, TypeOK
<1>2. /\ appareil' \in [reglages : Reglages, alarme : Alarme]
      /\ appareil'.alarme = appareil.alarme
    BY <1>1 DEF BoutonAutre, Reglages, Bit
<1>3. /\ du' \in [{"autre", "a", "b"} -> -1..1] /\ du'["autre"] = -1
      /\ du'["a"] = du["a"] /\ du'["b"] = du["b"]
    BY <1>1
<1>4. TypeOK' /\ LieuInv'
    BY <1>1, <1>2, <1>3 DEF IInv, TypeOK, LieuInv, radio, programme, service, horloge, commande
<1>5. doute' \/ (~doute /\ decal' = decal)
  <2>1. doute' = doute /\ decal' = decal
        BY <1>1
  <2> QED
      BY <2>1
<1>6. RadioOK' /\ DemandeInv' /\ FaitInv'
    BY <1>1, <1>2, BoutonsRadio
<1>7. HeureInv' /\ AutreInv' /\ AlarmeInv'
    BY <1>1, <1>2, <1>3, <1>5, BoutonsPromesses
<1> QED
    BY <1>4, <1>6, <1>7 DEF IInv

LEMMA BoutonHeureInv ==
    ASSUME IInv, BoutonHeure
    PROVE  IInv'
<1>1. /\ UNCHANGED <<radio, programme, appareil, du>>
      /\ touche' = touche \union {"heure"} /\ doute' = TRUE /\ decal' = Ailleurs
    BY DEF BoutonHeure
<1>2. TypeOK' /\ LieuInv'
    BY <1>1 DEF IInv, TypeOK, LieuInv, radio, programme, service, horloge, commande
<1>3. RadioOK' /\ DemandeInv' /\ FaitInv'
    BY <1>1, BoutonsRadio
<1>4. HeureInv' /\ AutreInv' /\ AlarmeInv'
    BY <1>1, BoutonsPromesses
<1> QED
    BY <1>2, <1>3, <1>4 DEF IInv

LEMMA BoutonAlarmeInv ==
    ASSUME IInv, BoutonAlarme
    PROVE  IInv'
<1>1. PICK c \in {"a", "b"} :
          /\ appareil' = [appareil EXCEPT !.alarme[c] = 1 - @]
          /\ touche' = touche \union {c}
          /\ du' = [du EXCEPT ![c] = -1]
    BY DEF BoutonAlarme
<1>2. /\ UNCHANGED <<radio, programme, decal, doute>>
      /\ appareil \in [reglages : Reglages, alarme : Alarme]
      /\ du \in [{"autre", "a", "b"} -> -1..1]
    BY DEF BoutonAlarme, IInv, TypeOK
<1>3. /\ appareil'.reglages = appareil.reglages
      /\ appareil'.alarme = [appareil.alarme EXCEPT ![c] = 1 - @]
      /\ appareil' = [reglages |-> appareil'.reglages, alarme |-> appareil'.alarme]
    BY <1>1, <1>2
<1>4. /\ appareil'.alarme \in Alarme
      /\ \A d \in {"a", "b"} : d # c => appareil'.alarme[d] = appareil.alarme[d]
    BY <1>1, <1>2, <1>3 DEF Alarme, Bit
<1>5. appareil' \in [reglages : Reglages, alarme : Alarme]
    BY <1>2, <1>3, <1>4
<1>6. /\ du' \in [{"autre", "a", "b"} -> -1..1] /\ du'[c] = -1 /\ du'["autre"] = du["autre"]
      /\ \A d \in {"a", "b"} : d # c => du'[d] = du[d]
    BY <1>1, <1>2
<1>7. TypeOK'
    BY <1>1, <1>2, <1>5, <1>6 DEF IInv, TypeOK, radio, programme, service, horloge, commande
<1>8. LieuInv'
  <2>1. UNCHANGED <<pc, known, suite, cible, vise>>
        BY <1>2 DEF programme, service, commande
  <2>2. pc \in {"al_lire", "al_ecrire"} => suite \in {"a", "b"} /\ du[suite] = -1
        BY DEF IInv, LieuInv
  <2>3. pc \in {"al_lire", "al_ecrire"} => du'[suite] = -1
        BY <1>6, <2>2
  <2> QED
      BY <2>1, <2>3 DEF IInv, LieuInv
<1>9. doute' \/ (~doute /\ decal' = decal)
  <2>1. doute' = doute /\ decal' = decal
        BY <1>2
  <2> QED
      BY <2>1
<1>10. RadioOK' /\ DemandeInv' /\ FaitInv'
    BY <1>1, <1>2, <1>3, <1>4, BoutonsRadio
<1>11. ASSUME NEW d \in {"a", "b"}
       PROVE  du'[d] = -1 \/ (du'[d] = du[d] /\ appareil'.alarme[d] = appareil.alarme[d])
  <2>1. CASE d = c
        BY <1>6, <2>1
  <2>2. CASE d # c
        BY <1>4, <1>6, <2>2
  <2> QED
      BY <2>1, <2>2
<1>12. HeureInv' /\ AutreInv' /\ AlarmeInv'
  <2>1. UNCHANGED <<radio, programme>>
        BY <1>2
  <2>2. du'["autre"] = du["autre"] /\ appareil'.reglages.autre = appareil.reglages.autre
        BY <1>3, <1>6
  <2> QED
      BY <1>9, <1>11, <2>1, <2>2, BoutonsPromesses
<1> QED
    BY <1>7, <1>8, <1>10, <1>12 DEF IInv


-----------------------------------------------------------------------------
(* The device answers.                                                     *)

\* What it may do with a request r, and the answer t.
Traite(r, t) ==
    \/ /\ r.q = "lire" /\ t.code = "E2" /\ t.val = appareil.reglages
       /\ UNCHANGED <<appareil, decal>>
    \/ /\ r.q = "al_lire" /\ t.code = "F3" /\ t.val = appareil.alarme
       /\ UNCHANGED <<appareil, decal>>
    \/ /\ r.q = "ecrire" /\ t.code = "F2" /\ r.val \in Reglages
       /\ appareil' = [appareil EXCEPT !.reglages = r.val] /\ UNCHANGED decal
    \/ /\ r.q = "al_ecrire" /\ t.code = "F3" /\ t.val = Rien /\ r.val \in Alarme
       /\ appareil' = [appareil EXCEPT !.alarme = r.val] /\ UNCHANGED decal
    \/ /\ r.q = "heure" /\ t.code = "F1"
       /\ appareil' = appareil /\ decal' \in Int \union {Ailleurs}
       /\ t.bon /\ r.de = "sienne" /\ pc = "heure" => decal' = vise - passe

LEMMA AppareilTraite ==
    ASSUME IInv, AppareilRepond
    PROVE  \E t \in Trames : /\ t.de = Head(inbox).de /\ wire' = Append(wire, t)
                             /\ Traite(Head(inbox), t)
<1> DEFINE r == Head(inbox)
           T(val, bon) == [code |-> Reponse(r.q), val |-> val, de |-> r.de, bon |-> bon]
<1>1. /\ r \in Requetes /\ r.de \in De
      /\ appareil.reglages \in Reglages /\ appareil.alarme \in Alarme
      /\ appareil.reglages.time \in Bit /\ passe \in Int /\ decal \in Int \union {Ailleurs}
  <2>1. r \in Requetes
        BY Queue DEF AppareilRepond, IInv, RadioOK
  <2>2. r.de \in De
        BY <2>1 DEF Requetes
  <2>3. appareil \in [reglages : Reglages, alarme : Alarme] /\ passe \in 0..Delai
        BY DEF IInv, TypeOK
  <2>4. decal \in Int \union {Ailleurs}
        BY DEF IInv, TypeOK
  <2> QED
      BY <2>1, <2>2, <2>3, <2>4, ClockAssumption DEF Reglages
<1>2. \A val, bon : /\ T(val, bon).code = Reponse(r.q) /\ T(val, bon).val = val
                    /\ T(val, bon).de = r.de /\ T(val, bon).bon = bon
    OBVIOUS
<1>3. \A val, bon : Repond(val, bon) => wire' = Append(wire, T(val, bon))
    BY DEF Repond
<1>4. CASE r.q = "lire" /\ Repond(appareil.reglages, TRUE) /\ UNCHANGED <<appareil, decal>>
  <2>1. Reponse(r.q) = "E2"
        BY <1>4 DEF Reponse
  <2>2. T(appareil.reglages, TRUE) \in Trames
        BY <1>1, <2>1 DEF Trames
  <2> HIDE DEF T
  <2>3. Traite(r, T(appareil.reglages, TRUE))
        BY <1>2, <1>4, <2>1 DEF Traite
  <2> QED
      BY <1>2, <1>3, <1>4, <2>2, <2>3
<1>5. CASE r.q = "al_lire" /\ Repond(appareil.alarme, TRUE) /\ UNCHANGED <<appareil, decal>>
  <2>1. Reponse(r.q) = "F3"
        BY <1>5 DEF Reponse
  <2>2. T(appareil.alarme, TRUE) \in Trames
        BY <1>1, <2>1 DEF Trames
  <2> HIDE DEF T
  <2>3. Traite(r, T(appareil.alarme, TRUE))
        BY <1>2, <1>5, <2>1 DEF Traite
  <2> QED
      BY <1>2, <1>3, <1>5, <2>2, <2>3
<1>6. CASE /\ r.q = "ecrire" /\ Repond(Rien, TRUE)
           /\ appareil' = [appareil EXCEPT !.reglages = r.val] /\ UNCHANGED decal
  <2>1. Reponse(r.q) = "F2"
        BY <1>6 DEF Reponse
  <2>2. T(Rien, TRUE) \in Trames
        BY <1>1, <2>1 DEF Trames
  <2>3. r.val \in Reglages
        BY <1>1, <1>6 DEF Requetes
  <2> HIDE DEF T
  <2>4. Traite(r, T(Rien, TRUE))
        BY <1>2, <1>6, <2>1, <2>3 DEF Traite
  <2> QED
      BY <1>2, <1>3, <1>6, <2>2, <2>4
<1>7. CASE /\ r.q = "al_ecrire" /\ Repond(Rien, TRUE)
           /\ appareil' = [appareil EXCEPT !.alarme = r.val] /\ UNCHANGED decal
  <2>1. Reponse(r.q) = "F3"
        BY <1>7 DEF Reponse
  <2>2. T(Rien, TRUE) \in Trames
        BY <1>1, <2>1 DEF Trames
  <2>3. r.val \in Alarme
        BY <1>1, <1>7 DEF Requetes
  <2> HIDE DEF T
  <2>4. Traite(r, T(Rien, TRUE))
        BY <1>2, <1>7, <2>1, <2>3 DEF Traite
  <2> QED
      BY <1>2, <1>3, <1>7, <2>2, <2>4
<1>8. CASE /\ r.q = "heure" /\ Repond(Rien, appareil.reglages.time = 0) /\ UNCHANGED appareil
           /\ decal' = IF appareil.reglages.time # 0 THEN decal
                       ELSE IF r.de = "sienne" /\ pc = "heure" THEN vise - passe ELSE Ailleurs
  <2>1. Reponse(r.q) = "F1"
        BY <1>8 DEF Reponse
  <2>2. PICK b \in BOOLEAN : b <=> appareil.reglages.time = 0
        OBVIOUS
  <2>3. (appareil.reglages.time = 0) = b
        BY <2>2
  <2>4. T(Rien, b) \in Trames
        BY <1>1, <2>1 DEF Trames
  <2>5. vise \in Int
        BY DEF IInv, TypeOK
  <2>6. decal' \in Int \union {Ailleurs}
        BY <1>1, <1>8, <2>5
  <2>7. b /\ r.de = "sienne" /\ pc = "heure" => decal' = vise - passe
        BY <1>8, <2>2
  <2>8. Repond(Rien, b)
        BY <1>8, <2>3
  <2> HIDE DEF T
  <2>9. Traite(r, T(Rien, b))
        BY <1>2, <1>8, <2>1, <2>6, <2>7 DEF Traite
  <2> QED
      BY <1>2, <1>3, <2>4, <2>8, <2>9
<1> QED
    BY <1>4, <1>5, <1>6, <1>7, <1>8 DEF AppareilRepond

LEMMA AppareilRepondInv ==
    ASSUME IInv, AppareilRepond
    PROVE  IInv'
<1> DEFINE r == Head(inbox)
<1>1. PICK t \in Trames : t.de = r.de /\ wire' = Append(wire, t) /\ Traite(r, t)
    BY AppareilTraite
<1>2. /\ inbox # <<>> /\ inbox' = Tail(inbox)
      /\ UNCHANGED <<jeu, connected, state, known, clock_set, clock_offset, echu, patience,
                     pc, cible, vise, suite, passe, touche, du, doute>>
    BY DEF AppareilRepond, Repond, programme, service, horloge, commande, temoins
<1>3. /\ r = inbox[1] /\ 1 \in DOMAIN inbox /\ Len(inbox) \in Nat \ {0}
      /\ inbox' \in Seq(Requetes) /\ Len(inbox') = Len(inbox) - 1
      /\ \A i \in DOMAIN inbox' : i + 1 \in DOMAIN inbox /\ inbox'[i] = inbox[i + 1] /\ i \in Nat
    BY <1>2, Queue DEF IInv, RadioOK
<1>4. /\ wire' \in Seq(Trames) /\ Len(wire') = Len(wire) + 1
      /\ \A i \in DOMAIN wire' : \/ i = Len(wire') /\ wire'[i] = t
                                 \/ i \in DOMAIN wire /\ wire'[i] = wire[i]
    BY <1>1, Ajout DEF IInv, RadioOK
<1> HIDE DEF r
<1>5. RadioOK'
    BY <1>3, <1>4 DEF RadioOK
<1>6. /\ appareil \in [reglages : Reglages, alarme : Alarme]
      /\ appareil' \in [reglages : Reglages, alarme : Alarme]
  <2>1. appareil \in [reglages : Reglages, alarme : Alarme]
        BY DEF IInv, TypeOK
  <2> QED
      BY <1>1, <2>1 DEF Traite
<1>7. decal' \in Int \union {Ailleurs}
  <2>1. decal \in Int \union {Ailleurs}
        BY DEF IInv, TypeOK
  <2> QED
      BY <1>1, <2>1 DEF Traite
<1>8. TypeOK'
  <2>1. Len(inbox') <= FileMax
    <3>1. Len(inbox) <= FileMax
          BY DEF IInv, TypeOK
    <3> QED
        BY <1>3, <3>1, ClockAssumption
  <2>2. connected'
        BY <1>2 DEF IInv, TypeOK
  <2> QED
      BY <1>2, <1>6, <1>7, <2>1, <2>2 DEF IInv, TypeOK
<1>9. LieuInv'
    BY <1>2 DEF IInv, LieuInv
<1>10. DemandeInv'
  <2> SUFFICES ASSUME NEW i \in DOMAIN inbox', inbox'[i].de = "sienne"
               PROVE  /\ i = Len(inbox')
                      /\ pc # "libre" => inbox'[i].q = pc
                      /\ pc \in {"ecrire", "al_ecrire"} => inbox'[i].val = cible
      BY <1>2 DEF DemandeInv
  <2>1. i + 1 \in DOMAIN inbox /\ inbox'[i] = inbox[i + 1] /\ i \in Nat
        BY <1>3
  <2>2. /\ i + 1 = Len(inbox)
        /\ pc # "libre" => inbox[i + 1].q = pc
        /\ pc \in {"ecrire", "al_ecrire"} => inbox[i + 1].val = cible
        BY <2>1 DEF IInv, DemandeInv
  <2>3. i = Len(inbox')
        BY <1>3, <2>1, <2>2
  <2> QED
      BY <2>1, <2>2, <2>3
<1>11. FaitInv'
  <2> SUFFICES ASSUME NEW i \in DOMAIN wire', wire'[i].de = "sienne"
               PROVE  /\ i = Len(wire') /\ inbox' = <<>>
                      /\ pc = "heure" /\ wire'[i].bon /\ "heure" \notin touche =>
                            decal' \in Int /\ vise - decal' \in 0..passe
                      /\ pc = "ecrire" /\ "autre" \notin touche =>
                            appareil'.reglages.autre = cible.autre
                      /\ pc = "al_ecrire" /\ suite \notin touche =>
                            appareil'.alarme[suite] = vise
      BY <1>2 DEF FaitInv
  <2>1. CASE i \in DOMAIN wire /\ wire'[i] = wire[i]
        BY <1>2, <2>1 DEF IInv, FaitInv
  <2>2. CASE i = Len(wire') /\ wire'[i] = t
    <3>1. r.de = "sienne"
          BY <1>1, <2>2
    <3>2. /\ 1 = Len(inbox)
          /\ pc # "libre" => r.q = pc
          /\ pc \in {"ecrire", "al_ecrire"} => r.val = cible
          BY <1>3, <3>1 DEF IInv, DemandeInv
    <3>3. inbox' = <<>>
      <4>1. Len(inbox') = Len(inbox) - 1 /\ inbox' \in Seq(Requetes)
            BY <1>3
      <4>2. Len(inbox) = 1
            BY <3>2
      <4>3. Len(inbox') = 0
            BY <4>1, <4>2
      <4> QED
          BY <4>1, <4>3, EmptySeq
    <3>4. ASSUME pc = "heure", t.bon
          PROVE  decal' \in Int /\ vise - decal' \in 0..passe
      <4>1. decal' = vise - passe
            BY <1>1, <3>1, <3>2, <3>4 DEF Traite
      <4>2. vise \in Int /\ passe \in Nat
            BY ClockAssumption DEF IInv, TypeOK
      <4> QED
          BY <4>1, <4>2
    <3>5. ASSUME pc = "ecrire"
          PROVE  appareil'.reglages.autre = cible.autre
          BY <1>1, <1>6, <3>2, <3>5 DEF Traite
    <3>6. ASSUME pc = "al_ecrire"
          PROVE  appareil'.alarme[suite] = vise
      <4>1. appareil'.alarme = cible
            BY <1>1, <1>6, <3>2, <3>6 DEF Traite
      <4> QED
          BY <3>6, <4>1 DEF IInv, LieuInv
    <3> QED
        BY <2>2, <3>3, <3>4, <3>5, <3>6
  <2> QED
      BY <1>4, <2>1, <2>2
<1>12. HeureInv'
  <2> SUFFICES ASSUME ~doute
               PROVE  clock_set' /\ Juste' /\ \A i \in DOMAIN inbox' : inbox'[i].q # "heure"
      BY <1>2 DEF HeureInv
  <2>1. clock_set /\ Juste /\ \A i \in DOMAIN inbox : inbox[i].q # "heure"
        BY DEF IInv, HeureInv
  <2>2. r.q # "heure"
        BY <1>3, <2>1
  <2>3. decal' = decal
        BY <1>1, <2>2 DEF Traite
  <2>4. clock_set' /\ Juste'
        BY <1>2, <2>1, <2>3 DEF Juste
  <2>5. \A i \in DOMAIN inbox' : inbox'[i].q # "heure"
        BY <1>3, <2>1
  <2> QED
      BY <2>4, <2>5
<1>13. AutreInv'
  <2> SUFFICES ASSUME du["autre"] # -1
               PROVE  /\ appareil'.reglages.autre = du["autre"] /\ state.autre = du["autre"]
                      /\ \A i \in DOMAIN inbox' :
                            inbox'[i].q = "ecrire" => inbox'[i].val.autre = du["autre"]
                      /\ \A i \in DOMAIN wire' :
                            wire'[i].code = "E2" => wire'[i].val.autre = du["autre"]
                      /\ pc = "ecrire" => cible.autre = du["autre"]
      BY <1>2 DEF AutreInv
  <2>1. /\ appareil.reglages.autre = du["autre"] /\ state.autre = du["autre"]
        /\ \A i \in DOMAIN inbox : inbox[i].q = "ecrire" => inbox[i].val.autre = du["autre"]
        /\ \A i \in DOMAIN wire : wire[i].code = "E2" => wire[i].val.autre = du["autre"]
        /\ pc = "ecrire" => cible.autre = du["autre"]
        BY DEF IInv, AutreInv
  <2>2. r.q = "ecrire" => r.val.autre = du["autre"]
        BY <1>3, <2>1
  <2>3. appareil'.reglages.autre = du["autre"]
        BY <1>1, <1>6, <2>1, <2>2 DEF Traite
  <2>4. t.code = "E2" => t.val.autre = du["autre"]
        BY <1>1, <2>1 DEF Traite
  <2>5. \A i \in DOMAIN wire' : wire'[i].code = "E2" => wire'[i].val.autre = du["autre"]
        BY <1>4, <2>1, <2>4
  <2>6. \A i \in DOMAIN inbox' : inbox'[i].q = "ecrire" => inbox'[i].val.autre = du["autre"]
        BY <1>3, <2>1
  <2> QED
      BY <2>1, <2>3, <2>5, <2>6
<1>14. AlarmeInv'
  <2> SUFFICES ASSUME NEW c \in {"a", "b"}, du[c] # -1
               PROVE  /\ appareil'.alarme[c] = du[c]
                      /\ \A i \in DOMAIN inbox' :
                            inbox'[i].q = "al_ecrire" => inbox'[i].val[c] = du[c]
                      /\ \A i \in DOMAIN wire' :
                            wire'[i].code = "F3" /\ wire'[i].val # Rien => wire'[i].val[c] = du[c]
                      /\ pc = "al_ecrire" => cible[c] = du[c]
      BY <1>2 DEF AlarmeInv
  <2>1. /\ appareil.alarme[c] = du[c]
        /\ \A i \in DOMAIN inbox : inbox[i].q = "al_ecrire" => inbox[i].val[c] = du[c]
        /\ \A i \in DOMAIN wire :
              wire[i].code = "F3" /\ wire[i].val # Rien => wire[i].val[c] = du[c]
        /\ pc = "al_ecrire" => cible[c] = du[c]
        BY DEF IInv, AlarmeInv
  <2>2. r.q = "al_ecrire" => r.val[c] = du[c]
        BY <1>3, <2>1
  <2>3. appareil'.alarme[c] = du[c]
        BY <1>1, <1>6, <2>1, <2>2 DEF Traite
  <2>4. t.code = "F3" /\ t.val # Rien => t.val[c] = du[c]
        BY <1>1, <2>1 DEF Traite
  <2>5. \A i \in DOMAIN wire' :
            wire'[i].code = "F3" /\ wire'[i].val # Rien => wire'[i].val[c] = du[c]
        BY <1>4, <2>1, <2>4
  <2>6. \A i \in DOMAIN inbox' : inbox'[i].q = "al_ecrire" => inbox'[i].val[c] = du[c]
        BY <1>3, <2>1
  <2> QED
      BY <2>1, <2>3, <2>5, <2>6
<1> QED
    BY <1>5, <1>8, <1>9, <1>10, <1>11, <1>12, <1>13, <1>14 DEF IInv


-----------------------------------------------------------------------------
(* Steps that send nothing.                                                *)

\* A doubt that is kept.
LEMMA DouteTel ==
    ASSUME UNCHANGED doute
    PROVE  doute' \/ ~doute
<1>1. doute' = doute
    OBVIOUS
<1> QED
    BY <1>1

\* Nothing is sent: the exchange goes on, or is over.
LEMMA MoinsInv ==
    ASSUME IInv, Moins, UNCHANGED <<appareil, decal, clock_set, clock_offset, du, doute>>,
           pc' = "libre" \/ UNCHANGED <<pc, vise, cible, suite, touche>>,
           0..passe \subseteq 0..passe' \/ pc' = "libre",
           known => known', du["autre"] # -1 => state'.autre = du["autre"]
    PROVE  LieuInv' /\ DemandeInv' /\ FaitInv' /\ HeureInv' /\ AutreInv' /\ AlarmeInv'
<1>1. LieuInv'
  <2>1. CASE pc' = "libre"
        BY <2>1 DEF LieuInv
  <2>2. CASE UNCHANGED <<pc, vise, cible, suite, touche>>
        BY <2>2 DEF IInv, LieuInv
  <2> QED
      BY <2>1, <2>2
<1>2. DemandeInv' /\ FaitInv'
    BY MoinsDemande
<1>3. HeureInv'
    BY DouteTel, MoinsHeure
<1>4. du'["autre"] \in {-1, du["autre"]} /\ \A c \in {"a", "b"} : du'[c] \in {-1, du[c]}
    OBVIOUS
<1>5. pc' = "libre" \/ UNCHANGED <<pc, cible>>
    OBVIOUS
<1>6. AutreInv'
    BY <1>4, <1>5, MoinsAutre
<1>7. AlarmeInv'
    BY <1>4, <1>5, MoinsAlarme
<1> QED
    BY <1>1, <1>2, <1>3, <1>6, <1>7

\* The same when the settings remembered have not changed.
LEMMA MoinsEtat ==
    ASSUME IInv, Moins, UNCHANGED <<appareil, decal, clock_set, clock_offset, du, doute, service>>,
           pc' = "libre" \/ UNCHANGED <<pc, vise, cible, suite, touche>>,
           0..passe \subseteq 0..passe' \/ pc' = "libre"
    PROVE  LieuInv' /\ DemandeInv' /\ FaitInv' /\ HeureInv' /\ AutreInv' /\ AlarmeInv'
<1>1. state' = state /\ (known => known')
    BY DEF service
<1>2. du["autre"] # -1 => state'.autre = du["autre"]
    BY <1>1 DEF IInv, AutreInv
<1> QED
    BY <1>1, <1>2, MoinsInv

LEMMA AppareilIgnoreInv ==
    ASSUME IInv, AppareilIgnore
    PROVE  IInv'
<1>1. /\ inbox # <<>> /\ inbox' = Tail(inbox)
      /\ UNCHANGED <<jeu, appareil, decal, wire, connected, state, known, clock_set, clock_offset,
                     echu, patience, pc, cible, vise, suite, passe, touche, du, doute>>
    BY DEF AppareilIgnore, programme, service, horloge, commande, temoins
<1>2. RadioOK' /\ Moins /\ Len(inbox') <= Len(inbox)
    BY <1>1, MoinsIgnoree DEF IInv
<1>3. TypeOK'
  <2>1. Len(inbox') \in Int /\ Len(inbox) \in Int
        BY <1>2 DEF IInv, RadioOK
  <2>2. Len(inbox') <= FileMax
        BY <1>2, <2>1, ClockAssumption DEF IInv, TypeOK
  <2>3. connected
        BY <1>1 DEF IInv, TypeOK
  <2> QED
      BY <1>1, <2>2, <2>3 DEF IInv, TypeOK
<1>4. LieuInv' /\ DemandeInv' /\ FaitInv' /\ HeureInv' /\ AutreInv' /\ AlarmeInv'
    BY <1>1, <1>2, MoinsEtat DEF service
<1> QED
    BY <1>2, <1>3, <1>4 DEF IInv

LEMMA EcarterInv ==
    ASSUME IInv, Ecarter
    PROVE  IInv'
<1>1. /\ wire # <<>> /\ wire' = Tail(wire)
      /\ UNCHANGED <<jeu, appareil, decal, inbox, connected, state, known, clock_set, clock_offset,
                     echu, patience, pc, cible, vise, suite, passe, touche, du, doute>>
    BY DEF Ecarter, service, horloge, commande, temoins
<1>2. RadioOK' /\ Moins
    BY <1>1, MoinsLue DEF IInv
<1>3. TypeOK'
    BY <1>1 DEF IInv, TypeOK
<1>4. LieuInv' /\ DemandeInv' /\ FaitInv' /\ HeureInv' /\ AutreInv' /\ AlarmeInv'
    BY <1>1, <1>2, MoinsEtat DEF service
<1> QED
    BY <1>2, <1>3, <1>4 DEF IInv

\* The end of a command leaves nothing of it.
LEMMA FinType ==
    ASSUME TypeOK, pc' = "libre", suite' = "rien", cible' = Rien, vise' = 0, passe' = 0
    PROVE  /\ pc' \in {"libre", "lire", "ecrire", "heure", "al_lire", "al_ecrire"}
           /\ cible' \in Reglages \union Alarme \union {Rien}
           /\ vise' \in Int /\ passe' \in 0..Delai
           /\ suite' \in {"rien", "autre", "auto", "heure", "entretien", "a", "b"}
BY ClockAssumption

LEMMA ExpirerInv ==
    ASSUME IInv, Expirer
    PROVE  IInv'
<1>1. /\ inbox' = Tardives(inbox) /\ wire' = Tardives(wire)
      /\ pc' = "libre" /\ suite' = "rien" /\ cible' = Rien /\ vise' = 0 /\ passe' = 0
      /\ UNCHANGED <<jeu, appareil, decal, connected, state, known, clock_set, clock_offset,
                     echu, touche, du, doute>>
    BY DEF Expirer, Echoue, service, temoins
<1>2. RadioOK' /\ Moins /\ Len(inbox') = Len(inbox)
    BY <1>1, MoinsTardif DEF IInv
<1>3. patience' \in BOOLEAN
    BY DEF Expirer, Echoue
<1>4. TypeOK'
  <2>1. connected' \/ (pc' = "libre" /\ inbox' = <<>> /\ wire' = <<>>)
    <3>1. connected \/ (inbox = <<>> /\ wire = <<>>)
          BY DEF IInv, TypeOK
    <3>2. CASE connected
          BY <1>1, <3>2
    <3>3. CASE inbox = <<>> /\ wire = <<>>
          BY <1>1, <3>3 DEF Tardives
    <3> QED
        BY <3>1, <3>2, <3>3
  <2>2. Len(inbox') <= FileMax
        BY <1>2 DEF IInv, TypeOK
  <2> QED
      BY <1>1, <1>3, <2>1, <2>2, FinType DEF IInv, TypeOK
<1>5. LieuInv' /\ DemandeInv' /\ FaitInv' /\ HeureInv' /\ AutreInv' /\ AlarmeInv'
    BY <1>1, <1>2, MoinsEtat DEF service
<1> QED
    BY <1>2, <1>4, <1>5 DEF IInv

LEMMA PerdreLiaisonInv ==
    ASSUME IInv, PerdreLiaison
    PROVE  IInv'
<1>1. /\ inbox' = <<>> /\ wire' = <<>> /\ connected' = FALSE
      /\ pc' = "libre" /\ suite' = "rien" /\ cible' = Rien /\ vise' = 0 /\ passe' = 0
      /\ UNCHANGED <<jeu, appareil, decal, state, known, clock_set, clock_offset,
                     echu, touche, du, doute>>
    BY DEF PerdreLiaison, Echoue, service, temoins
<1>2. RadioOK' /\ Moins /\ Len(inbox') <= FileMax
    BY <1>1, MoinsVide
<1>3. patience' \in BOOLEAN
    BY DEF PerdreLiaison, Echoue
<1>4. TypeOK'
    BY <1>1, <1>2, <1>3, FinType DEF IInv, TypeOK
<1>5. LieuInv' /\ DemandeInv' /\ FaitInv' /\ HeureInv' /\ AutreInv' /\ AlarmeInv'
    BY <1>1, <1>2, MoinsEtat DEF service
<1> QED
    BY <1>2, <1>4, <1>5 DEF IInv

LEMMA SecondeInv ==
    ASSUME IInv, Seconde
    PROVE  IInv'
<1>1. /\ passe < Delai /\ passe' = passe + 1
      /\ UNCHANGED <<jeu, appareil, decal, inbox, wire, connected, state, known, clock_set,
                     clock_offset, echu, patience, pc, cible, vise, suite, touche, du, doute>>
    BY DEF Seconde, radio, service, horloge, temoins
<1>2. RadioOK' /\ Moins
    BY <1>1, MoinsTel DEF IInv, radio
<1>3. passe' \in 0..Delai /\ 0..passe \subseteq 0..passe'
    BY <1>1, ClockAssumption DEF IInv, TypeOK
<1>4. TypeOK'
    BY <1>1, <1>3 DEF IInv, TypeOK
<1>5. LieuInv' /\ DemandeInv' /\ FaitInv' /\ HeureInv' /\ AutreInv' /\ AlarmeInv'
    BY <1>1, <1>2, <1>3, MoinsEtat DEF service
<1> QED
    BY <1>2, <1>4, <1>5 DEF IInv

\* A day, or ten minutes, have passed, or nothing happens.
LEMMA DelaisInv ==
    ASSUME IInv, Jour \/ DixMinutes \/ UNCHANGED vars
    PROVE  IInv'
<1>1. /\ UNCHANGED <<jeu, appareil, decal, inbox, wire, connected, state, known, clock_set,
                     clock_offset, pc, cible, vise, suite, passe, touche, du, doute>>
      /\ echu' \in BOOLEAN /\ patience' \in BOOLEAN
    BY DEF Jour, DixMinutes, vars, radio, service, horloge, commande, temoins, IInv, TypeOK
<1>2. RadioOK' /\ Moins
    BY <1>1, MoinsTel DEF IInv, radio
<1>3. TypeOK'
    BY <1>1 DEF IInv, TypeOK
<1>4. LieuInv' /\ DemandeInv' /\ FaitInv' /\ HeureInv' /\ AutreInv' /\ AlarmeInv'
    BY <1>1, <1>2, MoinsEtat DEF service
<1> QED
    BY <1>2, <1>3, <1>4 DEF IInv

\* The first answer that waits.
LEMMA Lue ==
    ASSUME IInv, NEW q, Recoit(q)
    PROVE  /\ connected /\ wire # <<>> /\ Head(wire) = wire[1] /\ 1 \in DOMAIN wire
           /\ Head(wire) \in Trames /\ Head(wire).code = Reponse(q) /\ pc = q
BY Queue DEF Recoit, IInv, RadioOK, TypeOK

LEMMA DemanderParametresInv ==
    ASSUME IInv, DemanderParametres
    PROVE  IInv'
<1>1. /\ wire # <<>> /\ wire' = Tail(wire) /\ state' = Head(wire).val /\ known' = TRUE
      /\ pc' = "libre" /\ suite' = "rien" /\ cible' = Rien /\ vise' = 0 /\ passe' = 0
      /\ UNCHANGED <<jeu, appareil, decal, inbox, connected, clock_set, clock_offset,
                     echu, patience, touche, du, doute>>
    BY DEF DemanderParametres, Recoit, StateUpdate, Fini, horloge, temoins
<1>2. /\ connected /\ Head(wire) = wire[1] /\ 1 \in DOMAIN wire /\ Head(wire) \in Trames
      /\ Head(wire).code = "E2"
  <2>1. Recoit("lire")
        BY DEF DemanderParametres
  <2>2. Reponse("lire") = "E2"
        BY DEF Reponse
  <2> QED
      BY <2>1, <2>2, Lue
<1>3. state' \in Reglages
    BY <1>1, <1>2 DEF Trames
<1>4. du["autre"] # -1 => state'.autre = du["autre"]
    BY <1>1, <1>2 DEF IInv, AutreInv
<1>5. RadioOK' /\ Moins
    BY <1>1, MoinsLue DEF IInv
<1>6. TypeOK'
    BY <1>1, <1>2, <1>3, FinType DEF IInv, TypeOK
<1>7. LieuInv' /\ DemandeInv' /\ FaitInv' /\ HeureInv' /\ AutreInv' /\ AlarmeInv'
    BY <1>1, <1>4, <1>5, MoinsInv
<1> QED
    BY <1>5, <1>6, <1>7 DEF IInv


-----------------------------------------------------------------------------
(* Steps that send a request.                                              *)

LEMMA LireInv ==
    ASSUME IInv, Lire
    PROVE  IInv'
<1>1. /\ Envoyer("lire", Rien) /\ connected /\ pc' = "lire" /\ touche' = {}
      /\ UNCHANGED <<jeu, appareil, decal, connected, state, known, clock_set, clock_offset,
                     echu, patience, cible, vise, suite, passe, du, doute>>
    BY DEF Lire, Envoyer, service, horloge
<1>2. [q |-> "lire", val |-> Rien, de |-> "sienne"] \in Requetes
    BY DEF Requetes, De
<1>3. du["autre"] # -1 => state'.autre = du["autre"]
    BY <1>1 DEF IInv, AutreInv
<1>4. doute' \/ ~doute
    BY <1>1, DouteTel
<1>5. RadioOK' /\ Len(inbox') <= FileMax /\ DemandeInv' /\ FaitInv' /\ HeureInv' /\ AutreInv' /\ AlarmeInv'
    BY <1>1, <1>2, <1>3, <1>4, EnvoyerInv
<1>6. TypeOK' /\ LieuInv'
    BY <1>1, <1>5 DEF IInv, TypeOK, LieuInv
<1> QED
    BY <1>5, <1>6 DEF IInv

LEMMA ReconnecterInv ==
    ASSUME IInv, Reconnecter
    PROVE  IInv'
<1> DEFINE r == [q |-> "lire", val |-> Rien, de |-> "sienne"]
<1>1. /\ inbox' = <<r>> /\ wire' = <<>> /\ connected' = TRUE /\ pc' = "lire" /\ touche' = {}
      /\ UNCHANGED <<jeu, appareil, decal, state, known, clock_set, clock_offset,
                     echu, patience, cible, vise, suite, passe, du, doute>>
    BY DEF Reconnecter, service, horloge
<1>2. r \in Requetes /\ r.q = "lire"
    BY DEF Requetes, De
<1> HIDE DEF r
<1>3. /\ inbox' \in Seq(Requetes) /\ Len(inbox') = 1
      /\ \A i \in DOMAIN inbox' : i = Len(inbox') /\ inbox'[i].q = "lire"
    BY <1>1, <1>2
<1>4. RadioOK' /\ DemandeInv' /\ FaitInv'
    BY <1>1, <1>3 DEF RadioOK, DemandeInv, FaitInv
<1>5. TypeOK' /\ LieuInv'
  <2>1. Len(inbox') <= FileMax
        BY <1>3, ClockAssumption
  <2> QED
      BY <1>1, <2>1 DEF IInv, TypeOK, LieuInv
<1>6. HeureInv'
    BY <1>1, <1>3 DEF IInv, HeureInv, Juste
<1>7. AutreInv' /\ AlarmeInv'
    BY <1>1, <1>3 DEF IInv, AutreInv, AlarmeInv
<1> QED
    BY <1>4, <1>5, <1>6, <1>7 DEF IInv

LEMMA EnvoyerHeureInv ==
    ASSUME IInv, EnvoyerHeure
    PROVE  IInv'
<1>1. PICK e \in Ecarts :
          /\ vise' = e /\ passe' = 0 /\ suite' = "heure"
          /\ \/ /\ state.time # 0 /\ cible' = [state EXCEPT !.time = 0]
                /\ Envoyer("ecrire", cible') /\ UNCHANGED doute
             \/ state.time = 0 /\ EnvoiHeure /\ cible' = Rien
    BY DEF EnvoyerHeure
<1>2. /\ known /\ touche' = {} /\ connected /\ e \in Int
      /\ UNCHANGED <<jeu, appareil, decal, connected, state, known, clock_set, clock_offset,
                     echu, patience, du>>
    BY <1>1, ClockAssumption DEF EnvoyerHeure, EnvoiHeure, Envoyer, service, horloge
<1>3. du["autre"] # -1 => state.autre = du["autre"]
    BY DEF IInv, AutreInv
<1>4. state \in Reglages
    BY DEF IInv, TypeOK
<1>5. CASE /\ cible' = [state EXCEPT !.time = 0] /\ Envoyer("ecrire", cible') /\ UNCHANGED doute
  <2>1. cible' \in Reglages /\ cible'.autre = state.autre
        BY <1>4, <1>5 DEF Reglages, Bit
  <2>2. [q |-> "ecrire", val |-> cible', de |-> "sienne"] \in Requetes
        BY <2>1 DEF Requetes, De
  <2>3. doute' \/ ~doute
        BY <1>5, DouteTel
  <2>4. /\ RadioOK' /\ Len(inbox') <= FileMax
        /\ DemandeInv' /\ FaitInv' /\ HeureInv' /\ AutreInv' /\ AlarmeInv'
        BY <1>2, <1>3, <1>5, <2>1, <2>2, <2>3, EnvoyerInv
  <2>5. pc' = "ecrire" /\ doute' \in BOOLEAN
        BY <1>5 DEF Envoyer, IInv, TypeOK
  <2>6. TypeOK' /\ LieuInv'
        BY <1>1, <1>2, <2>1, <2>4, <2>5, ClockAssumption DEF IInv, TypeOK, LieuInv
  <2> QED
      BY <2>4, <2>6 DEF IInv
<1>6. CASE EnvoiHeure /\ cible' = Rien
  <2>1. Envoyer("heure", Rien) /\ doute' = TRUE
        BY <1>6 DEF EnvoiHeure
  <2>2. [q |-> "heure", val |-> Rien, de |-> "sienne"] \in Requetes
        BY <1>2 DEF Requetes, De
  <2>3. /\ RadioOK' /\ Len(inbox') <= FileMax
        /\ DemandeInv' /\ FaitInv' /\ HeureInv' /\ AutreInv' /\ AlarmeInv'
        BY <1>1, <1>2, <1>3, <2>1, <2>2, EnvoyerInv
  <2>4. pc' = "heure" /\ doute' \in BOOLEAN
        BY <1>6 DEF EnvoiHeure, Envoyer
  <2>5. TypeOK' /\ LieuInv'
        BY <1>1, <1>2, <1>6, <2>3, <2>4, ClockAssumption DEF IInv, TypeOK, LieuInv
  <2> QED
      BY <2>3, <2>5 DEF IInv
<1> QED
    BY <1>1, <1>5, <1>6

LEMMA EntretenirHorlogeInv ==
    ASSUME IInv, EntretenirHorloge
    PROVE  IInv'
<1>1. /\ known /\ Envoyer("heure", Rien) /\ doute' = TRUE /\ connected
      /\ suite' = "entretien" /\ passe' = 0 /\ pc' = "heure" /\ touche' = {}
      /\ UNCHANGED <<jeu, appareil, decal, connected, state, known, clock_set, clock_offset,
                     echu, patience, cible, du>>
    BY DEF EntretenirHorloge, HorlogeDue, EnvoiHeure, Envoyer, service, horloge
<1>2. vise' \in Int
    BY DEF EntretenirHorloge, IInv, TypeOK
<1>3. [q |-> "heure", val |-> Rien, de |-> "sienne"] \in Requetes
    BY <1>2 DEF Requetes, De
<1>4. du["autre"] # -1 => state.autre = du["autre"]
    BY DEF IInv, AutreInv
<1>5. RadioOK' /\ Len(inbox') <= FileMax /\ DemandeInv' /\ FaitInv' /\ HeureInv' /\ AutreInv' /\ AlarmeInv'
    BY <1>1, <1>3, <1>4, EnvoyerInv
<1>6. TypeOK' /\ LieuInv'
    BY <1>1, <1>2, <1>5, ClockAssumption DEF IInv, TypeOK, LieuInv
<1> QED
    BY <1>5, <1>6 DEF IInv

LEMMA EcrireReglageInv ==
    ASSUME IInv, EcrireReglage
    PROVE  IInv'
<1>1. PICK c \in {"autre", "time"}, v \in Bit :
          /\ cible' = [state EXCEPT ![c] = v]
          /\ Envoyer("ecrire", cible')
          /\ suite' = IF c = "autre" THEN "autre" ELSE IF v = 0 THEN "auto" ELSE "rien"
          /\ du' = IF c = "autre" THEN [du EXCEPT !["autre"] = -1] ELSE du
    BY DEF EcrireReglage
<1>2. /\ known /\ touche' = {} /\ connected /\ pc' = "ecrire"
      /\ UNCHANGED <<jeu, appareil, decal, connected, state, known, clock_set, clock_offset,
                     echu, patience, vise, passe, doute>>
    BY <1>1 DEF EcrireReglage, Envoyer, service, horloge
<1>3. du["autre"] # -1 => state.autre = du["autre"]
    BY DEF IInv, AutreInv
<1>4. state \in Reglages /\ du \in [{"autre", "a", "b"} -> -1..1]
    BY DEF IInv, TypeOK
<1>5. cible' \in Reglages /\ (c = "time" => cible'.autre = state.autre)
    BY <1>1, <1>4 DEF Reglages, Bit
<1>6. suite' \in {"autre", "auto", "rien"}
    BY <1>1
<1>7. /\ du' \in [{"autre", "a", "b"} -> -1..1] /\ du'["a"] = du["a"] /\ du'["b"] = du["b"]
      /\ c = "autre" => du'["autre"] = -1
      /\ c = "time" => du'["autre"] = du["autre"]
    BY <1>1, <1>4
<1>8. du'["autre"] # -1 => state'.autre = du'["autre"] /\ cible'.autre = du'["autre"]
    BY <1>2, <1>3, <1>5, <1>7
<1>9. \A d \in {"autre", "a", "b"} : du'[d] \in {-1, du[d]}
    BY <1>7
<1>10. [q |-> "ecrire", val |-> cible', de |-> "sienne"] \in Requetes
    BY <1>5 DEF Requetes, De
<1>11. doute' \/ ~doute
    BY <1>2, DouteTel
<1>12. RadioOK' /\ Len(inbox') <= FileMax /\ DemandeInv' /\ FaitInv' /\ HeureInv' /\ AutreInv' /\ AlarmeInv'
    BY <1>1, <1>2, <1>8, <1>9, <1>10, <1>11, EnvoyerInv
<1>13. TypeOK' /\ LieuInv'
    BY <1>2, <1>5, <1>6, <1>7, <1>12 DEF IInv, TypeOK, LieuInv
<1> QED
    BY <1>12, <1>13 DEF IInv

LEMMA EcrireAlarmeInv ==
    ASSUME IInv, EcrireAlarme
    PROVE  IInv'
<1>1. PICK c \in {"a", "b"}, v \in Bit :
          suite' = c /\ vise' = v /\ du' = [du EXCEPT ![c] = -1]
    BY DEF EcrireAlarme
<1>2. /\ Envoyer("al_lire", Rien) /\ connected /\ pc' = "al_lire" /\ touche' = {}
      /\ UNCHANGED <<jeu, appareil, decal, connected, state, known, clock_set, clock_offset,
                     echu, patience, cible, passe, doute>>
    BY DEF EcrireAlarme, Envoyer, service, horloge
<1>3. du["autre"] # -1 => state.autre = du["autre"]
    BY DEF IInv, AutreInv
<1>4. du \in [{"autre", "a", "b"} -> -1..1]
    BY DEF IInv, TypeOK
<1>5. /\ du' \in [{"autre", "a", "b"} -> -1..1] /\ du'[c] = -1 /\ du'["autre"] = du["autre"]
      /\ \A d \in {"autre", "a", "b"} : du'[d] \in {-1, du[d]}
    BY <1>1, <1>4
<1>6. du'["autre"] # -1 => state'.autre = du'["autre"]
    BY <1>2, <1>3, <1>5
<1>7. [q |-> "al_lire", val |-> Rien, de |-> "sienne"] \in Requetes
    BY DEF Requetes, De
<1>8. doute' \/ ~doute
    BY <1>2, DouteTel
<1>9. RadioOK' /\ Len(inbox') <= FileMax /\ DemandeInv' /\ FaitInv' /\ HeureInv' /\ AutreInv' /\ AlarmeInv'
    BY <1>2, <1>5, <1>6, <1>7, <1>8, EnvoyerInv
<1>10. TypeOK' /\ LieuInv'
    BY <1>1, <1>2, <1>5, <1>9 DEF IInv, TypeOK, LieuInv, Bit
<1> QED
    BY <1>9, <1>10 DEF IInv


-----------------------------------------------------------------------------
(* Answers.                                                                *)

\* The answer of the exchange itself: the device has done what was asked.
LEMMA SienneFaite ==
    ASSUME IInv, NEW q, Recoit(q), Sienne
    PROVE  /\ Len(wire) = 1 /\ inbox = <<>>
           /\ pc = "heure" /\ Head(wire).bon /\ "heure" \notin touche =>
                 decal \in Int /\ vise - decal \in 0..passe
           /\ pc = "ecrire" /\ "autre" \notin touche => appareil.reglages.autre = cible.autre
           /\ pc = "al_ecrire" /\ suite \notin touche => appareil.alarme[suite] = vise
<1>1. Head(wire) = wire[1] /\ 1 \in DOMAIN wire /\ wire[1].de = "sienne"
    BY Lue DEF Sienne
<1> QED
    BY <1>1 DEF IInv, FaitInv

\* Nothing is left behind it.
LEMMA SienneSeule ==
    ASSUME IInv, NEW q, Recoit(q), Sienne
    PROVE  Tail(wire) = <<>>
<1>1. wire \in Seq(Trames) /\ wire # <<>> /\ Len(wire) = 1
    BY SienneFaite, Lue DEF IInv, RadioOK
<1>2. Tail(wire) \in Seq(Trames) /\ Len(Tail(wire)) = Len(wire) - 1
    BY <1>1, Queue
<1>3. Len(Tail(wire)) = 0
    BY <1>1, <1>2
<1> QED
    BY <1>2, <1>3, EmptySeq

\* What noter_heure keeps is the offset of the device, but for the exchange and
\* the second of the rounding.
LEMMA EcartJuste ==
    ASSUME NEW v \in Int, NEW p \in 0..Delai, NEW d \in Int, v - d \in 0..p
    PROVE  Ecart(v - p) - d \in (-Delai - 1)..1 /\ Ecart(v - p) \in Int
<1>1. p \in Int /\ 0 <= p /\ p <= Delai /\ Delai \in Int
    BY ClockAssumption
<1>2. 0 <= v - d /\ v - d <= p
    BY <1>1
<1>3. CASE v - p \in -1..1
  <2>1. Ecart(v - p) = 0 /\ -1 <= v - p /\ v - p <= 1
        BY <1>1, <1>3 DEF Ecart
  <2> QED
      BY <1>1, <1>2, <2>1
<1>4. CASE v - p \notin -1..1
  <2>1. Ecart(v - p) = v - p
        BY <1>4 DEF Ecart
  <2> QED
      BY <1>1, <1>2, <2>1
<1> QED
    BY <1>3, <1>4

LEMMA HeureRecueInv ==
    ASSUME IInv, HeureRecue
    PROVE  IInv'
<1>1. /\ wire # <<>> /\ wire' = Tail(wire) /\ Recoit("heure") /\ pc = "heure"
      /\ clock_set' = TRUE /\ Retenir(Ecart(vise - passe)) /\ echu' = FALSE
      /\ pc' = "libre" /\ suite' = "rien" /\ cible' = Rien /\ vise' = 0 /\ passe' = 0
      /\ UNCHANGED <<jeu, appareil, inbox, connected, state, known,
                     patience, touche, du>>
    BY DEF HeureRecue, Recoit, NoterHeure, Fini, service
<1>2. doute' = ~(Sienne /\ Head(wire).bon /\ "heure" \notin touche)
    BY DEF HeureRecue
<1>3. doute' \in BOOLEAN
    BY <1>2
<1>4. connected /\ known
    BY <1>1, Lue DEF IInv, LieuInv
<1>5. vise \in Int /\ passe \in 0..Delai /\ passe \in Int
    BY ClockAssumption DEF IInv, TypeOK
<1>6. /\ Ecart(vise - passe) \in Int /\ clock_offset' \in Int
      /\ decal' \in Int \union {Ailleurs}
  <2>1. Ecart(vise - passe) \in Int /\ decal \in Int \union {Ailleurs}
        BY <1>5 DEF Ecart, IInv, TypeOK
  <2> QED
      BY <1>1, <2>1, ClockAssumption DEF Retenir
<1>7. RadioOK' /\ Moins
    BY <1>1, MoinsLue DEF IInv
<1>8. TypeOK'
    BY <1>1, <1>3, <1>4, <1>6, FinType DEF IInv, TypeOK
<1>9. HeureInv'
  <2>1. SUFFICES ASSUME ~doute'
                 PROVE  clock_set' /\ Juste' /\ \A i \in DOMAIN inbox' : inbox'[i].q # "heure"
        BY DEF HeureInv
  <2>2. Sienne /\ Head(wire).bon /\ "heure" \notin touche
        BY <1>2, <2>1
  <2>3. inbox = <<>> /\ decal \in Int /\ vise - decal \in 0..passe
        BY <1>1, <2>2, SienneFaite
  <2>4. Ecart(vise - passe) - decal \in (-Delai - 1)..1
        BY <1>1, <1>5, <2>3, EcartJuste
  <2>5. /\ decal' \in Int
        /\ clock_offset' - decal' = Ecart(vise - passe) - decal
    <3>1. Delai \in Nat /\ DeriveMax \in Nat /\ Ailleurs \notin Int
          BY ClockAssumption
    <3>2. decal # Ailleurs /\ ~(decal - Ecart(vise - passe) > Delai + 1)
          BY <1>6, <2>3, <2>4, <3>1
    <3>3. decal' = IF Ecart(vise - passe) >= -DeriveMax THEN decal
                   ELSE decal - Ecart(vise - passe) - DeriveMax
          BY <1>1, <3>2 DEF Retenir
    <3>4. clock_offset' = IF Ecart(vise - passe) < -DeriveMax THEN -DeriveMax
                          ELSE Ecart(vise - passe)
          BY <1>1 DEF Retenir
    <3> QED
        BY <1>6, <2>3, <3>1, <3>3, <3>4
  <2>6. Juste'
        BY <2>4, <2>5, ClockAssumption DEF Juste
  <2> QED
      BY <1>1, <2>3, <2>6
<1>10. LieuInv' /\ DemandeInv' /\ FaitInv'
    BY <1>1, <1>7, MoinsDemande DEF LieuInv
<1>11. AutreInv' /\ AlarmeInv'
  <2>1. du["autre"] # -1 => state'.autre = du["autre"]
        BY <1>1 DEF IInv, AutreInv
  <2> QED
      BY <1>1, <1>7, <2>1, MoinsAutre, MoinsAlarme
<1> QED
    BY <1>7, <1>8, <1>9, <1>10, <1>11 DEF IInv

\* The settings written are those the device has, and those remembered.
LEMMA ReglageEcritInv ==
    ASSUME IInv, ReglageEcrit
    PROVE  IInv'
<1>1. /\ Recoit("ecrire") /\ pc = "ecrire" /\ wire # <<>> /\ connected
      /\ state' = cible /\ known' = TRUE
      /\ UNCHANGED <<jeu, appareil, decal, connected, clock_set, clock_offset, echu, patience>>
    BY Lue DEF ReglageEcrit, StateUpdate, horloge
<1>2. du' = IF suite = "autre" /\ Sienne /\ "autre" \notin touche
            THEN [du EXCEPT !["autre"] = cible.autre] ELSE du
    BY DEF ReglageEcrit
<1>3. cible \in Reglages /\ suite \in {"autre", "auto", "heure", "rien"}
    BY <1>1 DEF IInv, LieuInv
<1>4. du \in [{"autre", "a", "b"} -> -1..1] /\ cible.autre \in -1..1
    BY <1>3 DEF IInv, TypeOK, Reglages, Bit
<1>5. /\ du' \in [{"autre", "a", "b"} -> -1..1] /\ du'["a"] = du["a"] /\ du'["b"] = du["b"]
    BY <1>2, <1>4
<1>6. \A c \in {"a", "b"} : du'[c] \in {-1, du[c]}
    BY <1>5
<1>7. du["autre"] # -1 => cible.autre = du["autre"]
    BY <1>1 DEF IInv, AutreInv
<1>8. CASE suite \in {"heure", "auto"}
  <2>1. /\ EnvoiHeure /\ passe' \in {0, passe} /\ UNCHANGED <<cible, vise, suite>>
        BY <1>8 DEF ReglageEcrit
  <2>2. Envoyer("heure", Rien) /\ doute' = TRUE /\ pc' = "heure" /\ touche' = {}
        /\ doute' \in BOOLEAN
        BY <2>1 DEF EnvoiHeure, Envoyer
  <2>4. [q |-> "heure", val |-> Rien, de |-> "sienne"] \in Requetes
        BY DEF Requetes, De
  <2>5. du' = du
        BY <1>2, <1>8
  <2>6. du'["autre"] # -1 => state'.autre = du'["autre"]
        BY <1>1, <1>7, <2>5
  <2>7. \A c \in {"autre", "a", "b"} : du'[c] \in {-1, du[c]}
        BY <2>5
  <2>8. /\ RadioOK' /\ Len(inbox') <= FileMax
        /\ DemandeInv' /\ FaitInv' /\ HeureInv' /\ AutreInv' /\ AlarmeInv'
        BY <1>1, <2>1, <2>2, <2>4, <2>6, <2>7, EnvoyerInv
  <2>9. TypeOK' /\ LieuInv'
        BY <1>1, <1>3, <1>5, <2>1, <2>2, <2>8, ClockAssumption DEF IInv, TypeOK, LieuInv
  <2> QED
      BY <2>8, <2>9 DEF IInv
<1>9. CASE suite \notin {"heure", "auto"}
  <2>1. /\ wire' = Tail(wire) /\ UNCHANGED <<inbox, touche, doute>>
        /\ pc' = "libre" /\ suite' = "rien" /\ cible' = Rien /\ vise' = 0 /\ passe' = 0
        BY <1>9 DEF ReglageEcrit, Fini
  <2>2. RadioOK' /\ Moins
        BY <1>1, <2>1, MoinsLue DEF IInv
  <2>3. TypeOK'
        BY <1>1, <1>3, <1>5, <2>1, FinType DEF IInv, TypeOK
  <2>4. LieuInv' /\ DemandeInv' /\ FaitInv'
        BY <1>1, <2>1, <2>2, MoinsDemande DEF LieuInv
  <2>5. HeureInv'
        BY <1>1, <2>1, <2>2, DouteTel, MoinsHeure
  <2>6. AlarmeInv'
        BY <1>1, <1>6, <2>1, <2>2, MoinsAlarme
  <2>7. AutreInv'
    <3>1. CASE Sienne /\ "autre" \notin touche
      <4>1. inbox' = <<>> /\ wire' = <<>>
            BY <1>1, <2>1, <3>1, SienneFaite, SienneSeule
      <4>2. appareil'.reglages.autre = cible.autre /\ state'.autre = cible.autre
            BY <1>1, <3>1, SienneFaite
      <4>3. du'["autre"] # -1 => du'["autre"] = cible.autre
            BY <1>2, <1>4, <1>7
      <4> QED
          BY <2>1, <4>1, <4>2, <4>3 DEF AutreInv
    <3>2. CASE ~(Sienne /\ "autre" \notin touche)
      <4>1. du' = du
            BY <1>2, <3>2
      <4>2. du'["autre"] # -1 => state'.autre = du'["autre"]
            BY <1>1, <1>7, <4>1
      <4> QED
          BY <1>1, <2>1, <2>2, <4>1, <4>2, MoinsAutre
    <3> QED
        BY <3>1, <3>2
  <2> QED
      BY <2>2, <2>3, <2>4, <2>5, <2>6, <2>7 DEF IInv
<1> QED
    BY <1>8, <1>9

LEMMA AlarmeLueInv ==
    ASSUME IInv, AlarmeLue
    PROVE  IInv'
<1>1. /\ Recoit("al_lire") /\ pc = "al_lire" /\ connected
      /\ wire # <<>> /\ Head(wire) = wire[1] /\ 1 \in DOMAIN wire
      /\ Head(wire) \in Trames /\ Head(wire).code = "F3"
      /\ UNCHANGED <<jeu, appareil, decal, connected, state, known, clock_set, clock_offset, echu,
                     patience, du, doute>>
  <2>1. Recoit("al_lire") /\ Reponse("al_lire") = "F3"
        BY DEF AlarmeLue, Reponse
  <2> QED
      BY <2>1, Lue DEF AlarmeLue, service, horloge
<1>2. suite \in {"a", "b"} /\ vise \in Bit /\ du[suite] = -1
    BY <1>1 DEF IInv, LieuInv
<1>3. CASE AssezLongue(Head(wire))
  <2>1. /\ cible' = [Head(wire).val EXCEPT ![suite] = vise]
        /\ Envoyer("al_ecrire", cible') /\ UNCHANGED <<suite, vise, passe>>
        BY <1>3 DEF AlarmeLue
  <2>2. pc' = "al_ecrire" /\ touche' = {}
        BY <2>1 DEF Envoyer
  <2>3. Head(wire).val \in Alarme /\ Head(wire).val # Rien
        BY <1>1, <1>3 DEF AssezLongue, Trames
  <2>4. /\ cible' \in Alarme /\ cible'[suite] = vise
        /\ \A c \in {"a", "b"} : c # suite => cible'[c] = Head(wire).val[c]
        BY <1>2, <2>1, <2>3 DEF Alarme, Bit
  <2>5. [q |-> "al_ecrire", val |-> cible', de |-> "sienne"] \in Requetes
        BY <2>4 DEF Requetes, De
  <2>6. ASSUME NEW c \in {"a", "b"}, du'[c] # -1
        PROVE  cible'[c] = du'[c]
    <3>1. c # suite /\ du[c] # -1 /\ du'[c] = du[c]
          BY <1>1, <1>2, <2>6
    <3>2. Head(wire).val[c] = du[c]
          BY <1>1, <2>3, <3>1 DEF IInv, AlarmeInv
    <3> QED
        BY <2>4, <3>1, <3>2
  <2>7. du'["autre"] # -1 => state'.autre = du'["autre"]
        BY <1>1 DEF IInv, AutreInv
  <2>8. \A c \in {"autre", "a", "b"} : du'[c] \in {-1, du[c]}
        BY <1>1
  <2>9. doute' \/ ~doute
        BY <1>1, DouteTel
  <2>10. \A c \in {"a", "b"} : du'[c] # -1 => cible'[c] = du'[c]
        BY <2>6
  <2>11. UNCHANGED <<appareil, decal, clock_set, clock_offset>>
        BY <1>1
  <2>12. Envoyer("al_ecrire", cible')
        BY <2>1
  <2>13. /\ RadioOK' /\ Len(inbox') <= FileMax
         /\ DemandeInv' /\ FaitInv' /\ HeureInv' /\ AutreInv' /\ AlarmeInv'
        BY ONLY IInv, <2>5, <2>7, <2>8, <2>9, <2>10, <2>11, <2>12, EnvoyerInv
  <2>14. TypeOK' /\ LieuInv'
        BY <1>1, <1>2, <2>1, <2>2, <2>4, <2>13 DEF IInv, TypeOK, LieuInv
  <2> QED
      BY <2>13, <2>14 DEF IInv
<1>4. CASE ~AssezLongue(Head(wire))
  <2>1. /\ wire' = Tail(wire) /\ UNCHANGED <<inbox, touche>>
        /\ pc' = "libre" /\ suite' = "rien" /\ cible' = Rien /\ vise' = 0 /\ passe' = 0
        BY <1>4 DEF AlarmeLue, Fini
  <2>2. RadioOK' /\ Moins
        BY <1>1, <2>1, MoinsLue DEF IInv
  <2>3. TypeOK'
        BY <1>1, <2>1, FinType DEF IInv, TypeOK
  <2>4. LieuInv' /\ DemandeInv' /\ FaitInv' /\ HeureInv' /\ AutreInv' /\ AlarmeInv'
        BY <1>1, <2>1, <2>2, MoinsEtat DEF service
  <2> QED
      BY <2>2, <2>3, <2>4 DEF IInv
<1> QED
    BY <1>3, <1>4

LEMMA AlarmeEcriteInv ==
    ASSUME IInv, AlarmeEcrite
    PROVE  IInv'
<1>1. /\ Recoit("al_ecrire") /\ pc = "al_ecrire" /\ wire # <<>> /\ connected /\ wire' = Tail(wire)
      /\ pc' = "libre" /\ suite' = "rien" /\ cible' = Rien /\ vise' = 0 /\ passe' = 0
      /\ UNCHANGED <<jeu, appareil, decal, inbox, connected, state, known, clock_set, clock_offset,
                     echu, patience, touche, doute>>
    BY Lue DEF AlarmeEcrite, Fini, service, horloge
<1>2. du' = IF Sienne /\ suite \notin touche THEN [du EXCEPT ![suite] = vise] ELSE du
    BY DEF AlarmeEcrite
<1>3. suite \in {"a", "b"} /\ vise \in Bit
    BY <1>1 DEF IInv, LieuInv
<1>4. du \in [{"autre", "a", "b"} -> -1..1]
    BY DEF IInv, TypeOK
<1>5. du' \in [{"autre", "a", "b"} -> -1..1] /\ du'["autre"] = du["autre"]
    BY <1>2, <1>3, <1>4 DEF Bit
<1>6. RadioOK' /\ Moins
    BY <1>1, MoinsLue DEF IInv
<1>7. TypeOK'
    BY <1>1, <1>5, FinType DEF IInv, TypeOK
<1>8. LieuInv' /\ DemandeInv' /\ FaitInv'
    BY <1>1, <1>6, MoinsDemande DEF LieuInv
<1>9. HeureInv'
    BY <1>1, <1>6, DouteTel, MoinsHeure
<1>10. AutreInv'
  <2>1. du'["autre"] # -1 => state'.autre = du'["autre"]
        BY <1>1, <1>5 DEF IInv, AutreInv
  <2> QED
      BY <1>1, <1>5, <1>6, <2>1, MoinsAutre
<1>11. AlarmeInv'
  <2>1. CASE Sienne /\ suite \notin touche
    <3>1. inbox' = <<>> /\ wire' = <<>> /\ appareil'.alarme[suite] = vise
          BY <1>1, <2>1, SienneFaite, SienneSeule
    <3>2. \A c \in {"a", "b"} : IF c = suite THEN du'[c] = vise ELSE du'[c] = du[c]
          BY <1>2, <1>3, <1>4, <2>1
    <3>3. \A c \in {"a", "b"} : du'[c] # -1 => appareil'.alarme[c] = du'[c]
      <4> SUFFICES ASSUME NEW c \in {"a", "b"}, du'[c] # -1 PROVE appareil'.alarme[c] = du'[c]
          OBVIOUS
      <4>1. CASE c = suite
            BY <3>1, <3>2, <4>1
      <4>2. CASE c # suite
            BY <1>1, <3>2, <4>2 DEF IInv, AlarmeInv
      <4> QED
          BY <4>1, <4>2
    <3> QED
        BY <1>1, <3>1, <3>3 DEF AlarmeInv
  <2>2. CASE ~(Sienne /\ suite \notin touche)
    <3>1. \A c \in {"a", "b"} : du'[c] \in {-1, du[c]}
          BY <1>2, <2>2
    <3> QED
        BY <1>1, <1>6, <3>1, MoinsAlarme
  <2> QED
      BY <2>1, <2>2
<1> QED
    BY <1>6, <1>7, <1>8, <1>9, <1>10, <1>11 DEF IInv

-----------------------------------------------------------------------------
(* Theorems.                                                               *)

LEMMA NextInv ==
    ASSUME IInv, [Next]_vars
    PROVE  IInv'
<1>1. CASE Boutons
    BY <1>1, BoutonModeInv, BoutonAutreInv, BoutonHeureInv, BoutonAlarmeInv DEF Boutons
<1>2. CASE AppareilRepond \/ AppareilIgnore
    BY <1>2, AppareilRepondInv, AppareilIgnoreInv
<1>3. CASE Ecarter \/ Expirer \/ PerdreLiaison \/ Reconnecter
    BY <1>3, EcarterInv, ExpirerInv, PerdreLiaisonInv, ReconnecterInv
<1>4. CASE Seconde
    BY <1>4, SecondeInv
<1>5. CASE Jour \/ DixMinutes \/ UNCHANGED vars
    BY <1>5, DelaisInv
<1>6. CASE Lire \/ DemanderParametres
    BY <1>6, LireInv, DemanderParametresInv
<1>7. CASE Clients
    BY <1>7, EnvoyerHeureInv, EcrireReglageInv, EcrireAlarmeInv DEF Clients
<1>8. CASE EntretenirHorloge \/ HeureRecue \/ ReglageEcrit \/ AlarmeLue \/ AlarmeEcrite
    BY <1>8, EntretenirHorlogeInv, HeureRecueInv, ReglageEcritInv, AlarmeLueInv, AlarmeEcriteInv
<1> QED
    BY <1>1, <1>2, <1>3, <1>4, <1>5, <1>6, <1>7, <1>8 DEF Next

\* The invariant holds of every behaviour.
THEOREM Inductive == Spec => []IInv
<1>1. Init => IInv
    BY InitInv
<1>2. IInv /\ [Next]_vars => IInv'
    BY NextInv
<1> QED
    BY <1>1, <1>2, PTL DEF Spec

\* The variables have their types; the time of the device is known only after
\* its settings were read.
THEOREM ClockTyped == Spec => []TypeOK
<1>1. IInv => TypeOK
    BY DEF IInv
<1> QED
    BY <1>1, Inductive, PTL

\* The time reported as known (horloge_aml) is the device's, unless it was given
\* a time without its own answer, or its buttons changed it since.
THEOREM KnownTimeTrue == Spec => []ClockKnownIsTrue
<1>1. IInv => ClockKnownIsTrue
    BY DEF IInv, HeureInv, ClockKnownIsTrue
<1> QED
    BY <1>1, Inductive, PTL

\* What a client's own answer acknowledged is not undone by another command, a
\* reading, the switch to auto, nor a request given up that is treated later.
THEOREM ChangesStay == Spec => []AckedStays
<1>1. IInv => AckedStays
  <2> SUFFICES ASSUME IInv PROVE AckedStays
      OBVIOUS
  <2>1. du["autre"] \in {-1, appareil.reglages.autre}
        BY DEF IInv, AutreInv
  <2>2. \A c \in {"a", "b"} : du[c] \in {-1, appareil.alarme[c]}
        BY DEF IInv, AlarmeInv
  <2> QED
      BY <2>1, <2>2 DEF AckedStays
<1> QED
    BY <1>1, Inductive, PTL

=============================================================================
