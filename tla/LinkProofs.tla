----------------------------- MODULE LinkProofs -----------------------------
(***************************************************************************)
(* Safety of Link for any delays, any number of failures tolerated and any *)
(* number of frames on their way: its types, the bound on the time a       *)
(* silent link is kept, the delay before the next try, and which answers   *)
(* may be taken for another.                                               *)
(*                                                                         *)
(* The bound is not inductive.  What is: a failure may cost PasParEchec    *)
(* units of silence and no more, and while the program waits between two   *)
(* turns, the silence and the time left before the refresh are one budget  *)
(* (Budget), since each unit that passes moves from one to the other.      *)
(***************************************************************************)
EXTENDS Link, Recurrence, SequenceTheorems, TLAPS

USE LinkAssumption
USE DEF appareil, radio, liaison, lecture, fil

-----------------------------------------------------------------------------
(* The operators of the module                                             *)

\* programmer_reconnexion: the delay is always one of those the code allows.
LEMMA DoubleType ==
    ASSUME NEW b \in {0} \union BackoffMin..BackoffMax
    PROVE  Double(b) \in BackoffMin..BackoffMax
BY DEF Double

\* Marking the origin of frames leaves them frames.
LEMMA DaterType ==
    ASSUME NEW s \in Seq(Trames), NEW o \in Origines
    PROVE  Dater(s, o) \in Seq(Trames)
<1>1. Len(s) \in Nat /\ DOMAIN s = 1..Len(s)
  BY LenProperties
<1>2. \A i \in 1..Len(s) : [s[i] EXCEPT !.de = o] \in Trames
  <2>1. \A i \in 1..Len(s) : s[i] \in Trames
    BY ElementOfSeq
  <2>. QED
    BY <2>1 DEF Trames
<1>3. Dater(s, o) \in [1..Len(s) -> Trames]
  BY <1>1, <1>2 DEF Dater
<1>. QED
  BY <1>1, <1>3, SeqDef

\* s is what remains of r without its first k elements.
Reste(s, r, k) ==
    /\ k \in Nat /\ Len(s) + k = Len(r)
    /\ \A i \in 1..Len(s) : s[i] = r[i + k]

\* lire_evenements: what it leaves unread are the last frames.
LEMMA LuType ==
    ASSUME wire \in Seq(Trames), LireEvenements
    PROVE  wire' \in Seq(Trames) /\ \E k \in Nat : Reste(wire', wire, k)
<1>1. Len(wire) \in Nat
  BY LenProperties
<1>2. PICK n \in 0..PremierS(Len(wire), LectureMax) : wire' = SubSeq(wire, n + 1, Len(wire))
  BY DEF LireEvenements
<1>3. n \in Nat /\ n <= Len(wire)
  BY <1>1 DEF PremierS
<1>4. \A i \in (n + 1)..Len(wire) : wire[i] \in Trames
  BY <1>1, <1>3, ElementOfSeq
<1>5. PICK s : s = SubSeq(wire, n + 1, Len(wire))
  OBVIOUS
<1>6. /\ s \in Seq(Trames)
      /\ Len(s) = IF n + 1 <= Len(wire) THEN Len(wire) - (n + 1) + 1 ELSE 0
      /\ \A i \in 1..(Len(wire) - (n + 1) + 1) : s[i] = wire[(n + 1) + i - 1]
  BY <1>1, <1>3, <1>4, <1>5, SubSeqProperties
<1>7. Len(s) + n = Len(wire)
  BY <1>1, <1>3, <1>6
<1>8. \A i \in 1..Len(s) : s[i] = wire[i + n]
  <2>1. ASSUME NEW i \in 1..Len(s)
        PROVE  s[i] = wire[i + n]
    <3>1. i \in 1..(Len(wire) - (n + 1) + 1) /\ (n + 1) + i - 1 = i + n
      BY <1>1, <1>3, <1>6
    <3>. QED
      BY <1>6, <3>1
  <2>. QED
    BY <2>1
<1>9. Reste(s, wire, n)
  BY <1>3, <1>7, <1>8 DEF Reste
<1>. QED
  BY <1>2, <1>3, <1>5, <1>6, <1>9

\* A request on its way is a frame the device may send back.
LEMMA TrameType ==
    ASSUME NEW c \in Demandes \union {"evenement"}, NEW o \in Origines
    PROVE  Trame(c, o) \in Trames
BY DEF Trame, Trames

\* abandonner_liaison leaves a closed link with its delay, and nothing on its way.
LEMMA AbandonnerType ==
    ASSUME LinkType, AbandonnerLiaison
    PROVE  /\ LinkType'
           /\ inbox' = <<>> /\ wire' = <<>>
           /\ connected' = FALSE /\ rompue' = FALSE /\ silence' = 0
<1>1. Double(backoff) \in BackoffMin..BackoffMax
  BY DoubleType DEF LinkType
<1>2. essais' \in 0..EssaisMax
  BY DEF AbandonnerLiaison, ProgrammerReconnexion, PremierS, LinkType
<1>3. backoff' \in BackoffMin..BackoffMax /\ attente' \in 0..backoff'
  BY <1>1 DEF AbandonnerLiaison, ProgrammerReconnexion
<1>4. 0 \in 0..(MaxFailures - 1) /\ 0 \in Nat
  OBVIOUS
<1>. QED
  BY <1>2, <1>3, <1>4 DEF AbandonnerLiaison, LinkType

\* traiter_echec_liaison: one failure more, or the link is abandoned.
LEMMA EchecType ==
    ASSUME LinkType, RadioType, connected, demande \in Demandes, TraiterEchec
    PROVE  /\ LinkType'
           /\ inbox' \in Seq(Trames) /\ wire' \in Seq(Trames)
           /\ rompue' \in BOOLEAN
           /\ connected' => failures' = failures + 1 /\ silence' = silence
<1>1. CASE AbandonnerLiaison
  BY <1>1, AbandonnerType, EmptySeq
<1>2. CASE ~(failures + 1 >= MaxFailures)
  <2>1. inbox' \in Seq(Trames) /\ wire' \in Seq(Trames)
    BY <1>2, DaterType DEF TraiterEchec, GarderLiaison, RadioType, Origines
  <2>2. failures' = failures + 1 /\ failures' \in 0..(MaxFailures - 1)
    BY <1>2 DEF TraiterEchec, LinkType
  <2>3. abandonnees' \subseteq Demandes
    BY <1>2 DEF TraiterEchec, GarderLiaison, LinkType
  <2>4. UNCHANGED <<rompue, connected, backoff, attente, essais, silence>>
    BY <1>2 DEF TraiterEchec, GarderLiaison
  <2>. QED
    BY <2>1, <2>2, <2>3, <2>4 DEF LinkType, RadioType
<1>. QED
  BY <1>1, <1>2 DEF TraiterEchec

\* An answer accepted leaves typed frames behind it.
LEMMA RecevoirType ==
    ASSUME RadioType, Recevoir
    PROVE  inbox' \in Seq(Trames) /\ wire' \in Seq(Trames)
<1>1. Tail(wire) \in Seq(Trames)
  BY HeadTailProperties DEF Recevoir, Acceptable, RadioType
<1>. QED
  BY <1>1, DaterType DEF Recevoir, RadioType, Origines

-----------------------------------------------------------------------------
(* Types                                                                   *)

\* Every action keeps the types of the radio.
LEMMA RadioStep ==
    ASSUME TypeOK, Next
    PROVE  RadioType'
<1>. USE DEF RadioType
<1>. RadioType /\ LinkType /\ demande \in Demandes
  BY DEF TypeOK, LoopType
<1>1. CASE AppareilVaEtVient \/ AppareilRaccroche
  BY <1>1 DEF AppareilVaEtVient, AppareilRaccroche
<1>2. CASE AppareilParle
  BY <1>2, TrameType, AppendProperties DEF AppareilParle, Origines
<1>3. CASE AppareilRepond \/ AppareilIgnore
  <2>1. Head(inbox) \in Trames /\ Tail(inbox) \in Seq(Trames)
    BY <1>3, HeadTailProperties DEF AppareilRepond, AppareilIgnore
  <2>2. Append(wire, Head(inbox)) \in Seq(Trames)
    BY <2>1, AppendProperties
  <2>. QED
    BY <1>3, <2>1, <2>2 DEF AppareilRepond, AppareilIgnore
<1>4. CASE Temps \/ TickTropTot \/ TickConnecte \/ Demander \/ Connexion
  BY <1>4 DEF Temps, TickTropTot, TickConnecte, Demander, Connexion,
              ConnexionEchoue, ConnexionReussit
<1>5. CASE TickLit
  <2>1. CASE AbandonnerLiaison
    BY <1>5, <2>1, AbandonnerType, EmptySeq DEF TickLit
  <2>2. CASE ~AbandonnerLiaison
    BY <1>5, <2>2, LuType DEF TickLit
  <2>. QED
    BY <2>1, <2>2
<1>6. CASE EnvoiImpossible \/ PerteEnAttente
  BY <1>6, AbandonnerType, EmptySeq DEF EnvoiImpossible, PerteEnAttente
<1>7. CASE Envoyer
  <2>1. wire' \in Seq(Trames)
    BY <1>7, LuType DEF Envoyer
  <2>2. inbox' \in Seq(Trames)
    BY <1>7, TrameType, AppendProperties DEF Envoyer, Origines
  <2>. QED
    BY <1>7, <2>1, <2>2 DEF Envoyer
<1>8. CASE EnvoyerSansReponse
  BY <1>8, LuType DEF EnvoyerSansReponse
<1>9. CASE Ecarter
  BY <1>9, HeadTailProperties DEF Ecarter
<1>10. CASE RecevoirTropCourt \/ RecevoirStatut \/ RecevoirReglages \/ RecevoirCommande
  BY <1>10, RecevoirType
     DEF RecevoirTropCourt, RecevoirStatut, RecevoirReglages, RecevoirCommande
<1>11. CASE Expirer
  <2>1. connected
    BY <1>11 DEF Expirer, TypeOK, LoopType
  <2>. QED
    BY <1>11, <2>1, EchecType DEF Expirer
<1>. QED
  BY <1>1, <1>2, <1>3, <1>4, <1>5, <1>6, <1>7, <1>8, <1>9, <1>10, <1>11
     DEF Next, Appareil, Tick, Connexion, Echange

\* Every action keeps the supervision in its bounds: fewer failures than the limit
\* on an open link, and a delay of at most BackoffMax before a new attempt.
LEMMA LinkStep ==
    ASSUME TypeOK, Next
    PROVE  LinkType'
<1>. RadioType /\ LinkType /\ LoopType
  BY DEF TypeOK
<1>1. CASE Appareil \/ AppareilRepond
  BY <1>1 DEF Appareil, AppareilVaEtVient, AppareilRaccroche, AppareilParle,
              AppareilIgnore, AppareilRepond, LinkType
<1>2. CASE Temps
  <2>1. attente' \in 0..backoff /\ (connected => attente' = 0)
    BY <1>2 DEF Temps, Avance, LinkType
  <2>2. silence' \in Nat /\ (~connected => silence' = 0)
    BY <1>2 DEF Temps, LinkType
  <2>. QED
    BY <1>2, <2>1, <2>2 DEF Temps, LinkType
<1>3. CASE TickTropTot \/ TickConnecte \/ Demander
  BY <1>3 DEF TickTropTot, TickConnecte, Demander, LinkType
<1>4. CASE TickLit
  <2>1. CASE AbandonnerLiaison
    BY <1>4, <2>1, AbandonnerType DEF TickLit
  <2>2. CASE ~AbandonnerLiaison
    BY <1>4, <2>2 DEF TickLit, LinkType
  <2>. QED
    BY <2>1, <2>2
<1>5. CASE ConnexionEchoue
  <2>1. backoff' \in BackoffMin..BackoffMax /\ attente' = backoff'
    BY <1>5, DoubleType DEF ConnexionEchoue, ProgrammerReconnexion, LinkType
  <2>2. essais' \in 0..EssaisMax
    BY <1>5 DEF ConnexionEchoue, ProgrammerReconnexion, PremierS, LinkType
  <2>3. ~connected
    BY <1>5 DEF ConnexionEchoue, LoopType
  <2>. QED
    BY <1>5, <2>1, <2>2, <2>3 DEF ConnexionEchoue, LinkType
<1>6. CASE EnvoiImpossible \/ PerteEnAttente
  BY <1>6, AbandonnerType DEF EnvoiImpossible, PerteEnAttente
<1>7. CASE Envoyer \/ EnvoyerSansReponse \/ Ecarter
  BY <1>7 DEF Envoyer, EnvoyerSansReponse, Ecarter, LinkType
<1>8. CASE RecevoirTropCourt \/ RecevoirStatut \/ RecevoirReglages \/ RecevoirCommande
  <2>1. connected
    BY <1>8 DEF RecevoirTropCourt, RecevoirStatut, RecevoirReglages, RecevoirCommande,
                Recevoir, Acceptable, LoopType
  <2>2. failures' = 0 /\ silence' = 0 /\ 0 \in 0..(MaxFailures - 1)
    BY <1>8 DEF RecevoirTropCourt, RecevoirStatut, RecevoirReglages, RecevoirCommande,
                Recevoir
  <2>3. connected' /\ attente' = 0 /\ rompue' \in BOOLEAN
    BY <1>8, <2>1 DEF RecevoirTropCourt, RecevoirStatut, RecevoirReglages,
                RecevoirCommande, LinkType, RadioType
  <2>4. backoff' \in {0} \union BackoffMin..BackoffMax /\ essais' \in 0..EssaisMax
    BY <1>8 DEF RecevoirTropCourt, RecevoirStatut, RecevoirReglages, RecevoirCommande,
                LinkType
  <2>5. connected' = connected
    BY <1>8 DEF RecevoirTropCourt, RecevoirStatut, RecevoirReglages, RecevoirCommande
  <2>6. 0 \in 0..backoff'
    BY <2>4
  <2>7. abandonnees' \subseteq Demandes
    BY <1>8 DEF RecevoirTropCourt, RecevoirStatut, RecevoirReglages, RecevoirCommande,
                Recevoir, LinkType
  <2>. QED
    BY <2>1, <2>2, <2>3, <2>4, <2>5, <2>6, <2>7 DEF LinkType
<1>9. CASE Expirer
  <2>1. connected /\ demande \in Demandes
    BY <1>9 DEF Expirer, LoopType
  <2>. QED
    BY <1>9, <2>1, EchecType DEF Expirer
<1>10. CASE ConnexionReussit
  BY <1>10 DEF ConnexionReussit, LoopType, LinkType
<1>. QED
  BY <1>1, <1>2, <1>3, <1>4, <1>5, <1>6, <1>7, <1>8, <1>9, <1>10
     DEF Next, Tick, Connexion, Echange

\* Every action keeps the types of the loop, of the deadlines and of the age.
LEMMA LoopStep ==
    ASSUME TypeOK, Next
    PROVE  LoopType'
<1>. RadioType /\ LinkType /\ LoopType
  BY DEF TypeOK
<1>. USE DEF Demandes, Relectures
<1>1. CASE Appareil \/ AppareilRepond
  BY <1>1 DEF Appareil, AppareilVaEtVient, AppareilRaccroche, AppareilParle,
              AppareilIgnore, AppareilRepond, LoopType
<1>2. CASE Temps
  <2>1. relecture' \in 0..RefreshInterval /\ (attente = 0 => attente' = 0)
    BY <1>2 DEF Temps, Avance, LoopType
  <2>2. age' \in -1..AgeMax
    BY <1>2 DEF Temps, PremierS, AgeMax, LoopType
  <2>3. /\ delai' \in 0..(IF pc = "connexion" THEN DelaiConnexion ELSE DelaiLong)
        /\ delai = 0 => delai' = 0
    BY <1>2 DEF Temps, Avance, LoopType
  <2>. QED
    BY <1>2, <2>1, <2>2, <2>3 DEF Temps, LoopType
<1>3. CASE TickTropTot
  BY <1>3 DEF TickTropTot, LoopType
<1>12. CASE TickConnecte
  <2>1. delai' \in 0..DelaiConnexion /\ pc' = "connexion"
    BY <1>12 DEF TickConnecte
  <2>2. ~connected' /\ attente' = 0 /\ tour' \in BOOLEAN
    BY <1>12 DEF TickConnecte
  <2>. QED
    BY <1>12, <2>1, <2>2 DEF TickConnecte, LoopType
<1>11. CASE Demander
  BY <1>11 DEF Demander, LoopType
<1>4. CASE TickLit
  BY <1>4 DEF TickLit, LoopType
<1>5. CASE Connexion
  BY <1>5 DEF Connexion, ConnexionEchoue, ConnexionReussit, LoopType
<1>6. CASE EnvoiImpossible \/ PerteEnAttente \/ Expirer
  BY <1>6 DEF EnvoiImpossible, PerteEnAttente, Expirer, RelectureEchouee,
              RendreLaMain, LoopType
<1>7. CASE Envoyer
  <2>1. delai' \in 0..DelaiLong
    BY <1>7 DEF Envoyer, Delai
  <2>. QED
    BY <1>7, <2>1 DEF Envoyer, LoopType
<1>8. CASE EnvoyerSansReponse \/ Ecarter
  BY <1>8 DEF EnvoyerSansReponse, Ecarter, RendreLaMain, LoopType
<1>9. CASE RecevoirTropCourt \/ RecevoirStatut
  BY <1>9 DEF RecevoirTropCourt, RecevoirStatut, Recevoir, Acceptable,
              RelectureEchouee, RendreLaMain, LoopType
<1>10. CASE RecevoirReglages \/ RecevoirCommande
  BY <1>10 DEF RecevoirReglages, RecevoirCommande, Recevoir, Acceptable,
               RendreLaMain, LoopType, AgeMax
<1>. QED
  BY <1>1, <1>2, <1>3, <1>4, <1>5, <1>6, <1>7, <1>8, <1>9, <1>10, <1>11, <1>12
     DEF Next, Tick, Echange

-----------------------------------------------------------------------------
(* The silence of a link                                                   *)

\* What the silence of an open link may amount to after the failures counted.
BudgetDe(f) == RefreshInterval + f * PasParEchec
Budget == BudgetDe(failures)

\* Between two turns, a unit may pass before the turn that will read the state.
Retard == IF relecture = 0 /\ ~tour THEN 1 ELSE 0

EnReserve == silence + relecture + Retard <= Budget

\* A refresh in progress has no other to wait for; a command leaves it pending.
WithinBudget ==
    /\ pc = "libre" /\ connected => EnReserve
    /\ pc = "envoi" => IF demande \in Relectures THEN silence <= Budget ELSE EnReserve
    /\ pc = "reponse" =>
         IF demande \in Relectures
         THEN silence + delai <= Budget + DelaiReponse
         ELSE silence + delai + relecture + Retard <= Budget + DelaiLong

\* What one failure may cost.
LEMMA PasType ==
    /\ PasParEchec \in Nat
    /\ DelaiReponse + RefreshRetry <= PasParEchec
    /\ DelaiLong <= PasParEchec
BY DEF PasParEchec

\* The budget is a number, that of an answer just received to begin with, and never
\* more than that of the last failure tolerated.
LEMMA BudgetType ==
    ASSUME NEW f \in 0..(MaxFailures - 1)
    PROVE  /\ BudgetDe(f) \in Nat
           /\ f = 0 => BudgetDe(f) = RefreshInterval
           /\ BudgetDe(f) <= RefreshInterval + (MaxFailures - 1) * PasParEchec
<1>1. \A p \in Nat : /\ f * p \in Nat
                     /\ f = 0 => f * p = 0
                     /\ f * p <= (MaxFailures - 1) * p
  <2>. SUFFICES ASSUME NEW p \in Nat
                PROVE  /\ f * p \in Nat
                       /\ f = 0 => f * p = 0
                       /\ f * p <= (MaxFailures - 1) * p
    OBVIOUS
  <2>1. PICK k \in Nat : MaxFailures - 1 = f + k
    <3>1. MaxFailures - 1 - f \in Nat
      OBVIOUS
    <3>. QED
      BY <3>1
  <2>2. (f + k) * p = f * p + k * p /\ k * p >= 0
    OBVIOUS
  <2>3. f * p \in Nat /\ (f = 0 => f * p = 0)
    OBVIOUS
  <2>. QED
    BY <2>1, <2>2, <2>3
<1>. QED
  BY <1>1, PasType DEF BudgetDe

\* A failure of the link leaves one more step of budget.
LEMMA BudgetGrows ==
    ASSUME NEW f \in Nat
    PROVE  BudgetDe(f + 1) = BudgetDe(f) + PasParEchec
<1>1. \A p \in Nat : (f + 1) * p = f * p + p /\ f * p \in Nat
  OBVIOUS
<1>. QED
  BY <1>1, PasType DEF BudgetDe

-----------------------------------------------------------------------------
(* Sums of times, which the steps below instantiate                        *)

\* A unit of silence is a unit less to wait.
LEMMA UneUnite ==
    \A s, s1, d, d1 \in Nat : s1 = s + 1 /\ d1 + 1 = d => s1 + d1 <= s + d
OBVIOUS

\* The time to wait for the refresh, the turn due included, loses that unit.
LEMMA UneUniteEnReserve ==
    \A s, s1, r, r1, q, q1, m, m1 \in Nat :
       /\ s1 = s + 1 /\ r1 + 1 <= r + q /\ q1 = 0 /\ m1 = m /\ s + r + q <= m
       => s1 + r1 + q1 <= m1
OBVIOUS

\* A sum kept, with less to wait behind it.
LEMMA SommeTenue ==
    /\ \A s, s1, d, d1, m, m1 \in Nat :
          /\ s1 + d1 <= s + d /\ m1 = m /\ s + d <= m + DelaiReponse
          => s1 + d1 <= m1 + DelaiReponse
    /\ \A s, s1, d, d1, r, r1, q, q1, m, m1 \in Nat :
          /\ s1 + d1 <= s + d /\ r1 <= r /\ q1 = 0 /\ m1 = m
          /\ s + d + r + q <= m + DelaiLong
          => s1 + d1 + r1 + q1 <= m1 + DelaiLong
OBVIOUS

\* A delay begins: it is at most what the budget has room for.
LEMMA DelaiEntame ==
    /\ \A s, s1, d1, m, m1 \in Nat :
          s1 = s /\ d1 <= DelaiReponse /\ m1 = m /\ s <= m => s1 + d1 <= m1 + DelaiReponse
    /\ \A s, s1, d1, r, r1, q, q1, m, m1 \in Nat :
          /\ s1 = s /\ d1 <= DelaiLong /\ r1 = r /\ q1 = q /\ m1 = m /\ s + r + q <= m
          => s1 + d1 + r1 + q1 <= m1 + DelaiLong
OBVIOUS

\* After an answer, only the time before the next refresh counts.
LEMMA RienDAutre ==
    \A s1, r1, q1, m1 \in Nat :
       s1 = 0 /\ m1 = RefreshInterval /\ r1 + q1 <= RefreshInterval
       => s1 + r1 + q1 <= m1 /\ s1 <= m1
OBVIOUS

\* Every action stays within the budget: time moves units from the time left before
\* the refresh to the silence, and only a failure adds to their sum.
LEMMA BudgetKept ==
    ASSUME TypeOK, TypeOK', WithinBudget, Next
    PROVE  WithinBudget'
<1>l. LinkType /\ LinkType' /\ LoopType /\ LoopType'
  BY DEF TypeOK
<1>b. Budget \in Nat /\ Budget' \in Nat
  BY <1>l, BudgetType DEF Budget, LinkType
<1>t. /\ silence \in Nat /\ relecture \in Nat /\ delai \in Nat
      /\ silence' \in Nat /\ relecture' \in Nat /\ delai' \in Nat
  BY <1>l DEF LinkType, LoopType
<1>r. Retard \in Nat /\ Retard' \in Nat
  BY DEF Retard
<1>0. CASE UNCHANGED <<connected, failures, silence, relecture, pc, demande, delai, tour>>
  BY <1>0 DEF Budget, Retard, WithinBudget, EnReserve
<1>1. CASE Appareil \/ AppareilRepond \/ Ecarter
  BY <1>0, <1>1 DEF Appareil, AppareilVaEtVient, AppareilRaccroche, AppareilParle,
              AppareilIgnore, AppareilRepond, Ecarter
<1>2. CASE Temps
  <2>1. Budget' = Budget
    BY <1>2 DEF Temps, Budget
  <2>2. Retard' = 0
    BY <1>2 DEF Temps, Retard
  <2>3. relecture' <= relecture /\ (pc = "libre" => relecture' + 1 <= relecture + Retard)
    BY <1>l, <1>2 DEF Temps, Patiente, Avance, Retard, LoopType
  <2>4. pc = "reponse" => connected /\ delai' + 1 = delai
    BY <1>l, <1>2 DEF Temps, Patiente, Avance, LoopType
  <2>5. connected => silence' = silence + 1
    BY <1>2 DEF Temps
  <2>6. pc' = pc /\ demande' = demande /\ connected' = connected /\ pc # "envoi"
    BY <1>2 DEF Temps, Patiente
  <2>7. ASSUME pc = "libre", connected
        PROVE  EnReserve'
    <3>1. silence + relecture + Retard <= Budget
      BY <2>7 DEF WithinBudget, EnReserve
    <3>. QED
      BY <1>b, <1>r, <1>t, <2>1, <2>2, <2>3, <2>5, <2>7, <3>1, UneUniteEnReserve,
         Zenon DEF EnReserve
  <2>8. ASSUME pc = "reponse"
        PROVE  silence' + delai' <= silence + delai
    <3>1. silence' = silence + 1 /\ delai' + 1 = delai
      BY <2>4, <2>5, <2>8, Zenon
    <3>. QED
      BY <1>t, <3>1, UneUnite, Zenon
  <2>9. ASSUME pc = "reponse", demande \notin Relectures
        PROVE  silence' + delai' + relecture' + Retard' <= Budget' + DelaiLong
    <3>1. silence + delai + relecture + Retard <= Budget + DelaiLong
      BY <2>9 DEF WithinBudget
    <3>. QED
      BY <1>b, <1>r, <1>t, <2>1, <2>2, <2>3, <2>8, <2>9, <3>1, SommeTenue, Zenon
  <2>10. ASSUME pc = "reponse", demande \in Relectures
         PROVE  silence' + delai' <= Budget' + DelaiReponse
    <3>1. silence + delai <= Budget + DelaiReponse
      BY <2>10 DEF WithinBudget
    <3>. QED
      BY <1>b, <1>t, <2>1, <2>8, <2>10, <3>1, SommeTenue, Zenon
  <2>. QED
    BY <2>1, <2>6, <2>7, <2>9, <2>10 DEF WithinBudget
<1>3. CASE TickTropTot \/ TickConnecte \/ ConnexionEchoue
  BY <1>l, <1>3 DEF TickTropTot, TickConnecte, ConnexionEchoue, LoopType, WithinBudget
<1>4. CASE TickLit
  <2>1. CASE AbandonnerLiaison
    BY <1>l, <1>4, <2>1, AbandonnerType DEF TickLit, WithinBudget
  <2>2. CASE ~AbandonnerLiaison
    <3>1. Budget' = Budget /\ silence' = silence /\ relecture' = relecture
      BY <1>4, <2>2 DEF TickLit, Budget
    <3>2. silence + relecture + Retard <= Budget
      BY <1>4 DEF TickLit, WithinBudget, EnReserve
    <3>3. CASE relecture = 0
      <4>1. pc' = "envoi" /\ demande' \in Relectures
        BY <1>4, <2>2, <3>3 DEF TickLit, Relectures
      <4>2. silence' <= Budget'
        BY <1>b, <1>r, <1>t, <3>1, <3>2
      <4>. QED
        BY <4>1, <4>2 DEF WithinBudget
    <3>4. CASE relecture # 0
      <4>1. Retard' = 0 /\ pc' = "libre"
        BY <1>4, <2>2, <3>1, <3>4 DEF TickLit, Retard
      <4>2. EnReserve'
        BY <1>b, <1>r, <1>t, <3>1, <3>2, <4>1 DEF EnReserve
      <4>. QED
        BY <4>1, <4>2 DEF WithinBudget
    <3>. QED
      BY <3>3, <3>4
  <2>. QED
    BY <2>1, <2>2
<1>5. CASE ConnexionReussit
  BY <1>5, <1>b DEF ConnexionReussit, Relectures, WithinBudget
<1>6. CASE Demander
  <2>1. Budget' = Budget /\ Retard' = Retard
    BY <1>6 DEF Demander, Budget, Retard
  <2>2. pc' = "envoi" /\ silence' = silence /\ relecture' = relecture
    BY <1>6 DEF Demander
  <2>3. EnReserve
    BY <1>6 DEF Demander, WithinBudget
  <2>4. silence <= Budget
    BY <1>b, <1>r, <1>t, <2>3 DEF EnReserve
  <2>. QED
    BY <2>1, <2>2, <2>3, <2>4 DEF WithinBudget, EnReserve
<1>7. CASE EnvoiImpossible \/ PerteEnAttente
  BY <1>l, <1>7, AbandonnerType DEF EnvoiImpossible, PerteEnAttente, RendreLaMain, WithinBudget
<1>8. CASE Envoyer
  <2>1. Budget' = Budget /\ Retard' = Retard
    BY <1>8 DEF Envoyer, Budget, Retard
  <2>2. delai' <= DelaiLong /\ (demande \in Relectures => delai' <= DelaiReponse)
    BY <1>8 DEF Envoyer, Delai
  <2>3. /\ pc = "envoi" /\ pc' = "reponse" /\ demande' = demande
        /\ silence' = silence /\ relecture' = relecture
    BY <1>8 DEF Envoyer
  <2>4. ASSUME demande \in Relectures
        PROVE  silence' + delai' <= Budget' + DelaiReponse
    <3>1. silence <= Budget
      BY <2>3, <2>4 DEF WithinBudget
    <3>. QED
      BY <1>b, <1>t, <2>1, <2>2, <2>3, <2>4, <3>1, DelaiEntame, Zenon
  <2>5. ASSUME demande \notin Relectures
        PROVE  silence' + delai' + relecture' + Retard' <= Budget' + DelaiLong
    <3>1. silence + relecture + Retard <= Budget
      BY <2>3, <2>5 DEF WithinBudget, EnReserve
    <3>. QED
      BY <1>b, <1>r, <1>t, <2>1, <2>2, <2>3, <3>1, DelaiEntame, Zenon
  <2>. QED
    BY <2>3, <2>4, <2>5 DEF WithinBudget
<1>9. CASE EnvoyerSansReponse
  BY <1>9 DEF EnvoyerSansReponse, RendreLaMain, Budget, Retard, WithinBudget, EnReserve
<1>10. CASE RecevoirTropCourt \/ RecevoirStatut \/ RecevoirReglages \/ RecevoirCommande
  <2>1. silence' = 0 /\ failures' = 0
    BY <1>10 DEF RecevoirTropCourt, RecevoirStatut, RecevoirReglages, RecevoirCommande,
                 Recevoir
  <2>2. Budget' = RefreshInterval
    BY <1>l, <2>1, BudgetType DEF Budget, LinkType
  <2>3. relecture' + Retard' <= RefreshInterval
    <3>1. relecture' \in 0..RefreshInterval
      BY <1>l DEF LoopType
    <3>2. \A r1 \in 0..RefreshInterval, q1 \in 0..1 :
             (r1 # 0 => q1 = 0) => r1 + q1 <= RefreshInterval
      OBVIOUS
    <3>3. Retard' \in 0..1 /\ (relecture' # 0 => Retard' = 0)
      BY DEF Retard
    <3>. QED
      BY <3>1, <3>2, <3>3, Zenon
  <2>4. pc' \in {"libre", "envoi"}
    BY <1>10 DEF RecevoirTropCourt, RecevoirStatut, RecevoirReglages, RecevoirCommande,
                 RendreLaMain
  <2>5. silence' + relecture' + Retard' <= Budget' /\ silence' <= Budget'
    BY <1>b, <1>r, <1>t, <2>1, <2>2, <2>3, RienDAutre, Zenon
  <2>. QED
    BY <2>4, <2>5 DEF WithinBudget, EnReserve
<1>11. CASE Expirer
  <2>1. /\ connected /\ delai = 0 /\ pc = "reponse" /\ pc' = "libre"
        /\ demande \in Demandes
    BY <1>l, <1>11 DEF Expirer, LoopType, RendreLaMain
  <2>2. connected' => failures' = failures + 1 /\ silence' = silence
    BY <1>11, <2>1, EchecType DEF Expirer, TypeOK
  <2>3. connected' => Budget' = Budget + PasParEchec
    BY <1>l, <2>2, BudgetGrows DEF Budget, LinkType
  <2>4. ASSUME demande \in Relectures, connected'
        PROVE  EnReserve'
    <3>1. relecture' = RefreshRetry /\ Retard' = 0
      BY <1>11, <2>4 DEF Expirer, RelectureEchouee, Retard
    <3>2. silence <= Budget + DelaiReponse
      BY <1>t, <2>1, <2>4 DEF WithinBudget
    <3>. QED
      BY <1>b, <1>t, <2>2, <2>3, <2>4, <3>1, <3>2, PasType DEF EnReserve
  <2>5. ASSUME demande \notin Relectures, connected'
        PROVE  EnReserve'
    <3>1. relecture' = relecture /\ Retard' = Retard
      BY <1>11, <2>5 DEF Expirer, RelectureEchouee, RendreLaMain, Retard
    <3>2. silence + relecture + Retard <= Budget + DelaiLong
      BY <1>t, <1>r, <2>1, <2>5 DEF WithinBudget
    <3>. QED
      BY <1>b, <1>r, <1>t, <2>2, <2>3, <2>5, <3>1, <3>2, PasType DEF EnReserve
  <2>. QED
    BY <2>1, <2>4, <2>5 DEF WithinBudget
<1>. QED
  BY <1>1, <1>2, <1>3, <1>4, <1>5, <1>6, <1>7, <1>8, <1>9, <1>10, <1>11
     DEF Next, Tick, Connexion, Echange

\* Whatever the program is doing, the budget bounds the silence.
LEMMA BudgetBounds ==
    ASSUME TypeOK, WithinBudget
    PROVE  SilentLinkEnds
<1>. LinkType /\ LoopType
  BY DEF TypeOK
<1>1. Budget \in Nat /\ Budget <= RefreshInterval + (MaxFailures - 1) * PasParEchec
  BY BudgetType DEF Budget, LinkType
<1>2. silence \in Nat /\ relecture \in Nat /\ delai \in Nat /\ Retard \in 0..1
  BY DEF LinkType, LoopType, Retard
<1>3. silence <= Budget + DelaiLong
  <2>1. CASE ~connected
    BY <1>1, <2>1 DEF LinkType
  <2>2. CASE connected
    BY <1>1, <1>2, <2>2 DEF WithinBudget, EnReserve, LoopType
  <2>. QED
    BY <2>1, <2>2
<1>4. (MaxFailures - 1) * PasParEchec \in Int
  BY PasType
<1>. QED
  BY <1>1, <1>2, <1>3, <1>4 DEF SilentLinkEnds, SilenceMax

-----------------------------------------------------------------------------
(* The theorems                                                            *)

IInv == TypeOK /\ WithinBudget

\* The program starts with no link, no failure counted and nothing on its way.
LEMMA IInvInit == Init => IInv
<1>. SUFFICES ASSUME Init
              PROVE  IInv
  OBVIOUS
<1>1. RadioType
  BY EmptySeq DEF Init, RadioType
<1>2. LinkType
  <2>1. 0 \in 0..(MaxFailures - 1) /\ 0 \in 0..EssaisMax /\ 0 \in 0..0
    OBVIOUS
  <2>. QED
    BY <2>1 DEF Init, LinkType
<1>3. LoopType
  <2>1. 0 \in 0..RefreshInterval /\ -1 \in -1..AgeMax /\ 0 \in 0..DelaiLong
    BY DEF AgeMax
  <2>. QED
    BY <2>1 DEF Init, LoopType, Demandes, Relectures
<1>4. WithinBudget
  BY DEF Init, WithinBudget
<1>. QED
  BY <1>1, <1>2, <1>3, <1>4 DEF IInv, TypeOK

\* Every step of the program, of the device and of time keeps the inductive invariant.
LEMMA IInvStep == IInv /\ [Next]_vars => IInv'
<1>. SUFFICES ASSUME IInv, [Next]_vars
              PROVE  IInv'
  OBVIOUS
<1>1. CASE Next
  <2>1. TypeOK'
    BY <1>1, RadioStep, LinkStep, LoopStep DEF IInv, TypeOK
  <2>. QED
    BY <1>1, <2>1, BudgetKept DEF IInv
<1>2. CASE UNCHANGED vars
  BY <1>2 DEF vars, IInv, TypeOK, RadioType, LinkType, LoopType, WithinBudget,
              EnReserve, Budget, Retard
<1>. QED
  BY <1>1, <1>2

\* The inductive invariant holds in every reachable state.
THEOREM Inductive == Spec => []IInv
BY IInvInit, IInvStep, PTL DEF Spec

\* Every variable has its type: no open link with MaxFailures failures, no delay
\* beyond BackoffMax, nothing counted on a closed link.
THEOREM Typed == Spec => []TypeOK
<1>1. IInv => TypeOK
  BY DEF IInv
<1>. QED
  BY <1>1, Inductive, PTL

\* traiter_echec_liaison and sweetdawn_refresh: a link that gives no answer is
\* abandoned within SilenceMax, whatever clients ask and whatever the delays.
THEOREM SilenceBounded == Spec => []SilentLinkEnds
<1>1. IInv => SilentLinkEnds
  BY BudgetBounds DEF IInv
<1>. QED
  BY <1>1, Inductive, PTL

-----------------------------------------------------------------------------
(* The delay before reconnecting                                           *)

\* Puissance is what its definition says, and its values are positive.
LEMMA PuissanceDef ==
    /\ Puissance \in [Nat -> Nat \ {0}]
    /\ Puissance[0] = 1
    /\ \A n \in Nat : Puissance[n + 1] = 2 * Puissance[n]
<1> DEFINE Eq(f) == f = [n \in Nat |-> IF n = 0 THEN 1 ELSE 2 * f[n - 1]]
<1>1. PICK P : P = Nat \ {0}
    OBVIOUS
<1>2. PICK f \in [Nat -> P] : f[0] = 1 /\ \A n \in Nat : f[n + 1] = 2 * f[n]
  BY <1>1, Doubles
<1>4. Eq(f)
  <2>1. ASSUME NEW n \in Nat
        PROVE  f[n] = IF n = 0 THEN 1 ELSE 2 * f[n - 1]
    <3>1. CASE n = 0
        BY <1>2, <3>1
    <3>2. CASE n # 0
      <4>1. n - 1 \in Nat /\ (n - 1) + 1 = n
          BY <3>2
      <4> QED
          BY <1>2, <3>2, <4>1
    <3> QED
        BY <3>1, <3>2
  <2> QED
      BY <1>2, <2>1
<1>5. Puissance = CHOOSE g : Eq(g)
    BY DEF Puissance
<1>6. Eq(Puissance)
  <2> HIDE DEF Eq
  <2> QED
      BY <1>4, <1>5
<1>7. \A n \in Nat : Puissance[n] = IF n = 0 THEN 1 ELSE 2 * Puissance[n - 1]
    BY <1>6
<1> HIDE DEF Eq
<1>8. Puissance[0] = 1
    BY <1>7
<1>9. \A n \in Nat : Puissance[n + 1] = 2 * Puissance[n]
  <2>1. ASSUME NEW n \in Nat
        PROVE  Puissance[n + 1] = 2 * Puissance[n]
    <3>1. n + 1 \in Nat /\ n + 1 # 0 /\ (n + 1) - 1 = n
        OBVIOUS
    <3> QED
        BY <1>7, <3>1
  <2> QED
      BY <2>1
<1>10. Nat \subseteq {n \in Nat : Puissance[n] \in Nat \ {0}}
  <2> DEFINE T == {n \in Nat : Puissance[n] \in Nat \ {0}}
  <2>1. 0 \in T
      BY <1>8
  <2>2. \A n \in Nat : n \in T => n + 1 \in T
      BY <1>9
  <2> HIDE DEF T
  <2> QED
      BY <2>1, <2>2, Recurrence DEF T
<1>11. DOMAIN Puissance = Nat /\ Puissance = [n \in Nat |-> Puissance[n]]
    BY <1>6 DEF Eq
<1> QED
    BY <1>8, <1>9, <1>10, <1>11

\* programmer_reconnexion goes from each delay to the next one of the list.
LEMMA DoubleSuit ==
    ASSUME NEW n \in Nat
    PROVE  Double(AttenteApres(n)) = AttenteApres(n + 1)
<1> DEFINE p(i) == BackoffMin * Puissance[i]
<1>1. \A i \in Nat : p(i) \in Nat \ {0} /\ p(i + 1) = 2 * p(i)
  <2>1. ASSUME NEW i \in Nat
        PROVE  p(i) \in Nat \ {0} /\ p(i + 1) = 2 * p(i)
    <3>1. Puissance[i] \in Nat \ {0} /\ Puissance[i + 1] = 2 * Puissance[i]
        BY PuissanceDef
    <3>2. BackoffMin \in Nat \ {0}
        OBVIOUS
    <3> QED
        BY <3>1, <3>2
  <2> QED
      BY <2>1
<1>2. p(0) = BackoffMin
  <2>1. Puissance[0] = 1 /\ BackoffMin \in Nat
      BY PuissanceDef
  <2> QED
      BY <2>1
<1>3. \A k \in Nat : AttenteApres(k) =
          IF k = 0 THEN 0
          ELSE IF k > 1 /\ p(k - 2) >= BackoffMax \div 2 THEN BackoffMax
          ELSE p(k - 1)
    BY DEF AttenteApres
<1> HIDE DEF p
<1>4. CASE n = 0
    BY <1>2, <1>3, <1>4 DEF Double
<1>5. CASE n = 1
  <2>1. AttenteApres(1) = BackoffMin
      BY <1>2, <1>3
  <2>2. p(1) = 2 * BackoffMin
      BY <1>1, <1>2
  <2>3. AttenteApres(2) = IF BackoffMin >= BackoffMax \div 2 THEN BackoffMax ELSE 2 * BackoffMin
      BY <1>2, <1>3, <2>2
  <2> QED
      BY <1>5, <2>1, <2>3 DEF Double
<1>6. CASE n > 1
  <2>1. n - 2 \in Nat /\ n - 1 \in Nat /\ (n - 2) + 1 = n - 1 /\ (n - 1) + 1 = n
      BY <1>6
  <2>2. p(n - 2) \in Nat \ {0} /\ p(n - 1) = 2 * p(n - 2) /\ p(n) = 2 * p(n - 1)
      BY <1>1, <2>1
  <2>3. AttenteApres(n) = IF p(n - 2) >= BackoffMax \div 2 THEN BackoffMax ELSE p(n - 1)
      BY <1>3, <1>6
  <2>4. AttenteApres(n + 1) = IF p(n - 1) >= BackoffMax \div 2 THEN BackoffMax ELSE p(n)
    <3>1. n + 1 \in Nat /\ n + 1 # 0 /\ n + 1 > 1 /\ (n + 1) - 2 = n - 1 /\ (n + 1) - 1 = n
        BY <1>6
    <3> QED
        BY <1>3, <3>1
  <2> DEFINE a == p(n - 2)
             b == p(n - 1)
             c == p(n)
  <2>5. a \in Nat \ {0} /\ b = 2 * a /\ c = 2 * b
      BY <2>2
  <2>6. CASE a >= BackoffMax \div 2
    <3>1. b >= BackoffMax \div 2
        BY <2>5, <2>6
    <3>2. Double(BackoffMax) = BackoffMax
        BY DEF Double
    <3> QED
        BY <2>3, <2>4, <2>6, <3>1, <3>2
  <2>7. CASE ~(a >= BackoffMax \div 2)
    <3>1. Double(b) = IF b >= BackoffMax \div 2 THEN BackoffMax ELSE 2 * b
        BY <2>5 DEF Double
    <3> QED
        BY <2>3, <2>4, <2>5, <2>7, <3>1
  <2> QED
      BY <2>5, <2>6, <2>7
<1> QED
    BY <1>4, <1>5, <1>6

\* Each failure adds one to the count and goes to the next delay.
LEMMA BackoffEchec ==
    ASSUME LinkType, BackoffFollowsFailures, ProgrammerReconnexion
    PROVE  BackoffFollowsFailures'
<1>1. SUFFICES ASSUME essais' < EssaisMax
               PROVE  backoff' = AttenteApres(essais')
    BY DEF BackoffFollowsFailures, AttenteApres
<1>2. essais \in Nat /\ essais' = essais + 1 /\ essais < EssaisMax
    BY <1>1 DEF ProgrammerReconnexion, PremierS, LinkType
<1>3. backoff = AttenteApres(essais)
    BY <1>2 DEF BackoffFollowsFailures
<1> QED
    BY <1>2, <1>3, DoubleSuit DEF ProgrammerReconnexion

LEMMA BackoffStep ==
    ASSUME TypeOK, BackoffFollowsFailures, [Next]_vars
    PROVE  BackoffFollowsFailures'
<1> LinkType
    BY DEF TypeOK
<1>1. CASE ProgrammerReconnexion
    BY <1>1, BackoffEchec
<1>2. CASE UNCHANGED <<backoff, essais>>
    BY <1>2 DEF BackoffFollowsFailures, AttenteApres
<1>3. CASE RecevoirReglages
  <2>1. essais' = 0 /\ backoff' = 0
      BY <1>3 DEF RecevoirReglages
  <2> QED
      BY <2>1 DEF BackoffFollowsFailures, AttenteApres
<1>4. \/ ProgrammerReconnexion
      \/ UNCHANGED <<backoff, essais>>
      \/ RecevoirReglages
  <2>1. CASE AppareilVaEtVient \/ AppareilRaccroche \/ AppareilParle \/ AppareilIgnore
             \/ AppareilRepond
      BY <2>1 DEF AppareilVaEtVient, AppareilRaccroche, AppareilParle, AppareilIgnore,
                  AppareilRepond
  <2>2. CASE Temps \/ TickTropTot \/ TickConnecte \/ Demander
      BY <2>2 DEF Temps, TickTropTot, TickConnecte, Demander
  <2>3. CASE TickLit
      BY <2>3 DEF TickLit, AbandonnerLiaison
  <2>4. CASE ConnexionEchoue \/ ConnexionReussit
      BY <2>4 DEF ConnexionEchoue, ConnexionReussit
  <2>5. CASE EnvoiImpossible \/ PerteEnAttente
      BY <2>5 DEF EnvoiImpossible, PerteEnAttente, AbandonnerLiaison
  <2>6. CASE Envoyer \/ EnvoyerSansReponse \/ Ecarter
      BY <2>6 DEF Envoyer, EnvoyerSansReponse, Ecarter
  <2>7. CASE RecevoirTropCourt \/ RecevoirStatut \/ RecevoirCommande
      BY <2>7 DEF RecevoirTropCourt, RecevoirStatut, RecevoirCommande
  <2>8. CASE Expirer
      BY <2>8 DEF Expirer, TraiterEchec, GarderLiaison, AbandonnerLiaison
  <2>9. CASE UNCHANGED vars
      BY <2>9 DEF vars
  <2> QED
      BY <2>1, <2>2, <2>3, <2>4, <2>5, <2>6, <2>7, <2>8, <2>9
      DEF Next, Appareil, Tick, Connexion, Echange
<1> QED
    BY <1>1, <1>2, <1>3, <1>4

\* The delay is the one of the number of failures in a row, for any smallest and
\* any longest delay: no order of events brings it back or makes it skip one.
THEOREM BackoffTrue == Spec => []BackoffFollowsFailures
<1>1. Init => BackoffFollowsFailures
    BY DEF Init, BackoffFollowsFailures, AttenteApres
<1>2. TypeOK /\ BackoffFollowsFailures /\ [Next]_vars => BackoffFollowsFailures'
    BY BackoffStep
<1> QED
    BY <1>1, <1>2, Typed, PTL DEF Spec

-----------------------------------------------------------------------------
(* Late answers                                                            *)

Siennes(s) == {i \in 1..Len(s) : s[i].de = "sienne"}
Sans(s) == Siennes(s) = {}
AuPlusUne(s) == \A i, j \in Siennes(s) : i = j

\* Each frame is the answer awaited (p, d: where the program is, its request), or a
\* late one of a request given up (a), or a message of the device.
Dites(s, p, d, a) ==
    \A i \in 1..Len(s) : IF s[i].de = "sienne" THEN p = "reponse" /\ s[i].code = d
                                               ELSE s[i].code \in a \union {"evenement"}

\* The answer awaited is on its way once at most, to the device or back.
Bien(w, b, p, d, a) ==
    /\ Dites(w, p, d, a) /\ Dites(b, p, d, a)
    /\ AuPlusUne(w) /\ AuPlusUne(b) /\ (Sans(w) \/ Sans(b))

AnswerInv == Bien(wire, inbox, pc, demande, abandonnees)

\* A list that loses its first elements keeps what is said of the others.
LEMMA ResteDites ==
    ASSUME NEW r \in Seq(Trames), NEW s \in Seq(Trames), NEW k, Reste(s, r, k),
           NEW p, NEW d, NEW a, Dites(r, p, d, a)
    PROVE  Dites(s, p, d, a)
<1>1. Len(s) \in Nat /\ Len(r) \in Nat /\ k \in Nat /\ Len(s) + k = Len(r)
  BY LenProperties DEF Reste
<1>2. ASSUME NEW i \in 1..Len(s)
      PROVE  i + k \in 1..Len(r) /\ s[i] = r[i + k]
  BY <1>1, <1>2 DEF Reste
<1>. QED
  BY <1>2 DEF Dites

\* Nor does it gain an answer.
LEMMA ResteSiennes ==
    ASSUME NEW r \in Seq(Trames), NEW s \in Seq(Trames), NEW k, Reste(s, r, k)
    PROVE  /\ Sans(r) => Sans(s)
           /\ AuPlusUne(r) => AuPlusUne(s)
<1>1. Len(s) \in Nat /\ Len(r) \in Nat /\ k \in Nat /\ Len(s) + k = Len(r)
  BY LenProperties DEF Reste
<1>2. ASSUME NEW i \in Siennes(s)
      PROVE  i \in Nat /\ i + k \in Siennes(r)
  <2>1. i \in 1..Len(s) /\ s[i].de = "sienne"
    BY <1>2 DEF Siennes
  <2>2. i + k \in 1..Len(r) /\ s[i] = r[i + k]
    BY <1>1, <2>1 DEF Reste
  <2>. QED
    BY <1>1, <2>1, <2>2 DEF Siennes
<1>3. Sans(r) => Sans(s)
  BY <1>2 DEF Sans
<1>4. ASSUME AuPlusUne(r), NEW i \in Siennes(s), NEW j \in Siennes(s)
      PROVE  i = j
  <2>1. i + k = j + k /\ i \in Nat /\ j \in Nat
    BY <1>2, <1>4 DEF AuPlusUne
  <2>. QED
    BY <1>1, <2>1
<1>. QED
  BY <1>3, <1>4 DEF AuPlusUne

LEMMA ResteBien ==
    ASSUME NEW r \in Seq(Trames), NEW s \in Seq(Trames), NEW k, Reste(s, r, k),
           NEW b, NEW p, NEW d, NEW a
    PROVE  /\ Bien(r, b, p, d, a) => Bien(s, b, p, d, a)
           /\ Bien(b, r, p, d, a) => Bien(b, s, p, d, a)
BY ResteDites, ResteSiennes DEF Bien

\* The first frame, and the others.
LEMMA TeteEtSuite ==
    ASSUME NEW s \in Seq(Trames), s # <<>>
    PROVE  /\ Tail(s) \in Seq(Trames) /\ Reste(Tail(s), s, 1)
           /\ Head(s) = s[1] /\ Head(s) \in Trames /\ 1 \in 1..Len(s)
<1>1. Len(s) \in Nat /\ Len(s) # 0
  BY LenProperties, EmptySeq
<1>2. Head(s) = s[1] /\ Head(s) \in Trames
  BY HeadTailProperties
<1>3. Len(Tail(s)) = Len(s) - 1 /\ Tail(s) \in Seq(Trames)
  BY HeadTailProperties
<1>4. \A i \in 1..Len(Tail(s)) : Tail(s)[i] = s[i + 1]
  BY HeadTailProperties
<1>. QED
  BY <1>1, <1>2, <1>3, <1>4 DEF Reste

\* A frame that comes last is the only new one.
LEMMA AjouterFrame ==
    ASSUME NEW s \in Seq(Trames), NEW f \in Trames
    PROVE  /\ Append(s, f) \in Seq(Trames)
           /\ f.de # "sienne" => Siennes(Append(s, f)) = Siennes(s)
           /\ Sans(s) => AuPlusUne(Append(s, f))
           /\ \A p, d, a :
                 /\ Dites(s, p, d, a)
                 /\ IF f.de = "sienne" THEN p = "reponse" /\ f.code = d
                                       ELSE f.code \in a \union {"evenement"}
                 => Dites(Append(s, f), p, d, a)
<1>1. Len(s) \in Nat
  BY LenProperties
<1>2. PICK t : t = Append(s, f)
  OBVIOUS
<1>3. t \in Seq(Trames) /\ Len(t) = Len(s) + 1 /\ t[Len(s) + 1] = f
  BY <1>2, AppendProperties
<1>4. \A i \in 1..Len(s) : t[i] = s[i]
  BY <1>2, AppendProperties
<1>5. \A i \in 1..Len(t) : i \in 1..Len(s) \/ i = Len(s) + 1
  BY <1>1, <1>3
<1>6. 1..Len(s) \subseteq 1..Len(t)
  BY <1>1, <1>3
<1>7. Siennes(s) \subseteq Siennes(t)
  BY <1>4, <1>6 DEF Siennes
<1>8. Siennes(t) \subseteq Siennes(s) \union {Len(s) + 1}
  BY <1>4, <1>5 DEF Siennes
<1>9. f.de # "sienne" => Len(s) + 1 \notin Siennes(t)
  BY <1>3 DEF Siennes
<1>10. Sans(s) => AuPlusUne(t)
  BY <1>8 DEF Sans, AuPlusUne
<1>11. ASSUME NEW p, NEW d, NEW a, Dites(s, p, d, a),
              IF f.de = "sienne" THEN p = "reponse" /\ f.code = d
                                 ELSE f.code \in a \union {"evenement"}
       PROVE  Dites(t, p, d, a)
  BY <1>3, <1>4, <1>5, <1>11 DEF Dites
<1>. QED
  BY <1>2, <1>3, <1>7, <1>8, <1>9, <1>10, <1>11

\* While no answer is awaited, there is none, and the request may be chosen.
LEMMA RienAttendu ==
    ASSUME NEW w, NEW b, NEW p, NEW d, NEW a, Bien(w, b, p, d, a), p # "reponse"
    PROVE  /\ Sans(w) /\ Sans(b)
           /\ \A p1, d1 : Bien(w, b, p1, d1, a)
<1>1. \A s : Dites(s, p, d, a) => Sans(s) /\ \A p1, d1 : Dites(s, p1, d1, a)
  BY DEF Dites, Sans, Siennes
<1>. QED
  BY <1>1 DEF Bien

\* The exchange ends, and what is still to come is marked late: d has been given up,
\* or its answer has been taken.
LEMMA DaterBien ==
    ASSUME NEW w \in Seq(Trames), NEW b \in Seq(Trames), NEW p, NEW d, NEW a,
           Dites(w, p, d, a), Dites(b, p, d, a),
           NEW p1, NEW d1, NEW a1, a \subseteq a1, d \in a1 \/ (Sans(w) /\ Sans(b))
    PROVE  Bien(Dater(w, "tardive"), Dater(b, "tardive"), p1, d1, a1)
<1>1. ASSUME NEW s \in Seq(Trames), Dites(s, p, d, a), d \in a1 \/ Sans(s)
      PROVE  Sans(Dater(s, "tardive")) /\ Dites(Dater(s, "tardive"), p1, d1, a1)
  <2>1. Len(s) \in Nat /\ DOMAIN s = 1..Len(s) /\ \A i \in 1..Len(s) : s[i] \in Trames
    BY <1>1, LenProperties, ElementOfSeq
  <2>2. PICK t : t = Dater(s, "tardive")
    OBVIOUS
  <2>3. DOMAIN t = 1..Len(s)
    BY <2>1, <2>2 DEF Dater
  <2>4. Len(t) = Len(s)
    <3>1. t \in Seq(Trames)
      BY <1>1, <2>2, DaterType DEF Origines
    <3>2. Len(t) \in Nat /\ DOMAIN t = 1..Len(t)
      BY <3>1, LenProperties
    <3>. QED
      BY <2>1, <2>3, <3>2
  <2>5. \A i \in 1..Len(s) : t[i].de = "tardive" /\ t[i].code = s[i].code
    BY <2>1, <2>2 DEF Dater, Trames
  <2>6. \A i \in 1..Len(s) : s[i].code \in a1 \union {"evenement"}
    BY <1>1 DEF Dites, Sans, Siennes
  <2>7. Sans(t)
    BY <2>4, <2>5 DEF Sans, Siennes
  <2>8. Dites(t, p1, d1, a1)
    BY <2>4, <2>5, <2>6 DEF Dites
  <2>. QED
    BY <2>2, <2>7, <2>8
<1>2. \A s : Sans(s) => AuPlusUne(s)
  BY DEF Sans, AuPlusUne
<1>. QED
  BY <1>1, <1>2 DEF Bien

LEMMA RienBien ==
    ASSUME NEW p, NEW d, NEW a
    PROVE  Bien(<<>>, <<>>, p, d, a)
BY DEF Bien, Dites, Sans, AuPlusUne, Siennes

\* Each action keeps AnswerInv.
LEMMA AnswerStep ==
    ASSUME TypeOK, AnswerInv, [Next]_vars
    PROVE  AnswerInv'
<1>1. wire \in Seq(Trames) /\ inbox \in Seq(Trames) /\ demande \in Demandes
  BY DEF TypeOK, RadioType, LoopType
<1>2. Bien(wire, inbox, pc, demande, abandonnees)
  BY DEF AnswerInv
<1>3. SUFFICES Bien(wire', inbox', pc', demande', abandonnees')
  BY DEF AnswerInv
<1>4. CASE AbandonnerLiaison
  BY <1>4, RienBien DEF AbandonnerLiaison
<1>5. CASE UNCHANGED <<radio, pc, demande, abandonnees>>
  BY <1>2, <1>5
<1>6. CASE AppareilParle
  <2>1. PICK f : f = Trame("evenement", "tardive")
    OBVIOUS
  <2>2. f \in Trames /\ f.de = "tardive" /\ f.code = "evenement"
    BY <2>1, TrameType DEF Origines, Trame
  <2>3. Bien(Append(wire, f), inbox, pc, demande, abandonnees)
    <3>1. Dites(Append(wire, f), pc, demande, abandonnees)
      BY <1>1, <1>2, <2>2, AjouterFrame DEF Bien
    <3>2. Siennes(Append(wire, f)) = Siennes(wire)
      BY <1>1, <2>2, AjouterFrame
    <3>. QED
      BY <1>2, <3>1, <3>2 DEF Bien, AuPlusUne, Sans
  <2>4. /\ wire' = Append(wire, f)
        /\ UNCHANGED <<inbox, pc, demande, abandonnees>>
    BY <1>6, <2>1 DEF AppareilParle
  <2>. QED
    BY <2>3, <2>4
<1>7. CASE AppareilRepond
  <2>1. /\ inbox # <<>> /\ inbox' = Tail(inbox) /\ wire' = Append(wire, Head(inbox))
        /\ UNCHANGED <<pc, demande, abandonnees>>
    BY <1>7 DEF AppareilRepond
  <2>2. PICK f, b : f = Head(inbox) /\ b = Tail(inbox)
    OBVIOUS
  <2>3. b \in Seq(Trames) /\ Reste(b, inbox, 1) /\ f = inbox[1] /\ f \in Trames
        /\ 1 \in 1..Len(inbox)
    BY <1>1, <2>1, <2>2, TeteEtSuite
  <2>4. Bien(wire, b, pc, demande, abandonnees)
    BY <1>1, <1>2, <2>3, ResteBien
  <2>5. Dites(Append(wire, f), pc, demande, abandonnees)
    <3>1. IF f.de = "sienne" THEN pc = "reponse" /\ f.code = demande
                             ELSE f.code \in abandonnees \union {"evenement"}
      BY <1>2, <2>3 DEF Bien, Dites
    <3>. QED
      BY <1>1, <1>2, <2>3, <3>1, AjouterFrame DEF Bien
  <2>6. CASE f.de # "sienne"
    <3>1. Siennes(Append(wire, f)) = Siennes(wire)
      BY <1>1, <2>3, <2>6, AjouterFrame
    <3>2. Bien(Append(wire, f), b, pc, demande, abandonnees)
      BY <2>4, <2>5, <3>1 DEF Bien, AuPlusUne, Sans
    <3>. QED
      BY <2>1, <2>2, <3>2
  <2>7. CASE f.de = "sienne"
    <3>1. 1 \in Siennes(inbox)
      BY <2>3, <2>7 DEF Siennes
    <3>2. Sans(wire)
      BY <1>2, <3>1 DEF Bien, Sans
    <3>3. Sans(b)
      <4>1. ASSUME NEW i \in Siennes(b)
            PROVE  FALSE
        <5>1. i \in 1..Len(b) /\ b[i].de = "sienne" /\ b[i] = inbox[i + 1]
          BY <2>3 DEF Siennes, Reste
        <5>2. Len(b) \in Nat /\ Len(b) + 1 = Len(inbox)
          BY <2>3, LenProperties DEF Reste
        <5>3. i + 1 \in 1..Len(inbox) /\ i + 1 # 1
          BY <5>1, <5>2
        <5>4. i + 1 \in Siennes(inbox)
          BY <5>1, <5>3 DEF Siennes
        <5>5. AuPlusUne(inbox)
          BY <1>2 DEF Bien
        <5>. QED
          BY <3>1, <5>3, <5>4, <5>5 DEF AuPlusUne
      <4>. QED
        BY <4>1 DEF Sans
    <3>4. AuPlusUne(Append(wire, f))
      BY <1>1, <2>3, <3>2, AjouterFrame
    <3>5. Bien(Append(wire, f), b, pc, demande, abandonnees)
      BY <2>4, <2>5, <3>3, <3>4 DEF Bien
    <3>. QED
      BY <2>1, <2>2, <3>5
  <2>. QED
    BY <2>6, <2>7
<1>8. CASE AppareilIgnore
  <2>1. inbox # <<>> /\ inbox' = Tail(inbox) /\ UNCHANGED <<wire, pc, demande, abandonnees>>
    BY <1>8 DEF AppareilIgnore
  <2>2. Tail(inbox) \in Seq(Trames) /\ Reste(Tail(inbox), inbox, 1)
    BY <1>1, <2>1, TeteEtSuite
  <2>3. Bien(wire, Tail(inbox), pc, demande, abandonnees)
    BY <1>1, <1>2, <2>2, ResteBien
  <2>. QED
    BY <2>1, <2>3
<1>9. CASE Ecarter
  <2>1. wire # <<>> /\ wire' = Tail(wire) /\ UNCHANGED <<inbox, pc, demande, abandonnees>>
    BY <1>9 DEF Ecarter
  <2>2. Tail(wire) \in Seq(Trames) /\ Reste(Tail(wire), wire, 1)
    BY <1>1, <2>1, TeteEtSuite
  <2>3. Bien(Tail(wire), inbox, pc, demande, abandonnees)
    BY <1>1, <1>2, <2>2, ResteBien
  <2>. QED
    BY <2>1, <2>3
<1>10. ASSUME LireEvenements
       PROVE  /\ wire' \in Seq(Trames)
              /\ Bien(wire', inbox, pc, demande, abandonnees)
  BY <1>1, <1>2, <1>10, LuType, ResteBien
<1>11. CASE Demander \/ TickTropTot \/ TickConnecte \/ Connexion
  <2>1. pc # "reponse" /\ UNCHANGED <<wire, inbox, abandonnees>>
    BY <1>11 DEF Demander, TickTropTot, TickConnecte, Connexion, ConnexionEchoue,
                 ConnexionReussit
  <2>. QED
    BY <1>2, <2>1, RienAttendu
<1>12. CASE (TickLit \/ EnvoyerSansReponse) /\ ~AbandonnerLiaison
  <2>1. pc # "reponse" /\ LireEvenements /\ UNCHANGED <<inbox, abandonnees>>
    BY <1>12 DEF TickLit, EnvoyerSansReponse
  <2>. QED
    BY <1>10, <2>1, RienAttendu
<1>13. CASE Envoyer
  <2>1. /\ pc = "envoi" /\ pc' = "reponse" /\ demande' = demande
        /\ LireEvenements /\ abandonnees' = abandonnees
        /\ inbox' = Append(inbox, Trame(demande, "sienne"))
    BY <1>13 DEF Envoyer
  <2>2. PICK f : f = Trame(demande, "sienne")
    OBVIOUS
  <2>3. f \in Trames /\ f.de = "sienne" /\ f.code = demande
    BY <1>1, <2>2, TrameType DEF Origines, Trame
  <2>4. /\ Sans(wire') /\ Sans(inbox)
        /\ Bien(wire', inbox, "reponse", demande, abandonnees)
    BY <1>10, <2>1, RienAttendu
  <2>5. Dites(Append(inbox, f), "reponse", demande, abandonnees)
        /\ AuPlusUne(Append(inbox, f))
    BY <1>1, <2>3, <2>4, AjouterFrame DEF Bien
  <2>6. Bien(wire', Append(inbox, f), "reponse", demande, abandonnees)
    BY <2>4, <2>5 DEF Bien
  <2>. QED
    BY <2>1, <2>2, <2>6
<1>14. CASE RecevoirTropCourt \/ RecevoirStatut \/ RecevoirReglages \/ RecevoirCommande
  <2>1. /\ Acceptable /\ wire' = Dater(Tail(wire), "tardive")
        /\ inbox' = Dater(inbox, "tardive") /\ abandonnees' = abandonnees
    BY <1>14 DEF RecevoirTropCourt, RecevoirStatut, RecevoirReglages, RecevoirCommande,
                 Recevoir
  <2>2. wire # <<>> /\ Head(wire).code = demande
    BY <2>1 DEF Acceptable
  <2>3. PICK w, f : w = Tail(wire) /\ f = Head(wire)
    OBVIOUS
  <2>4. w \in Seq(Trames) /\ Reste(w, wire, 1) /\ f = wire[1] /\ 1 \in 1..Len(wire)
    BY <1>1, <2>2, <2>3, TeteEtSuite
  <2>5. Bien(w, inbox, pc, demande, abandonnees)
    BY <1>1, <1>2, <2>4, ResteBien
  <2>6. demande \in abandonnees \/ (Sans(w) /\ Sans(inbox))
    <3>1. CASE f.de # "sienne"
      <4>1. f.code \in abandonnees \union {"evenement"}
        BY <1>2, <2>4, <3>1 DEF Bien, Dites
      <4>2. demande # "evenement"
        BY <1>1 DEF Demandes, Relectures
      <4>. QED
        BY <2>2, <2>3, <4>1, <4>2
    <3>2. CASE f.de = "sienne"
      <4>1. 1 \in Siennes(wire) /\ AuPlusUne(wire)
        BY <1>2, <2>4, <3>2 DEF Siennes, Bien
      <4>2. Sans(inbox)
        BY <1>2, <4>1 DEF Bien, Sans
      <4>3. Sans(w)
        <5>1. ASSUME NEW i \in Siennes(w)
              PROVE  FALSE
          <6>1. i \in 1..Len(w) /\ w[i].de = "sienne" /\ w[i] = wire[i + 1]
            BY <2>4 DEF Siennes, Reste
          <6>2. Len(w) \in Nat /\ Len(w) + 1 = Len(wire)
            BY <2>4, LenProperties DEF Reste
          <6>3. i + 1 \in 1..Len(wire) /\ i + 1 # 1
            BY <6>1, <6>2
          <6>4. i + 1 \in Siennes(wire)
            BY <6>1, <6>3 DEF Siennes
          <6>. QED
            BY <4>1, <6>3, <6>4 DEF AuPlusUne
        <5>. QED
          BY <5>1 DEF Sans
      <4>. QED
        BY <4>2, <4>3
    <3>. QED
      BY <3>1, <3>2
  <2>7. Bien(Dater(w, "tardive"), Dater(inbox, "tardive"), pc', demande', abandonnees)
    BY <1>1, <2>4, <2>5, <2>6, DaterBien DEF Bien
  <2>. QED
    BY <2>1, <2>3, <2>7
<1>15. CASE Expirer /\ ~AbandonnerLiaison
  <2>1. GarderLiaison
    BY <1>15 DEF Expirer, TraiterEchec
  <2>2. abandonnees \subseteq abandonnees' /\ demande \in abandonnees'
    BY <2>1 DEF GarderLiaison
  <2>3. Bien(Dater(wire, "tardive"), Dater(inbox, "tardive"), pc', demande', abandonnees')
    BY <1>1, <1>2, <2>2, DaterBien DEF Bien
  <2>. QED
    BY <2>1, <2>3 DEF GarderLiaison
<1>16. CASE EnvoiImpossible \/ PerteEnAttente
  BY <1>4, <1>16 DEF EnvoiImpossible, PerteEnAttente
<1>17. CASE AppareilVaEtVient \/ AppareilRaccroche \/ Temps \/ UNCHANGED vars
  <2>1. UNCHANGED <<radio, pc, demande, abandonnees>>
    BY <1>17 DEF AppareilVaEtVient, AppareilRaccroche, Temps, vars
  <2>. QED
    BY <1>5, <2>1
<1>. QED
  BY <1>4, <1>6, <1>7, <1>8, <1>9, <1>11, <1>12, <1>13, <1>14, <1>15, <1>16, <1>17
  DEF Next, Appareil, Tick, Echange

\* envoyer_requete: the frame taken for an answer is the answer, unless this link has
\* left a request of the same kind without one in time.  That is so whatever
\* lire_evenements leaves unread, and however many links came before.
THEOREM WrongAnswersExplained == Spec => []WrongAnswerHasACause
<1>1. Init => AnswerInv
  BY RienBien DEF Init, AnswerInv
<1>2. TypeOK /\ AnswerInv /\ [Next]_vars => AnswerInv'
  BY AnswerStep
<1>3. TypeOK /\ AnswerInv => WrongAnswerHasACause
  <2>1. SUFFICES ASSUME TypeOK, AnswerInv, Acceptable, demande \notin abandonnees
                 PROVE  Head(wire).de = "sienne"
    BY DEF WrongAnswerHasACause
  <2>2. wire \in Seq(Trames) /\ wire # <<>> /\ Head(wire).code = demande
        /\ demande \in Demandes
    BY <2>1 DEF TypeOK, RadioType, LoopType, Acceptable
  <2>3. Head(wire) = wire[1] /\ 1 \in 1..Len(wire)
    BY <2>2, TeteEtSuite
  <2>4. wire[1].de # "sienne" => wire[1].code \in abandonnees \union {"evenement"}
    BY <2>1, <2>3 DEF AnswerInv, Bien, Dites
  <2>5. demande # "evenement"
    BY <2>2 DEF Demandes, Relectures
  <2>. QED
    BY <2>1, <2>2, <2>3, <2>4, <2>5
<1>. QED
  BY <1>1, <1>2, <1>3, Typed, PTL DEF Spec
=============================================================================
