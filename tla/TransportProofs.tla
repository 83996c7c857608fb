--------------------------- MODULE TransportProofs ---------------------------
(***************************************************************************)
(* Proofs about Transport, for any bytes, any cuts of them into reads, any *)
(* timeouts and any sizes that its assumptions allow: the buffer of the    *)
(* parser always has room for a read, requests leave whole, the frames     *)
(* returned are those of the bytes read, no noise costs a true frame, and  *)
(* a timeout is reported when it is over.                                  *)
(*                                                                         *)
(* TramesDe, the frames of a list of bytes, is recursive.  All that is     *)
(* needed of it is that it is what its equation says (TramesDef), and its  *)
(* value when some bytes are given up (Saut), when a frame comes out       *)
(* (TrameSortie) and when what is left is waited for (RienSorti).          *)
(***************************************************************************)
EXTENDS Transport, Recurrence, SequenceTheorems

\* A closed link has nothing read, nothing awaited, and no call in progress.
FermeInv == ~ouvert => pc = "libre" /\ lus = 0 /\ attendus = 0

\* When the program waits, its buffer holds an incomplete frame at most.
TamponInv == pc = "poll" => Len(tampon) <= FrameMax - 1

\* A request that the device does not know of yet is all to be sent.
EnvoiInv ==
    pc = "envoi" => /\ ouvert /\ envoi.reste > 0
                    /\ attendus = 0 => envoi.reste = envoi.declaree + 4

IInv == TypeOK /\ FermeInv /\ TamponInv /\ EnvoiInv /\ RequestsLeaveWhole

-----------------------------------------------------------------------------
(* The parser.                                                             *)

\* Where protocol_parser_next stops: past the end, or at bytes that may be a frame.
LEMMA DebutAcceptable ==
    ASSUME NEW b \in Seq(Octet)
    PROVE  /\ Debut(b) \in 1..(Len(b) + 1)
           /\ Debut(b) <= Len(b) => ~Rejet(b, Debut(b))
<1> DEFINE bons == {i \in 1..Len(b) : ~Rejet(b, i)}
<1>1. CASE bons = {}
    BY <1>1 DEF Debut
<1>2. CASE bons # {}
  <2>1. \E i \in bons : \A j \in bons : i <= j
    <3>1. bons \in SUBSET Nat
          OBVIOUS
    <3> HIDE DEF bons
    <3> QED
        BY <1>2, <3>1, PlusPetit
  <2>2. Debut(b) = CHOOSE i \in bons : \A j \in bons : i <= j
        BY <1>2 DEF Debut
  <2>3. Debut(b) \in bons
        BY <2>1, <2>2
  <2> QED
      BY <2>3
<1> QED
    BY <1>1, <1>2

\* What remains once no frame is complete is shorter than the longest frame.
LEMMA ResteCourt ==
    ASSUME NEW b \in Seq(Octet), NEW i, i = Debut(b), ~(i <= Len(b) /\ Complete(b, i))
    PROVE  Len(b) - i + 1 <= FrameMax - 1
<1>1. i \in 1..(Len(b) + 1) /\ (i <= Len(b) => ~Rejet(b, i))
    BY DebutAcceptable
<1>2. FrameMax \in Nat /\ 12 <= FrameMax /\ Len(b) \in Nat
    BY TransportAssumption DEF FrameMin
<1>3. CASE Len(b) - i + 1 < 6
    BY <1>1, <1>2, <1>3
<1>4. CASE Len(b) - i + 1 >= 6
  <2>1. i <= Len(b) /\ ~Complete(b, i)
        BY <1>1, <1>2, <1>4
  <2>2. Entete(b, i)
        BY <1>1, <1>4, <2>1 DEF Rejet
  <2>3. Longueur(b, i) \in 12..FrameMax
        BY <2>2 DEF Entete, FrameMin
  <2>4. ~(Len(b) - i + 1 >= Longueur(b, i))
        BY <1>4, <2>1 DEF Complete
  <2> HIDE DEF Longueur
  <2> QED
      BY <1>1, <1>2, <2>3, <2>4
<1> QED
    BY <1>1, <1>2, <1>3, <1>4

\* The end of a list of bytes is one, and no longer.
LEMMA FinDeListe ==
    ASSUME NEW b \in Seq(Octet), NEW i \in 1..(Len(b) + 1)
    PROVE  SubSeq(b, i, Len(b)) \in Seq(Octet) /\ Len(SubSeq(b, i, Len(b))) = Len(b) - i + 1
<1>1. \A j \in i..Len(b) : b[j] \in Octet
    OBVIOUS
<1> QED
    BY <1>1

-----------------------------------------------------------------------------
(* Each step keeps the invariant.                                          *)

\* The sizes, as numbers.
LEMMA Tailles ==
    /\ FrameMax \in Nat /\ 12 <= FrameMax /\ ChunkMax \in Nat /\ BufferMax \in Nat
    /\ FrameMax - 1 + ChunkMax <= BufferMax
BY TransportAssumption DEF FrameMin

LEMMA InitIInv == Init => IInv
<1> SUFFICES ASSUME Init PROVE IInv
    OBVIOUS
<1>1. tampon \in Seq(Octet) /\ Len(tampon) <= BufferMax
  <2>1. tampon = <<>>
        BY DEF Init
  <2> QED
      BY <2>1, Tailles
<1>2. lus \in 0..Len(flux.octets)
    BY TransportAssumption DEF Init
<1>3. envoi \in [declaree : Octet, reste : Nat] /\ reste \in Nat /\ passe \in Nat
      /\ demande \in Nat /\ attendus \in Int
    BY DEF Init, Octet
<1>4. TypeOK
    BY <1>1, <1>2, <1>3 DEF Init, TypeOK
<1> QED
    BY <1>4 DEF Init, IInv, FermeInv, TamponInv, EnvoiInv, RequestsLeaveWhole

\* What a step of aml_receive leaves alone.
LEMMA Reception ==
    ASSUME IInv, ouvert, UNCHANGED <<ouvert, emission>>, pc \notin {"envoi", "perdue"},
           pc' \in {"libre", "cherche", "poll", "perdue"}
    PROVE  FermeInv' /\ EnvoiInv' /\ RequestsLeaveWhole'
BY DEF IInv, FermeInv, EnvoiInv, RequestsLeaveWhole, emission

\* The link is opened or given up: both parsers start again.
LEMMA LiaisonStep ==
    ASSUME IInv, Connecter \/ Deconnecter
    PROVE  IInv'
<1>1. tampon' \in Seq(Octet) /\ Len(tampon') <= BufferMax
  <2>1. tampon' = <<>>
        BY DEF Connecter, Deconnecter, ParserInit
  <2> QED
      BY <2>1, Tailles
<1>2. lus' = 0 /\ flux' \in Flux /\ lus' \in 0..Len(flux'.octets)
  <2>1. lus' = 0 /\ flux' \in Flux
        BY DEF Connecter, Deconnecter, IInv, FermeInv, TypeOK
  <2>2. flux'.octets \in Seq(Octet)
        BY <2>1, TransportAssumption
  <2> QED
      BY <2>1, <2>2
<1>3. pc' = "libre" /\ attendus' = 0 /\ ouvert' \in BOOLEAN
    BY DEF Connecter, Deconnecter, emission, IInv, FermeInv
<1>4. /\ envoi' \in [declaree : Octet, reste : Nat] /\ reste' \in Nat /\ passe' \in Nat
      /\ demande' \in Nat
    BY DEF Connecter, Deconnecter, emission, IInv, TypeOK, Octet
<1>5. regarde' \in BOOLEAN /\ code' \in {"aucun", "ok", "timeout", "disconnected"}
    BY DEF Connecter, Deconnecter, IInv, TypeOK
<1>6. TypeOK'
    BY <1>1, <1>2, <1>3, <1>4, <1>5 DEF TypeOK
<1> QED
    BY <1>2, <1>3, <1>6 DEF IInv, FermeInv, TamponInv, EnvoiInv, RequestsLeaveWhole

\* A frame is extracted: the buffer keeps what follows it.
LEMMA ExtraireStep ==
    ASSUME IInv, Extraire
    PROVE  IInv'
<1>1. PICK f \in Int : /\ f + 1 \in 1..(Len(tampon) + 1)
                       /\ tampon' = SubSeq(tampon, f + 1, Len(tampon))
  <2> DEFINE i == Debut(tampon)
  <2>1. tampon \in Seq(Octet)
        BY DEF IInv, TypeOK
  <2>2. i \in 1..(Len(tampon) + 1) /\ i <= Len(tampon) /\ Complete(tampon, i)
        BY <2>1, DebutAcceptable DEF Extraire
  <2>3. tampon' = SubSeq(tampon, i + Longueur(tampon, i) - 1 + 1, Len(tampon))
        BY DEF Extraire
  <2> HIDE DEF i
  <2>4. Len(tampon) - i + 1 >= 6 /\ Len(tampon) - i + 1 >= Longueur(tampon, i)
        BY <2>2 DEF Complete
  <2>5. Longueur(tampon, i) \in 4..259
    <3>1. i + 3 \in 1..Len(tampon)
          BY <2>1, <2>2, <2>4
    <3>2. tampon[i + 3] \in Octet
          BY <2>1, <3>1
    <3> QED
        BY <3>2 DEF Longueur, Octet
  <2>6. Len(tampon) \in Nat
        BY <2>1
  <2>7. PICK n \in 4..259 : n = Longueur(tampon, i)
        BY <2>5
  <2>8. i \in Nat /\ i >= 1
        BY <2>2, <2>6
  <2>9. i + n - 1 \in Int /\ i + n - 1 + 1 \in 1..(Len(tampon) + 1)
    <3>1. Len(tampon) - i + 1 >= n
          BY <2>4, <2>7
    <3> QED
        BY <2>6, <2>8, <3>1
  <2> QED
      BY <2>3, <2>7, <2>9
<1>2. tampon' \in Seq(Octet) /\ Len(tampon') <= BufferMax
  <2>1. tampon \in Seq(Octet) /\ Len(tampon) <= BufferMax /\ BufferMax \in Nat
        BY TransportAssumption DEF IInv, TypeOK
  <2>2. tampon' \in Seq(Octet) /\ Len(tampon') = Len(tampon) - (f + 1) + 1
        BY <1>1, <2>1, FinDeListe
  <2> QED
      BY <1>1, <2>1, <2>2
<1>3. TypeOK' /\ ouvert /\ pc' = "libre" /\ pc = "cherche"
    BY <1>2 DEF Extraire, IInv, TypeOK, FermeInv, emission
<1>4. FermeInv' /\ EnvoiInv' /\ RequestsLeaveWhole'
    BY <1>3, Reception DEF Extraire
<1> QED
    BY <1>3, <1>4 DEF IInv, TamponInv

\* No frame is complete: what was given up makes room for a read.
LEMMA AttendreStep ==
    ASSUME IInv, Attendre
    PROVE  IInv'
<1>1. tampon \in Seq(Octet) /\ Len(tampon) <= BufferMax /\ BufferMax \in Nat
    BY TransportAssumption DEF IInv, TypeOK
<1>2. tampon' \in Seq(Octet) /\ Len(tampon') <= BufferMax /\ Len(tampon') <= FrameMax - 1
  <2>1. PICK i : i = Debut(tampon)
        OBVIOUS
  <2>2. i \in 1..(Len(tampon) + 1)
        BY <1>1, <2>1, DebutAcceptable
  <2>3. tampon' = SubSeq(tampon, i, Len(tampon)) /\ ~(i <= Len(tampon) /\ Complete(tampon, i))
        BY <2>1 DEF Attendre
  <2>4. tampon' \in Seq(Octet) /\ Len(tampon') = Len(tampon) - i + 1
        BY <1>1, <2>2, <2>3, FinDeListe
  <2>5. Len(tampon) - i + 1 <= FrameMax - 1
        BY <1>1, <2>1, <2>3, ResteCourt
  <2> QED
      BY <1>1, <2>2, <2>4, <2>5
<1>3. TypeOK' /\ ouvert /\ pc' \in {"libre", "poll"} /\ pc = "cherche"
    BY <1>2 DEF Attendre, IInv, TypeOK, FermeInv, emission
<1>4. FermeInv' /\ EnvoiInv' /\ RequestsLeaveWhole'
    BY <1>3, Reception DEF Attendre
<1> QED
    BY <1>2, <1>3, <1>4 DEF IInv, TamponInv

\* A read: its bytes find room.
LEMMA LireStep ==
    ASSUME IInv, Lire
    PROVE  IInv'
<1>1. /\ tampon \in Seq(Octet) /\ Len(tampon) <= FrameMax - 1 /\ flux \in Flux
      /\ flux.octets \in Seq(Octet) /\ lus \in 0..Len(flux.octets)
    BY TransportAssumption DEF Lire, IInv, TypeOK, TamponInv
<1>2. /\ ChunkMax \in Nat \ {0} /\ BufferMax \in Nat /\ FrameMax \in Nat
      /\ FrameMax - 1 + ChunkMax <= BufferMax
    BY TransportAssumption
<1>3. PICK k \in 1..ChunkMax :
          /\ lus + k <= Len(flux.octets)
          /\ lus' = lus + k
          /\ IF k > BufferMax - Len(tampon)
             THEN tampon' = <<>> /\ pc' = "libre" /\ code' = "protocole"
             ELSE /\ tampon' = tampon \o SubSeq(flux.octets, lus + 1, lus + k)
                  /\ pc' = "cherche" /\ UNCHANGED code
    BY DEF Lire
<1>4. ~(k > BufferMax - Len(tampon))
    BY <1>1, <1>2, <1>3
<1>5. SubSeq(flux.octets, lus + 1, lus + k) \in Seq(Octet)
      /\ Len(SubSeq(flux.octets, lus + 1, lus + k)) = k
  <2>1. \A j \in (lus + 1)..(lus + k) : flux.octets[j] \in Octet
        BY <1>1, <1>3
  <2> QED
      BY <1>1, <1>3, <2>1
<1>6. tampon' \in Seq(Octet) /\ Len(tampon') <= BufferMax
  <2>1. tampon' = tampon \o SubSeq(flux.octets, lus + 1, lus + k)
        BY <1>3, <1>4
  <2>2. tampon' \in Seq(Octet)
        BY <1>1, <1>5, <2>1
  <2>3. Len(tampon') = Len(tampon) + k
        BY <1>1, <1>5, <2>1
  <2> QED
      BY <1>1, <1>2, <1>3, <2>2, <2>3
<1>7. pc' = "cherche" /\ code' = code /\ lus' \in 0..Len(flux.octets)
    BY <1>1, <1>3, <1>4
<1>8. TypeOK' /\ ouvert /\ pc = "poll"
    BY <1>6, <1>7 DEF Lire, IInv, TypeOK, FermeInv, emission
<1>9. FermeInv' /\ EnvoiInv' /\ RequestsLeaveWhole'
    BY <1>7, <1>8, Reception DEF Lire
<1> QED
    BY <1>7, <1>8, <1>9 DEF IInv, TamponInv

\* The other steps of aml_receive do not touch the buffer.
LEMMA RecevoirStep ==
    ASSUME IInv, Recevoir \/ Temps \/ PollRien \/ Perdre
    PROVE  IInv'
<1>1. CASE Recevoir
  <2>1. reste' \in Nat /\ demande' \in Nat
        BY <1>1, TransportAssumption DEF Recevoir
  <2>2. TypeOK' /\ ouvert /\ pc = "libre" /\ pc' = "cherche"
        BY <1>1, <2>1 DEF Recevoir, IInv, TypeOK, emission
  <2>3. FermeInv' /\ EnvoiInv' /\ RequestsLeaveWhole'
        BY <1>1, <2>2, Reception DEF Recevoir
  <2> QED
      BY <2>2, <2>3 DEF IInv, TamponInv
<1>2. CASE Temps
  <2>1. reste' \in Nat /\ passe' \in Nat
        BY <1>2 DEF Temps, IInv, TypeOK
  <2>2. TypeOK' /\ ouvert /\ pc = "poll" /\ pc' = "poll" /\ tampon' = tampon
        BY <1>2, <2>1 DEF Temps, IInv, TypeOK, FermeInv, emission
  <2>3. FermeInv' /\ EnvoiInv' /\ RequestsLeaveWhole'
        BY <1>2, <2>2, Reception DEF Temps
  <2> QED
      BY <2>2, <2>3 DEF IInv, TamponInv
<1>3. CASE PollRien \/ Perdre
  <2>1. TypeOK' /\ ouvert /\ pc = "poll" /\ pc' \in {"cherche", "perdue"}
        BY <1>3 DEF PollRien, Perdre, IInv, TypeOK, FermeInv, emission
  <2>2. FermeInv' /\ EnvoiInv' /\ RequestsLeaveWhole'
        BY <1>3, <2>1, Reception DEF PollRien, Perdre
  <2> QED
      BY <2>1, <2>2 DEF IInv, TamponInv
<1> QED
    BY <1>1, <1>2, <1>3

\* A request: its length byte says what is sent.
LEMMA EnvoyerStep ==
    ASSUME IInv, Envoyer \/ EnvoyerPartie \/ EnvoyerEchoue
    PROVE  IInv'
<1>1. CASE Envoyer
  <2>1. PICK n \in Arguments : Constructible(n)
                               /\ envoi' = [declaree |-> (n + 12 - 4) % 256, reste |-> n + 12]
        BY <1>1 DEF Envoyer
  <2>2. n \in Nat /\ n + 12 <= 259
        BY <2>1, TransportAssumption DEF Constructible
  <2>3. (n + 12 - 4) % 256 = n + 8
        BY <2>2
  <2>4. envoi' \in [declaree : Octet, reste : Nat]
        /\ envoi'.reste > 0 /\ envoi'.reste = envoi'.declaree + 4
        BY <2>1, <2>2, <2>3 DEF Octet
  <2>5. TypeOK' /\ ouvert' /\ pc' = "envoi"
        BY <1>1, <2>4 DEF Envoyer, IInv, TypeOK, reception
  <2>6. attendus = 0 /\ attendus' = 0
        BY <1>1 DEF Envoyer, IInv, RequestsLeaveWhole
  <2> QED
      BY <2>4, <2>5, <2>6 DEF IInv, FermeInv, TamponInv, EnvoiInv, RequestsLeaveWhole
<1>2. CASE EnvoyerPartie
  <2>1. PICK k \in {envoi.reste, envoi.reste \div 2} \ {0} :
          /\ attendus' = (IF attendus = 0 THEN envoi.declaree + 4 ELSE attendus) - k
          /\ envoi' = [envoi EXCEPT !.reste = @ - k]
          /\ pc' = IF k = envoi.reste THEN "libre" ELSE "envoi"
        BY <1>2 DEF EnvoyerPartie
  <2>2. /\ envoi \in [declaree : Octet, reste : Nat] /\ envoi.reste > 0 /\ ouvert
        /\ attendus \in {0, envoi.reste}
        /\ attendus = 0 => envoi.reste = envoi.declaree + 4
        BY <1>2 DEF EnvoyerPartie, IInv, TypeOK, EnvoiInv, RequestsLeaveWhole
  <2>3. k \in 1..envoi.reste
        BY <2>1, <2>2
  <2>4. attendus' = envoi.reste - k /\ attendus' \in Nat
        BY <2>1, <2>2, <2>3 DEF Octet
  <2>5. envoi' \in [declaree : Octet, reste : Nat] /\ envoi'.reste = envoi.reste - k
        BY <2>1, <2>2, <2>3
  <2>6. TypeOK' /\ ouvert'
        BY <1>2, <2>1, <2>2, <2>4, <2>5 DEF EnvoyerPartie, IInv, TypeOK, reception
  <2>7. CASE k = envoi.reste
    <3>1. pc' = "libre" /\ attendus' = 0
          BY <2>1, <2>2, <2>4, <2>7
    <3> QED
        BY <2>6, <3>1 DEF IInv, FermeInv, TamponInv, EnvoiInv, RequestsLeaveWhole
  <2>8. CASE k # envoi.reste
    <3>1. pc' = "envoi" /\ envoi'.reste > 0 /\ attendus' = envoi'.reste /\ attendus' # 0
          BY <2>1, <2>2, <2>3, <2>4, <2>5, <2>8
    <3> QED
        BY <2>6, <3>1 DEF IInv, FermeInv, TamponInv, EnvoiInv, RequestsLeaveWhole
  <2> QED
      BY <2>7, <2>8
<1>3. CASE EnvoyerEchoue
  <2>1. TypeOK' /\ ouvert' /\ pc' = "perdue"
        BY <1>3 DEF EnvoyerEchoue, IInv, TypeOK, EnvoiInv, reception, emission
  <2> QED
      BY <2>1 DEF IInv, FermeInv, TamponInv, EnvoiInv, RequestsLeaveWhole
<1> QED
    BY <1>1, <1>2, <1>3

-----------------------------------------------------------------------------
(* The theorems.                                                           *)

LEMMA Inductive == Spec => []IInv
<1>1. Init => IInv
    BY InitIInv
<1>2. IInv /\ [Next]_vars => IInv'
  <2> SUFFICES ASSUME IInv, [Next]_vars PROVE IInv'
      OBVIOUS
  <2>1. CASE UNCHANGED vars
        BY <2>1 DEF vars, reception, emission, IInv, TypeOK, FermeInv, TamponInv, EnvoiInv,
                    RequestsLeaveWhole
  <2>2. CASE Next
        BY <2>2, LiaisonStep, ExtraireStep, AttendreStep, LireStep, RecevoirStep, EnvoyerStep
           DEF Next
  <2> QED
      BY <2>1, <2>2
<1> QED
    BY <1>1, <1>2, PTL DEF Spec

\* The parser's buffer always has room for what aml_receive reads: no noise fills
\* it, protocol_parser_feed never refuses bytes.
THEOREM ParserNeverFull == Spec => []TypeOK
<1>1. IInv => TypeOK
    BY DEF IInv
<1> QED
    BY <1>1, Inductive, PTL

\* The device never takes the rest of a request and the start of another for one,
\* and the length byte of a request never wraps.
THEOREM RequestsWhole == Spec => []RequestsLeaveWhole
<1>1. IInv => RequestsLeaveWhole
    BY DEF IInv
<1> QED
    BY <1>1, Inductive, PTL

-----------------------------------------------------------------------------
(* The frames of a list of bytes.                                          *)

Liste == Seq(Octet)
Fin(s, i) == SubSeq(s, i, Len(s))

LEMMA FinFaite ==
    ASSUME NEW s \in Liste, NEW i \in 1..(Len(s) + 1)
    PROVE  /\ Fin(s, i) \in Liste
           /\ Len(Fin(s, i)) = Len(s) - i + 1
           /\ \A k \in 1..(Len(s) - i + 1) : Fin(s, i)[k] = s[i + k - 1]
<1>1. Len(s) \in Nat /\ i \in Int
    BY LenProperties DEF Liste
<1>2. \A j \in i..Len(s) : s[j] \in Octet
  <2>1. \A j \in 1..Len(s) : s[j] \in Octet
      BY ElementOfSeq DEF Liste
  <2> QED
      BY <1>1, <2>1
<1>3. /\ Fin(s, i) \in Seq(Octet)
      /\ Len(Fin(s, i)) = IF i <= Len(s) THEN Len(s) - i + 1 ELSE 0
      /\ \A k \in 1..(Len(s) - i + 1) : Fin(s, i)[k] = s[i + k - 1]
    BY <1>1, <1>2, SubSeqProperties DEF Fin
<1> QED
    BY <1>1, <1>3 DEF Liste

\* The end of an end of a list is an end of that list.
LEMMA FinDeFin ==
    ASSUME NEW s \in Liste, NEW i \in 1..(Len(s) + 1), NEW j \in 1..(Len(s) - i + 2)
    PROVE  Fin(Fin(s, i), j) = Fin(s, i + j - 1)
<1>1. Len(s) \in Nat
    BY LenProperties DEF Liste
<1>2. PICK t : t = Fin(s, i)
    OBVIOUS
<1>3. /\ t \in Liste /\ Len(t) = Len(s) - i + 1
      /\ \A k \in 1..(Len(s) - i + 1) : t[k] = s[i + k - 1]
    BY <1>2, FinFaite
<1>4. j \in 1..(Len(t) + 1)
    BY <1>1, <1>3
<1>5. PICK u : u = Fin(t, j)
    OBVIOUS
<1>6. /\ u \in Liste /\ Len(u) = Len(t) - j + 1
      /\ \A k \in 1..(Len(t) - j + 1) : u[k] = t[j + k - 1]
    BY <1>3, <1>4, <1>5, FinFaite
<1>7. i + j - 1 \in 1..(Len(s) + 1)
    BY <1>1
<1>8. PICK v : v = Fin(s, i + j - 1)
    OBVIOUS
<1>9. /\ v \in Liste /\ Len(v) = Len(s) - (i + j - 1) + 1
      /\ \A k \in 1..(Len(s) - (i + j - 1) + 1) : v[k] = s[(i + j - 1) + k - 1]
    BY <1>7, <1>8, FinFaite
<1>10. Len(u) = Len(v)
    BY <1>1, <1>3, <1>6, <1>9
<1>11. ASSUME NEW k \in 1..Len(u)
       PROVE  u[k] = v[k]
  <2>1. k \in 1..(Len(t) - j + 1) /\ k \in 1..(Len(s) - (i + j - 1) + 1)
      BY <1>1, <1>3, <1>6, <1>9, <1>10
  <2>2. j + k - 1 \in 1..(Len(s) - i + 1)
      BY <1>1, <1>3, <2>1
  <2>3. u[k] = s[i + (j + k - 1) - 1]
      BY <1>3, <1>6, <2>1, <2>2
  <2>4. i + (j + k - 1) - 1 = (i + j - 1) + k - 1
      BY <2>1
  <2> QED
      BY <1>9, <2>1, <2>3, <2>4
<1>12. u = v
    BY <1>6, <1>9, <1>10, <1>11, SeqEqual DEF Liste
<1> QED
    BY <1>2, <1>5, <1>8, <1>12

\* What follows the first byte, and what follows the first bytes.
LEMMA FinQueue ==
    ASSUME NEW s \in Liste, s # <<>>
    PROVE  Tail(s) = Fin(s, 2) /\ Len(s) \in Nat \ {0}
<1>1. Len(s) \in Nat \ {0}
    BY EmptySeq DEF Liste
<1> QED
    BY <1>1, TailIsSubSeq DEF Liste, Fin

LEMMA FinDeConcat ==
    ASSUME NEW s \in Liste, NEW e \in Liste, NEW i \in 1..(Len(s) + 1)
    PROVE  Fin(s \o e, i) = Fin(s, i) \o e
<1>1. Len(s) \in Nat /\ Len(e) \in Nat
    BY LenProperties DEF Liste
<1>2. PICK c : c = s \o e
    OBVIOUS
<1>3. /\ c \in Liste /\ Len(c) = Len(s) + Len(e)
      /\ \A k \in 1..(Len(s) + Len(e)) : c[k] = IF k <= Len(s) THEN s[k] ELSE e[k - Len(s)]
    BY <1>2, ConcatProperties DEF Liste
<1>4. PICK t : t = Fin(s, i)
    OBVIOUS
<1>5. /\ t \in Liste /\ Len(t) = Len(s) - i + 1
      /\ \A k \in 1..(Len(s) - i + 1) : t[k] = s[i + k - 1]
    BY <1>4, FinFaite
<1>6. PICK d : d = t \o e
    OBVIOUS
<1>7. /\ d \in Liste /\ Len(d) = Len(t) + Len(e)
      /\ \A k \in 1..(Len(t) + Len(e)) : d[k] = IF k <= Len(t) THEN t[k] ELSE e[k - Len(t)]
    BY <1>5, <1>6, ConcatProperties DEF Liste
<1>8. PICK u : u = Fin(c, i)
    OBVIOUS
<1>9. i \in 1..(Len(c) + 1)
    BY <1>1, <1>3
<1>10. /\ u \in Liste /\ Len(u) = Len(c) - i + 1
       /\ \A k \in 1..(Len(c) - i + 1) : u[k] = c[i + k - 1]
    BY <1>3, <1>8, <1>9, FinFaite
<1>11. Len(u) = Len(d)
    BY <1>1, <1>3, <1>5, <1>7, <1>10
<1>12. ASSUME NEW k \in 1..Len(u)
       PROVE  u[k] = d[k]
  <2>1. k \in 1..(Len(c) - i + 1) /\ i + k - 1 \in 1..(Len(s) + Len(e))
        /\ k \in 1..(Len(t) + Len(e))
      BY <1>1, <1>3, <1>5, <1>7, <1>10, <1>11
  <2>2. u[k] = IF i + k - 1 <= Len(s) THEN s[i + k - 1] ELSE e[i + k - 1 - Len(s)]
      BY <1>3, <1>10, <2>1
  <2>3. d[k] = IF k <= Len(t) THEN t[k] ELSE e[k - Len(t)]
      BY <1>7, <2>1
  <2>4. CASE i + k - 1 <= Len(s)
    <3>1. k <= Len(t) /\ k \in 1..(Len(s) - i + 1)
        BY <1>1, <1>5, <2>1, <2>4
    <3> QED
        BY <1>5, <2>2, <2>3, <2>4, <3>1
  <2>5. CASE ~(i + k - 1 <= Len(s))
    <3>1. ~(k <= Len(t)) /\ k - Len(t) = i + k - 1 - Len(s)
        BY <1>1, <1>5, <2>1, <2>5
    <3> QED
        BY <2>2, <2>3, <2>5, <3>1
  <2> QED
      BY <2>4, <2>5
<1>13. u = d
    BY <1>7, <1>10, <1>11, <1>12, SeqEqual DEF Liste
<1> QED
    BY <1>2, <1>4, <1>6, <1>8, <1>13

\* A frame that is all there, and what follows it.
LEMMA TrameEtSuite ==
    ASSUME NEW s \in Liste, Entiere(s)
    PROVE  /\ s[4] \in Octet /\ s[4] + 4 \in 4..Len(s) /\ s # <<>>
           /\ SubSeq(s, 1, s[4] + 4) \in Liste
           /\ Len(SubSeq(s, 1, s[4] + 4)) = s[4] + 4
           /\ \A k \in 1..(s[4] + 4) : SubSeq(s, 1, s[4] + 4)[k] = s[k]
           /\ Fin(s, s[4] + 5) \in Liste
           /\ Len(Fin(s, s[4] + 5)) = Len(s) - (s[4] + 4)
<1>1. Len(s) \in Nat /\ Len(s) > 3 /\ Len(s) >= s[4] + 4
    BY LenProperties DEF Liste, Entiere
<1>2. s[4] \in Octet
  <2>1. 4 \in 1..Len(s)
      BY <1>1
  <2> QED
      BY <2>1, ElementOfSeq DEF Liste
<1>3. s[4] \in Nat
    BY <1>2 DEF Octet
<1>4. s[4] + 4 \in 4..Len(s) /\ s[4] + 5 \in 1..(Len(s) + 1)
    BY <1>1, <1>3
<1>5. PICK n \in Nat : n = s[4] + 4
    BY <1>3
<1>6. \A j \in 1..n : s[j] \in Octet
  <2>1. \A j \in 1..Len(s) : s[j] \in Octet
      BY ElementOfSeq DEF Liste
  <2>2. n <= Len(s)
      BY <1>1, <1>5
  <2> QED
      BY <1>1, <2>1, <2>2
<1>7. n >= 4
    BY <1>3, <1>5
<1>8. /\ SubSeq(s, 1, n) \in Seq(Octet)
      /\ Len(SubSeq(s, 1, n)) = IF 1 <= n THEN n - 1 + 1 ELSE 0
      /\ \A k \in 1..(n - 1 + 1) : SubSeq(s, 1, n)[k] = s[1 + k - 1]
    BY <1>6, SubSeqProperties
<1>9. /\ SubSeq(s, 1, n) \in Liste /\ Len(SubSeq(s, 1, n)) = n
      /\ \A k \in 1..n : SubSeq(s, 1, n)[k] = s[k]
    BY <1>7, <1>8 DEF Liste
<1>10. Fin(s, s[4] + 5) \in Liste /\ Len(Fin(s, s[4] + 5)) = Len(s) - (s[4] + 5) + 1
    BY <1>4, FinFaite
<1>11. Len(s) - (s[4] + 5) + 1 = Len(s) - (s[4] + 4)
    BY <1>1, <1>3
<1>12. s # <<>>
    BY <1>1
<1> QED
    BY <1>2, <1>4, <1>5, <1>9, <1>10, <1>11, <1>12

\* TramesDe is what its definition says.
Suivie(s) == s # <<>> /\ (~Possible(s) \/ Entiere(s))
Apres(s) == IF ~Possible(s) THEN Fin(s, 2) ELSE Fin(s, s[4] + 5)

LEMMA ApresCourt ==
    ASSUME NEW s \in Liste, Suivie(s)
    PROVE  Apres(s) \in Liste /\ Len(Apres(s)) \in Nat /\ Len(Apres(s)) < Len(s)
<1>1. Len(s) \in Nat \ {0}
    BY FinQueue DEF Suivie
<1>2. CASE ~Possible(s)
  <2>1. 2 \in 1..(Len(s) + 1)
      BY <1>1
  <2>2. Fin(s, 2) \in Liste /\ Len(Fin(s, 2)) = Len(s) - 2 + 1
      BY <2>1, FinFaite
  <2>3. Apres(s) = Fin(s, 2)
      BY <1>2 DEF Apres
  <2> QED
      BY <1>1, <2>2, <2>3
<1>3. CASE Possible(s)
  <2>1. Entiere(s)
      BY <1>3 DEF Suivie
  <2>2. /\ s[4] + 4 \in 4..Len(s) /\ Fin(s, s[4] + 5) \in Liste
        /\ Len(Fin(s, s[4] + 5)) = Len(s) - (s[4] + 4)
      BY <2>1, TrameEtSuite
  <2>3. Apres(s) = Fin(s, s[4] + 5)
      BY <1>3 DEF Apres
  <2>4. Len(Apres(s)) \in Nat /\ Len(Apres(s)) < Len(s)
      BY <1>1, <2>2, <2>3
  <2> QED
      BY <2>2, <2>3, <2>4
<1> QED
    BY <1>2, <1>3

Trames == Seq(Liste)
Cumul(s, v) == IF ~Possible(s) THEN v ELSE <<SubSeq(s, 1, s[4] + 4)>> \o v

LEMMA CumulType ==
    ASSUME NEW s \in Liste, Suivie(s), NEW v \in Trames
    PROVE  Cumul(s, v) \in Trames
<1>1. CASE ~Possible(s)
    BY <1>1 DEF Cumul
<1>2. CASE Possible(s)
  <2>1. SubSeq(s, 1, s[4] + 4) \in Liste
      BY <1>2, TrameEtSuite DEF Suivie
  <2>2. <<SubSeq(s, 1, s[4] + 4)>> \in Seq(Liste)
      BY <2>1
  <2> QED
      BY <1>2, <2>2, ConcatProperties DEF Cumul, Trames
<1> QED
    BY <1>1, <1>2

LEMMA TramesDef ==
    /\ TramesDe \in [Liste -> Trames]
    /\ \A s \in Liste :
          TramesDe[s] = IF Suivie(s) THEN Cumul(s, TramesDe[Apres(s)]) ELSE <<>>
<1> DEFINE Eq(f) == f = [s \in Liste |->
                IF s = <<>> THEN <<>>
                ELSE IF ~Possible(s) THEN f[Tail(s)]
                ELSE IF ~Entiere(s) THEN <<>>
                ELSE <<SubSeq(s, 1, s[4] + 4)>> \o f[SubSeq(s, s[4] + 5, Len(s))]]
<1>1. PICK P : P = {s \in Liste : Suivie(s)}
    OBVIOUS
<1>2. PICK rang : rang = [s \in Liste |-> Len(s)]
    OBVIOUS
<1>3. PICK suite : suite = [s \in Liste |-> IF Suivie(s) THEN Apres(s) ELSE s]
    OBVIOUS
<1>4. PICK h : h = [c \in Liste \X Trames |->
                       IF Suivie(c[1]) THEN Cumul(c[1], c[2]) ELSE c[2]]
    OBVIOUS
<1>5. PICK o : o = <<>>
    OBVIOUS
<1>6. /\ o \in Trames /\ P \in SUBSET Liste /\ rang \in [Liste -> Nat]
      /\ suite \in [Liste -> Liste] /\ h \in [Liste \X Trames -> Trames]
  <2>1. o \in Trames
      BY <1>5, EmptySeq DEF Trames
  <2>2. rang \in [Liste -> Nat]
      BY <1>2, LenProperties DEF Liste
  <2>3. suite \in [Liste -> Liste]
    <3>1. \A s \in Liste : (IF Suivie(s) THEN Apres(s) ELSE s) \in Liste
        BY ApresCourt
    <3> QED
        BY <1>3, <3>1
  <2>4. h \in [Liste \X Trames -> Trames]
    <3>1. \A c \in Liste \X Trames :
              (IF Suivie(c[1]) THEN Cumul(c[1], c[2]) ELSE c[2]) \in Trames
        BY CumulType
    <3> QED
        BY <1>4, <3>1
  <2> QED
      BY <1>1, <2>1, <2>2, <2>3, <2>4
<1>7. \A s \in P : rang[suite[s]] < rang[s]
    BY <1>1, <1>2, <1>3, ApresCourt
<1>8. PICK f \in [Liste -> Trames] : f = Etape(Liste, Trames, P, suite, h, o, f)
  <2>1. PICK f : Definie(f, Liste, Trames, P, suite, h, o)
      BY <1>6, <1>7, ParRang
  <2> QED
      BY <2>1 DEF Definie
<1>9. \A s \in Liste : f[s] = IF Suivie(s) THEN Cumul(s, f[Apres(s)]) ELSE <<>>
  <2>1. ASSUME NEW s \in Liste
        PROVE  f[s] = IF Suivie(s) THEN Cumul(s, f[Apres(s)]) ELSE <<>>
    <3>1. f[s] = IF s \in P THEN h[<<s, f[suite[s]]>>] ELSE o
        BY <1>8 DEF Etape
    <3>2. CASE ~Suivie(s)
        BY <1>1, <1>5, <3>1, <3>2
    <3>3. CASE Suivie(s)
      <4>1. suite[s] = Apres(s) /\ Apres(s) \in Liste
          BY <1>3, <3>3, ApresCourt
      <4>2. f[Apres(s)] \in Trames
          BY <4>1
      <4>3. h[<<s, f[Apres(s)]>>] = Cumul(s, f[Apres(s)])
          BY <1>4, <3>3, <4>2
      <4> QED
          BY <1>1, <3>1, <3>3, <4>1, <4>3
    <3> QED
        BY <3>2, <3>3
  <2> QED
      BY <2>1
<1>10. ASSUME NEW s \in Liste, NEW g
       PROVE  (IF Suivie(s) THEN Cumul(s, g[Apres(s)]) ELSE <<>>)
                = IF s = <<>> THEN <<>>
                  ELSE IF ~Possible(s) THEN g[Tail(s)]
                  ELSE IF ~Entiere(s) THEN <<>>
                  ELSE <<SubSeq(s, 1, s[4] + 4)>> \o g[SubSeq(s, s[4] + 5, Len(s))]
  <2>1. CASE s = <<>>
      BY <2>1 DEF Suivie
  <2>2. CASE s # <<>> /\ ~Possible(s)
    <3>1. Suivie(s) /\ Apres(s) = Tail(s)
        BY <2>2, FinQueue DEF Suivie, Apres
    <3> QED
        BY <2>2, <3>1 DEF Cumul
  <2>3. CASE s # <<>> /\ Possible(s) /\ ~Entiere(s)
      BY <2>3 DEF Suivie
  <2>4. CASE s # <<>> /\ Possible(s) /\ Entiere(s)
    <3>1. Suivie(s) /\ Apres(s) = SubSeq(s, s[4] + 5, Len(s))
        BY <2>4 DEF Suivie, Apres, Fin
    <3> QED
        BY <2>4, <3>1 DEF Cumul
  <2> QED
      BY <2>1, <2>2, <2>3, <2>4
<1>11. Eq(f)
  <2>1. f = [s \in Liste |-> f[s]]
      OBVIOUS
  <2> QED
      BY <1>9, <1>10, <2>1
<1>12. TramesDe = CHOOSE g : Eq(g)
    BY DEF TramesDe, Liste
<1>13. Eq(TramesDe)
  <2> HIDE DEF Eq
  <2> QED
      BY <1>11, <1>12
<1>14. \A s \in Liste :
          TramesDe[s] = IF Suivie(s) THEN Cumul(s, TramesDe[Apres(s)]) ELSE <<>>
  <2>1. PICK g : g = TramesDe
      OBVIOUS
  <2>2. Eq(g)
      BY <1>13, <2>1
  <2>3. \A s \in Liste : g[s] = IF Suivie(s) THEN Cumul(s, g[Apres(s)]) ELSE <<>>
      BY <1>10, <2>2
  <2> QED
      BY <2>1, <2>3
<1>15. DOMAIN TramesDe = Liste /\ TramesDe = [s \in Liste |-> TramesDe[s]]
    BY <1>13
<1> HIDE DEF Eq
<1>16. \A n \in Nat : \A s \in Liste : Len(s) < n => TramesDe[s] \in Trames
  <2> DEFINE U == {n \in Nat : \A s \in Liste : Len(s) < n => TramesDe[s] \in Trames}
  <2>1. 0 \in U
    <3>1. \A s \in Liste : Len(s) \in Nat
        BY LenProperties DEF Liste
    <3>2. \A s \in Liste : ~(Len(s) < 0)
        BY <3>1
    <3> QED
        BY <3>2
  <2>2. ASSUME NEW n \in Nat, n \in U
        PROVE  n + 1 \in U
    <3>1. ASSUME NEW s \in Liste, Len(s) < n + 1
          PROVE  TramesDe[s] \in Trames
      <4>1. CASE ~Suivie(s)
          BY <1>14, <4>1, EmptySeq DEF Trames
      <4>2. CASE Suivie(s)
        <5>1. Apres(s) \in Liste /\ Len(Apres(s)) \in Nat /\ Len(Apres(s)) < Len(s)
            BY <4>2, ApresCourt
        <5>2. Len(s) \in Nat
            BY LenProperties DEF Liste
        <5>3. Len(Apres(s)) < n
            BY <3>1, <5>1, <5>2
        <5>4. TramesDe[Apres(s)] \in Trames
            BY <2>2, <5>1, <5>3
        <5> QED
            BY <1>14, <4>2, <5>4, CumulType
      <4> QED
          BY <4>1, <4>2
    <3> QED
        BY <3>1
  <2>3. Nat \subseteq U
    <3> HIDE DEF U
    <3> QED
        BY <2>1, <2>2, Recurrence
  <2> QED
      BY <2>3
<1>17. \A s \in Liste : TramesDe[s] \in Trames
  <2>1. ASSUME NEW s \in Liste
        PROVE  TramesDe[s] \in Trames
    <3>1. Len(s) + 1 \in Nat /\ Len(s) < Len(s) + 1
        BY LenProperties DEF Liste
    <3> QED
        BY <1>16, <3>1
  <2> QED
      BY <2>1
<1> QED
    BY <1>14, <1>15, <1>17

-----------------------------------------------------------------------------
(* What the parser finds is what TramesDe says.                            *)

\* s starts with the bytes of b from j on.
Prolonge(s, b, j) ==
    /\ s \in Liste /\ Len(s) >= Len(b) - j + 1
    /\ \A k \in 1..(Len(b) - j + 1) : s[k] = b[j + k - 1]

LEMMA FinProlongee ==
    ASSUME NEW b \in Liste, NEW j \in 1..Len(b), NEW e \in Liste
    PROVE  Prolonge(Fin(b, j) \o e, b, j)
<1>1. Len(b) \in Nat /\ Len(e) \in Nat /\ j \in 1..(Len(b) + 1)
    BY LenProperties DEF Liste
<1>2. PICK t : t = Fin(b, j)
    OBVIOUS
<1>3. /\ t \in Liste /\ Len(t) = Len(b) - j + 1
      /\ \A k \in 1..(Len(b) - j + 1) : t[k] = b[j + k - 1]
    BY <1>1, <1>2, FinFaite
<1>4. /\ t \o e \in Liste /\ Len(t \o e) = Len(t) + Len(e)
      /\ \A k \in 1..(Len(t) + Len(e)) : (t \o e)[k] = IF k <= Len(t) THEN t[k] ELSE e[k - Len(t)]
    BY <1>3, ConcatProperties DEF Liste
<1>5. ASSUME NEW k \in 1..(Len(b) - j + 1)
      PROVE  (t \o e)[k] = b[j + k - 1]
  <2>1. k \in 1..(Len(t) + Len(e)) /\ k <= Len(t)
      BY <1>1, <1>3
  <2> QED
      BY <1>3, <1>4, <2>1
<1>6. Len(t \o e) >= Len(b) - j + 1
    BY <1>1, <1>3, <1>4
<1> QED
    BY <1>2, <1>4, <1>5, <1>6 DEF Prolonge

\* The first six bytes, and those at the end of a frame.
LEMMA MemesOctets ==
    ASSUME NEW b \in Liste, NEW j \in 1..Len(b), NEW s, Prolonge(s, b, j),
           NEW n, n = Len(b) - j + 1
    PROVE  /\ n \in Nat \ {0} /\ Len(s) \in Nat /\ Len(s) >= n /\ s[1] = b[j]
           /\ n >= 2 => s[2] = b[j + 1]
           /\ n >= 4 => s[3] = b[j + 2] /\ s[4] = b[j + 3]
           /\ n >= 6 => /\ s[3] = b[j + 2] /\ s[4] = b[j + 3]
                        /\ s[5] = b[j + 4] /\ s[6] = b[j + 5]
                        /\ s[4] + 4 = Longueur(b, j) /\ s[4] \in Nat
<1>1. n \in Nat \ {0} /\ j \in Nat
    BY LenProperties DEF Liste
<1>2. Len(s) \in Nat /\ Len(s) >= n /\ \A k \in 1..n : s[k] = b[j + k - 1]
    BY LenProperties DEF Prolonge, Liste
<1>3. s[1] = b[j]
  <2>1. 1 \in 1..n /\ j + 1 - 1 = j
      BY <1>1
  <2> QED
      BY <1>2, <2>1
<1>4. n >= 2 => s[2] = b[j + 1]
  <2>1. n >= 2 => 2 \in 1..n /\ j + 2 - 1 = j + 1
      BY <1>1
  <2> QED
      BY <1>2, <2>1
<1>5. n >= 4 => s[3] = b[j + 2] /\ s[4] = b[j + 3]
  <2>1. n >= 4 => 3 \in 1..n /\ j + 3 - 1 = j + 2 /\ 4 \in 1..n /\ j + 4 - 1 = j + 3
      BY <1>1
  <2> QED
      BY <1>2, <2>1
<1>6. n >= 6 => s[5] = b[j + 4] /\ s[6] = b[j + 5]
  <2>1. n >= 6 => 5 \in 1..n /\ j + 5 - 1 = j + 4 /\ 6 \in 1..n /\ j + 6 - 1 = j + 5
      BY <1>1
  <2> QED
      BY <1>2, <2>1
<1>7. n >= 6 => s[3] = b[j + 2] /\ s[4] = b[j + 3]
    BY <1>1, <1>5
<1>8. n >= 6 => s[4] + 4 = Longueur(b, j)
    BY <1>7 DEF Longueur
<1>9. ASSUME n >= 6
      PROVE  s[4] \in Nat
  <2>1. 4 \in 1..Len(s)
      BY <1>1, <1>2, <1>9
  <2>2. s \in Seq(Octet)
      BY DEF Prolonge, Liste
  <2>3. s[4] \in Octet
      BY <2>1, <2>2, ElementOfSeq
  <2>4. \A v \in Octet : v \in Nat
      BY DEF Octet
  <2> QED
      BY <2>3, <2>4
<1> QED
    BY <1>1, <1>2, <1>3, <1>4, <1>5, <1>6, <1>7, <1>8, <1>9

LEMMA MemeFin ==
    ASSUME NEW b \in Liste, NEW j \in 1..Len(b), NEW s, Prolonge(s, b, j),
           NEW n, n = Len(b) - j + 1, NEW l \in 3..n, l = Longueur(b, j)
    PROVE  FinJuste(s, l) <=> Terminee(b, j)
<1>1. n \in Nat \ {0} /\ j \in Nat
    BY LenProperties DEF Liste
<1>2. \A k \in 1..n : s[k] = b[j + k - 1]
    BY DEF Prolonge
<1>3. /\ l - 2 \in 1..n /\ l - 1 \in 1..n /\ l \in 1..n
      /\ j + (l - 2) - 1 = (j + l - 1) - 2 /\ j + (l - 1) - 1 = (j + l - 1) - 1
  <2>1. l \in Nat /\ 3 <= l /\ l <= n
      BY <1>1
  <2>2. l - 2 \in 1..n /\ l - 1 \in 1..n /\ l \in 1..n
      BY <1>1, <2>1
  <2>3. j + (l - 2) - 1 = (j + l - 1) - 2 /\ j + (l - 1) - 1 = (j + l - 1) - 1
      BY <1>1, <2>1
  <2> QED
      BY <2>2, <2>3
<1>4. s[l - 2] = b[(j + l - 1) - 2] /\ s[l - 1] = b[(j + l - 1) - 1] /\ s[l] = b[j + l - 1]
    BY <1>2, <1>3
<1>5. Terminee(b, j) <=>
          /\ b[(j + l - 1) - 2] = 85 /\ b[(j + l - 1) - 1] = 13 /\ b[j + l - 1] = 10
    BY DEF Terminee
<1> QED
    BY <1>4, <1>5 DEF FinJuste

\* protocol_parser_next gives up a byte only where no frame can start, whatever
\* comes after what has been read.
LEMMA RejetJuste ==
    ASSUME NEW b \in Liste, NEW j \in 1..Len(b), NEW s, Prolonge(s, b, j), Rejet(b, j)
    PROVE  ~Possible(s)
<1>1. PICK n : n = Len(b) - j + 1
    OBVIOUS
<1>2. /\ n \in Nat \ {0} /\ Len(s) \in Nat /\ Len(s) >= n /\ s[1] = b[j]
      /\ n >= 2 => s[2] = b[j + 1]
      /\ n >= 4 => s[3] = b[j + 2] /\ s[4] = b[j + 3]
      /\ n >= 6 => /\ s[3] = b[j + 2] /\ s[4] = b[j + 3]
                   /\ s[5] = b[j + 4] /\ s[6] = b[j + 5]
                   /\ s[4] + 4 = Longueur(b, j) /\ s[4] \in Nat
    BY <1>1, MemesOctets
<1>3. CASE b[j] # 254
  <2>1. Len(s) >= 1 /\ s[1] # 254
      BY <1>2, <1>3
  <2> QED
      BY <2>1 DEF Possible, Vu
<1>4. CASE n >= 2 /\ b[j + 1] # 239
  <2>1. Len(s) >= 2 /\ s[2] # 239
      BY <1>2, <1>4
  <2> QED
      BY <2>1 DEF Possible, Vu
<1>5. CASE n >= 4 /\ b[j + 2] \notin {10, 12}
  <2>1. Len(s) >= 3 /\ s[3] \notin {10, 12}
      BY <1>2, <1>5
  <2> QED
      BY <2>1 DEF Possible, Vu
<1>6. CASE n >= 6
  <2>1. Len(s) >= 6 /\ Len(s) >= 5 /\ Len(s) > 3
      BY <1>2, <1>6
  <2>2. /\ s[5] = b[j + 4] /\ s[6] = b[j + 5] /\ s[3] = b[j + 2]
        /\ LongueurDite(s) = Longueur(b, j)
      BY <1>2, <1>6, <2>1 DEF LongueurDite
  <2>3. CASE ~Entete(b, j)
    <3>1. CASE b[j + 4] # 171
        BY <2>1, <2>2, <3>1 DEF Possible, Vu
    <3>2. CASE b[j + 5] # Sens(b[j + 2])
      <4>1. s[6] # Sens(s[3])
          BY <2>2, <3>2
      <4> QED
          BY <2>1, <4>1 DEF Possible, Vu
    <3>3. CASE Longueur(b, j) \notin FrameMin..FrameMax
        BY <2>2, <3>3 DEF Possible
    <3> QED
        BY <2>3, <3>1, <3>2, <3>3 DEF Entete
  <2>4. CASE n >= Longueur(b, j) /\ ~Terminee(b, j) /\ Longueur(b, j) \in FrameMin..FrameMax
    <3>1. PICK l : l = Longueur(b, j)
        OBVIOUS
    <3>2. l \in 3..n
        BY <1>2, <2>4, <3>1, Tailles DEF FrameMin
    <3>3. ~FinJuste(s, l)
        BY <1>1, <2>4, <3>1, <3>2, MemeFin
    <3>4. Len(s) >= l
      <4>1. l \in Nat /\ l <= n /\ Len(s) \in Nat /\ Len(s) >= n /\ n \in Nat
          BY <1>2, <3>2
      <4> QED
          BY <4>1
    <3> QED
        BY <2>2, <3>1, <3>3, <3>4 DEF Possible
  <2>5. CASE Longueur(b, j) \notin FrameMin..FrameMax
      BY <2>2, <2>5 DEF Possible
  <2>6. (n >= 6 /\ ~Entete(b, j)) \/ (n >= Longueur(b, j) /\ ~Terminee(b, j)) => ~Possible(s)
      BY <2>3, <2>4, <2>5
  <2>7. ~Entete(b, j) \/ (n >= Longueur(b, j) /\ ~Terminee(b, j))
        \/ b[j] # 254 \/ b[j + 1] # 239 \/ b[j + 2] \notin {10, 12}
      BY <1>1 DEF Rejet
  <2>8. n >= 2 /\ n >= 4
      BY <1>2, <1>6
  <2> QED
      BY <1>3, <1>4, <1>5, <1>6, <2>6, <2>7, <2>8
<1>7. CASE ~(n >= 6)
    BY <1>1, <1>3, <1>4, <1>5, <1>7 DEF Rejet
<1> QED
    BY <1>6, <1>7

\* Six bytes not rejected may be a frame, of the length they give.
LEMMA EnteteJuste ==
    ASSUME NEW b \in Liste, NEW j \in 1..Len(b), NEW s, Prolonge(s, b, j),
           ~Rejet(b, j), Len(b) - j + 1 >= 6,
           Len(s) < Longueur(b, j) \/ Complete(b, j)
    PROVE  /\ Possible(s) /\ s[4] + 4 = Longueur(b, j) /\ s # <<>>
           /\ Complete(b, j) => Entiere(s)
           /\ Len(s) < Longueur(b, j) => ~Entiere(s)
           /\ Longueur(b, j) \in FrameMin..FrameMax
<1>1. PICK n : n = Len(b) - j + 1
    OBVIOUS
<1>2. /\ n \in Nat \ {0} /\ Len(s) \in Nat /\ Len(s) >= n /\ s[1] = b[j]
      /\ s[2] = b[j + 1] /\ s[3] = b[j + 2] /\ s[4] = b[j + 3]
      /\ s[5] = b[j + 4] /\ s[6] = b[j + 5]
      /\ s[4] + 4 = Longueur(b, j) /\ s[4] \in Nat /\ n >= 6
  <2>1. n >= 6
      BY <1>1
  <2>2. n \in Nat \ {0}
      BY <1>1, LenProperties DEF Liste
  <2>3. n >= 2
      BY <2>1, <2>2
  <2>4. /\ n \in Nat \ {0} /\ Len(s) \in Nat /\ Len(s) >= n /\ s[1] = b[j]
        /\ n >= 2 => s[2] = b[j + 1]
        /\ n >= 6 => /\ s[3] = b[j + 2] /\ s[4] = b[j + 3]
                     /\ s[5] = b[j + 4] /\ s[6] = b[j + 5]
                     /\ s[4] + 4 = Longueur(b, j) /\ s[4] \in Nat
      BY <1>1, MemesOctets
  <2> QED
      BY <2>1, <2>3, <2>4
<1>3. /\ b[j] = 254 /\ b[j + 1] = 239 /\ b[j + 2] \in {10, 12} /\ Entete(b, j)
      /\ n >= Longueur(b, j) => Terminee(b, j)
  <2>1. n >= 2 /\ n >= 4 /\ n >= 6
      BY <1>2
  <2> QED
      BY <1>1, <2>1 DEF Rejet
<1>4. PICK l : l = Longueur(b, j)
    OBVIOUS
<1>5. /\ b[j + 4] = 171 /\ b[j + 5] = Sens(b[j + 2]) /\ l \in FrameMin..FrameMax
    BY <1>3, <1>4 DEF Entete
<1>6. s[6] = Sens(s[3])
    BY <1>2, <1>5
<1>7. Len(s) >= l => FinJuste(s, l)
  <2>1. SUFFICES ASSUME Len(s) >= l
                 PROVE  FinJuste(s, l)
      OBVIOUS
  <2>2. l \in Nat /\ l >= 3
      BY <1>5, Tailles DEF FrameMin
  <2>3. n >= l
    <3>1. ~(Len(s) < l)
        BY <1>2, <2>1, <2>2
    <3>2. Complete(b, j)
        BY <1>4, <3>1
    <3> QED
        BY <1>1, <1>4, <3>2 DEF Complete
  <2>4. l \in 3..n
      BY <1>2, <2>2, <2>3
  <2>5. Terminee(b, j)
      BY <1>3, <1>4, <2>3
  <2> QED
      BY <1>1, <1>4, <2>4, <2>5, MemeFin
<1>8. Possible(s)
  <2>1. LongueurDite(s) = l
      BY <1>2, <1>4 DEF LongueurDite
  <2>2. s[1] = 254 /\ s[2] = 239 /\ s[3] \in {10, 12} /\ s[5] = 171
      BY <1>2, <1>3, <1>5
  <2> QED
      BY <1>5, <1>6, <1>7, <2>1, <2>2 DEF Possible, Vu
<1>9. Complete(b, j) => Entiere(s)
  <2>1. Complete(b, j) => n >= l
      BY <1>1, <1>4 DEF Complete
  <2>2. l \in Nat /\ s[4] + 4 = l
      BY <1>2, <1>4, <1>5, Tailles DEF FrameMin
  <2>3. Len(s) > 3 /\ (n >= l => Len(s) >= l)
    <3>1. Len(s) \in Nat /\ Len(s) >= n /\ n \in Nat /\ n >= 6
        BY <1>2
    <3> QED
        BY <2>2, <3>1
  <2> QED
      BY <2>1, <2>2, <2>3 DEF Entiere
<1>10. Len(s) < l => ~Entiere(s)
  <2>1. l \in Nat
      BY <1>5, Tailles DEF FrameMin
  <2> QED
      BY <1>2, <1>4, <2>1 DEF Entiere
<1>11. s # <<>>
    BY <1>2
<1> QED
    BY <1>2, <1>4, <1>5, <1>8, <1>9, <1>10, <1>11

\* Less than the shortest frame holds none.
LEMMA TropCourt ==
    \A n \in Nat : \A s \in Liste : Len(s) = n /\ n < FrameMin => TramesDe[s] = <<>>
<1> DEFINE U == {n \in Nat : \A s \in Liste : Len(s) = n /\ n < FrameMin => TramesDe[s] = <<>>}
<1>1. 0 \in U
  <2>1. \A s \in Liste : Len(s) = 0 => s = <<>>
      BY EmptySeq DEF Liste
  <2>2. \A s \in Liste : s = <<>> => TramesDe[s] = <<>>
      BY TramesDef DEF Suivie
  <2> QED
      BY <2>1, <2>2
<1>2. ASSUME NEW n \in Nat, n \in U
      PROVE  n + 1 \in U
  <2>1. ASSUME NEW s \in Liste, Len(s) = n + 1, n + 1 < FrameMin
        PROVE  TramesDe[s] = <<>>
    <3>1. CASE ~Suivie(s)
        BY <3>1, TramesDef
    <3>2. CASE Suivie(s)
      <4>1. ~Possible(s)
        <5> SUFFICES ASSUME Possible(s)
                     PROVE  FALSE
            OBVIOUS
        <5>1. Entiere(s)
            BY <3>2 DEF Suivie
        <5>2. s[4] + 4 \in 4..Len(s)
            BY <5>1, TrameEtSuite
        <5>3. Len(s) > 3
            BY <5>1 DEF Entiere
        <5>4. s[4] + 4 \in FrameMin..FrameMax
            BY <5>3 DEF Possible, LongueurDite
        <5> QED
            BY <2>1, <5>2, <5>4, Tailles DEF FrameMin
      <4>2. s # <<>>
          BY <3>2 DEF Suivie
      <4>3. 2 \in 1..(Len(s) + 1)
          BY <2>1
      <4>4. Fin(s, 2) \in Liste /\ Len(Fin(s, 2)) = Len(s) - 2 + 1
          BY <4>3, FinFaite
      <4>5. Len(Fin(s, 2)) = n /\ n < FrameMin
          BY <2>1, <4>4 DEF FrameMin
      <4>6. TramesDe[Fin(s, 2)] = <<>>
          BY <1>2, <4>4, <4>5
      <4> QED
          BY <3>2, <4>1, <4>6, TramesDef DEF Cumul, Apres
    <3> QED
        BY <3>1, <3>2
  <2> QED
      BY <2>1
<1>3. Nat \subseteq U
  <2> HIDE DEF U
  <2> QED
      BY <1>1, <1>2, Recurrence
<1> QED
    BY <1>3

\* Every byte before the place where the parser stops is rejected.
LEMMA AvantDebut ==
    ASSUME NEW b \in Liste
    PROVE  /\ Debut(b) \in 1..(Len(b) + 1)
           /\ Debut(b) <= Len(b) => ~Rejet(b, Debut(b))
           /\ \A j \in 1..(Debut(b) - 1) : j \in 1..Len(b) /\ Rejet(b, j)
<1> DEFINE bons == {i \in 1..Len(b) : ~Rejet(b, i)}
<1>1. Len(b) \in Nat
    BY LenProperties DEF Liste
<1>2. Debut(b) \in 1..(Len(b) + 1) /\ (Debut(b) <= Len(b) => ~Rejet(b, Debut(b)))
    BY DebutAcceptable DEF Liste
<1>3. ASSUME NEW j \in 1..(Debut(b) - 1)
      PROVE  j \in 1..Len(b) /\ Rejet(b, j)
  <2>1. j \in 1..Len(b) /\ j < Debut(b)
      BY <1>1, <1>2
  <2>2. CASE bons = {}
      BY <2>1, <2>2
  <2>3. CASE bons # {}
    <3>1. \E i \in bons : \A k \in bons : i <= k
      <4>1. bons \in SUBSET Nat
          OBVIOUS
      <4> HIDE DEF bons
      <4> QED
          BY <2>3, <4>1, PlusPetit
    <3>2. Debut(b) = CHOOSE i \in bons : \A k \in bons : i <= k
        BY <2>3 DEF Debut
    <3>3. \A k \in bons : Debut(b) <= k
        BY <3>1, <3>2
    <3>4. ~(Debut(b) <= j)
        BY <1>1, <1>2, <2>1
    <3>5. j \notin bons
      <4> HIDE DEF bons
      <4> QED
          BY <3>3, <3>4
    <3> QED
        BY <2>1, <3>5
  <2> QED
      BY <2>2, <2>3
<1> QED
    BY <1>2, <1>3

\* What the parser skips holds no frame, whatever comes next.
LEMMA Saut ==
    ASSUME NEW b \in Liste, NEW e \in Liste
    PROVE  TramesDe[b \o e] = TramesDe[Fin(b, Debut(b)) \o e]
<1>1. Len(b) \in Nat /\ Len(e) \in Nat
    BY LenProperties DEF Liste
<1>2. /\ Debut(b) \in 1..(Len(b) + 1)
      /\ \A j \in 1..(Debut(b) - 1) : j \in 1..Len(b) /\ Rejet(b, j)
    BY AvantDebut
<1>3. PICK d : d = Debut(b)
    OBVIOUS
<1>4. b \o e \in Liste /\ Len(b \o e) = Len(b) + Len(e)
    BY ConcatProperties DEF Liste
<1> DEFINE U == {n \in Nat : n + 1 <= d => TramesDe[b \o e] = TramesDe[Fin(b, n + 1) \o e]}
<1>5. 0 \in U
  <2>1. Fin(b, 1) = b
      BY SubSeqFull DEF Fin, Liste
  <2>2. Fin(b, 0 + 1) = b
      BY <2>1
  <2> QED
      BY <2>2
<1>6. ASSUME NEW n \in Nat, n \in U
      PROVE  n + 1 \in U
  <2>1. SUFFICES ASSUME (n + 1) + 1 <= d
                 PROVE  TramesDe[b \o e] = TramesDe[Fin(b, (n + 1) + 1) \o e]
      OBVIOUS
  <2>2. n + 1 \in 1..(d - 1) /\ n + 1 <= d
      BY <1>1, <1>2, <1>3, <2>1
  <2>3. PICK j : j = n + 1
      OBVIOUS
  <2>4. j \in 1..Len(b) /\ Rejet(b, j)
      BY <1>2, <1>3, <2>2, <2>3
  <2>5. PICK s : s = Fin(b, j) \o e
      OBVIOUS
  <2>6. Prolonge(s, b, j)
      BY <2>4, <2>5, FinProlongee
  <2>7. ~Possible(s)
      BY <2>4, <2>6, RejetJuste
  <2>8. s \in Liste /\ s # <<>>
    <3>1. Len(s) >= Len(b) - j + 1 /\ s \in Liste
        BY <2>6 DEF Prolonge
    <3>2. Len(<<>>) = 0
        OBVIOUS
    <3> QED
        BY <1>1, <2>4, <3>1, <3>2
  <2>9. TramesDe[s] = TramesDe[Fin(s, 2)]
      BY <2>7, <2>8, TramesDef DEF Suivie, Apres, Cumul
  <2>10. s = Fin(b \o e, j)
      BY <1>1, <2>4, <2>5, FinDeConcat
  <2>11. Fin(s, 2) = Fin(b \o e, j + 1)
    <3>1. j \in 1..(Len(b \o e) + 1) /\ 2 \in 1..(Len(b \o e) - j + 2) /\ j + 2 - 1 = j + 1
        BY <1>1, <1>4, <2>4
    <3>2. Fin(Fin(b \o e, j), 2) = Fin(b \o e, j + 2 - 1)
        BY <1>4, <3>1, FinDeFin
    <3> QED
        BY <2>10, <3>1, <3>2
  <2>12. Fin(b \o e, j + 1) = Fin(b, j + 1) \o e
    <3>1. j + 1 \in 1..(Len(b) + 1)
        BY <1>1, <2>4
    <3> QED
        BY <3>1, FinDeConcat
  <2>13. TramesDe[b \o e] = TramesDe[s]
      BY <1>6, <2>2, <2>3, <2>5
  <2> QED
      BY <2>3, <2>9, <2>11, <2>12, <2>13
<1>7. Nat \subseteq U
  <2> HIDE DEF U
  <2> QED
      BY <1>5, <1>6, Recurrence
<1>8. d - 1 \in Nat /\ (d - 1) + 1 = d
    BY <1>1, <1>2, <1>3
<1>9. d - 1 \in U
  <2> HIDE DEF U
  <2> QED
      BY <1>7, <1>8
<1> QED
    BY <1>3, <1>8, <1>9

\* A frame the parser takes out is the first one, whatever comes next.
Sortie(b, e, i, l) ==
    /\ l \in FrameMin..FrameMax /\ i \in 1..Len(b) /\ i + l - 1 \in i..Len(b)
    /\ SubSeq(b, i, i + l - 1) \in Liste /\ Len(SubSeq(b, i, i + l - 1)) = l
    /\ Fin(b, i + l) \in Liste /\ Len(Fin(b, i + l)) = Len(b) - (i + l) + 1
    /\ TramesDe[b \o e] = <<SubSeq(b, i, i + l - 1)>> \o TramesDe[Fin(b, i + l) \o e]

LEMMA TrameSortie ==
    ASSUME NEW b \in Liste, NEW e \in Liste, NEW i, i = Debut(b), i <= Len(b), Complete(b, i),
           NEW l, l = Longueur(b, i)
    PROVE  Sortie(b, e, i, l)
<1> SUFFICES /\ l \in FrameMin..FrameMax /\ i \in 1..Len(b) /\ i + l - 1 \in i..Len(b)
             /\ SubSeq(b, i, i + l - 1) \in Liste /\ Len(SubSeq(b, i, i + l - 1)) = l
             /\ Fin(b, i + l) \in Liste /\ Len(Fin(b, i + l)) = Len(b) - (i + l) + 1
             /\ TramesDe[b \o e] = <<SubSeq(b, i, i + l - 1)>> \o TramesDe[Fin(b, i + l) \o e]
    BY DEF Sortie
<1>1. Len(b) \in Nat /\ Len(e) \in Nat
    BY LenProperties DEF Liste
<1>2. i \in 1..Len(b) /\ ~Rejet(b, i)
    BY <1>1, AvantDebut
<1>3. Len(b) - i + 1 >= 6 /\ Len(b) - i + 1 >= l
    BY DEF Complete
<1>4. PICK s : s = Fin(b, i) \o e
    OBVIOUS
<1>5. Prolonge(s, b, i)
    BY <1>2, <1>4, FinProlongee
<1>6. Possible(s) /\ s[4] + 4 = l /\ s # <<>> /\ Entiere(s) /\ l \in FrameMin..FrameMax
    BY <1>2, <1>3, <1>5, EnteteJuste
<1>7. l \in Nat /\ l >= 12
    BY <1>6, Tailles DEF FrameMin
<1>8. i + l - 1 \in i..Len(b) /\ i + l \in 1..(Len(b) + 1)
    BY <1>1, <1>2, <1>3, <1>7
<1>9. PICK f : f = i + l - 1
    OBVIOUS
<1>10. \A k \in i..f : b[k] \in Octet
  <2>1. \A k \in 1..Len(b) : b[k] \in Octet
      BY ElementOfSeq DEF Liste
  <2> QED
      BY <1>1, <1>2, <1>8, <1>9, <2>1
<1>11. PICK u : u = SubSeq(b, i, f)
    OBVIOUS
<1>12. u \in Liste /\ Len(u) = l /\ \A k \in 1..l : u[k] = b[i + k - 1]
  <2>1. f \in Int /\ i \in Int /\ i <= f /\ f - i + 1 = l
    <3>1. i \in Int /\ l \in Int /\ l >= 12 /\ f = i + l - 1
        BY <1>1, <1>2, <1>7, <1>9
    <3> HIDE DEF Longueur
    <3> QED
        BY <3>1
  <2>2. /\ SubSeq(b, i, f) \in Seq(Octet)
        /\ Len(SubSeq(b, i, f)) = IF i <= f THEN f - i + 1 ELSE 0
        /\ \A k \in 1..(f - i + 1) : SubSeq(b, i, f)[k] = b[i + k - 1]
      BY <1>10, <2>1, SubSeqProperties
  <2> QED
      BY <1>11, <2>1, <2>2 DEF Liste
<1>13. s \in Liste
    BY <1>5 DEF Prolonge
<1>14. PICK v : v = SubSeq(s, 1, s[4] + 4)
    OBVIOUS
<1>15. v \in Liste /\ Len(v) = l /\ \A k \in 1..l : v[k] = s[k]
    BY <1>6, <1>13, <1>14, TrameEtSuite
<1>16. u = v
  <2>1. \A k \in 1..l : u[k] = v[k]
    <3>1. \A k \in 1..(Len(b) - i + 1) : s[k] = b[i + k - 1]
        BY <1>5 DEF Prolonge
    <3>2. \A k \in 1..l : k \in 1..(Len(b) - i + 1)
        BY <1>1, <1>2, <1>3, <1>7
    <3> QED
        BY <1>12, <1>15, <3>1, <3>2
  <2> QED
      BY <1>12, <1>15, <2>1, SeqEqual DEF Liste
<1>17. Fin(s, s[4] + 5) = Fin(b, i + l) \o e
  <2>1. PICK c : c = b \o e
      OBVIOUS
  <2>2. c \in Liste /\ Len(c) = Len(b) + Len(e)
      BY <2>1, ConcatProperties DEF Liste
  <2>3. s = Fin(c, i)
      BY <1>1, <1>2, <1>4, <2>1, FinDeConcat
  <2>4. i \in 1..(Len(c) + 1) /\ l + 1 \in 1..(Len(c) - i + 2) /\ i + (l + 1) - 1 = i + l
      BY <1>1, <1>2, <1>3, <1>7, <2>2
  <2>5. Fin(Fin(c, i), l + 1) = Fin(c, i + (l + 1) - 1)
      BY <2>2, <2>4, FinDeFin
  <2>6. Fin(c, i + l) = Fin(b, i + l) \o e
      BY <1>8, <2>1, FinDeConcat
  <2>7. s[4] + 5 = l + 1
    <3>1. s[4] \in Octet
        BY <1>6, <1>13, TrameEtSuite
    <3>2. \A w \in Octet : w + 4 = l => w + 5 = l + 1
        BY <1>7 DEF Octet
    <3> QED
        BY <1>6, <3>1, <3>2
  <2> QED
      BY <2>3, <2>4, <2>5, <2>6, <2>7
<1>18. TramesDe[s] = <<v>> \o TramesDe[Fin(s, s[4] + 5)]
  <2>1. Suivie(s) /\ Apres(s) = Fin(s, s[4] + 5)
      BY <1>6 DEF Suivie, Apres
  <2> QED
      BY <1>6, <1>13, <1>14, <2>1, TramesDef DEF Cumul
<1>19. TramesDe[b \o e] = TramesDe[s]
    BY <1>4, Saut
<1>20. Fin(b, i + l) \in Liste /\ Len(Fin(b, i + l)) = Len(b) - (i + l) + 1
    BY <1>8, FinFaite
<1> QED
    BY <1>2, <1>6, <1>8, <1>9, <1>11, <1>12, <1>16, <1>17, <1>18, <1>19, <1>20

\* What is kept when no frame is complete holds none.
LEMMA RienSorti ==
    ASSUME NEW b \in Liste, NEW i, i = Debut(b), ~(i <= Len(b) /\ Complete(b, i))
    PROVE  TramesDe[Fin(b, i)] = <<>>
<1>1. Len(b) \in Nat /\ i \in 1..(Len(b) + 1) /\ (i <= Len(b) => ~Rejet(b, i))
    BY AvantDebut, LenProperties DEF Liste
<1>2. PICK t : t = Fin(b, i)
    OBVIOUS
<1>3. t \in Liste /\ Len(t) = Len(b) - i + 1
    BY <1>1, <1>2, FinFaite
<1>4. CASE Len(b) - i + 1 < 6
  <2>1. Len(t) \in Nat /\ Len(t) < FrameMin
      BY <1>1, <1>3, <1>4 DEF FrameMin
  <2> QED
      BY <1>2, <1>3, <2>1, TropCourt
<1>5. CASE Len(b) - i + 1 >= 6
  <2>1. i \in 1..Len(b) /\ ~Rejet(b, i) /\ ~Complete(b, i)
      BY <1>1, <1>5
  <2>2. t \o <<>> = t
      BY <1>3, ConcatEmptySeq DEF Liste
  <2>3. Prolonge(t, b, i)
    <3>1. PICK vide : vide = <<>>
        OBVIOUS
    <3>2. vide \in Liste
        BY <3>1, EmptySeq DEF Liste
    <3>3. Prolonge(Fin(b, i) \o vide, b, i)
        BY <2>1, <3>2, FinProlongee
    <3> QED
        BY <1>2, <2>2, <3>1, <3>3
  <2>4. Len(t) < Longueur(b, i)
    <3>1. ~(Len(t) >= Longueur(b, i))
        BY <1>3, <1>5, <2>1 DEF Complete
    <3>2. Longueur(b, i) \in Int
      <4>1. i + 3 \in 1..Len(b)
          BY <1>1, <1>5
      <4>2. b[i + 3] \in Octet
          BY <4>1, ElementOfSeq DEF Liste
      <4>3. \A w \in Octet : w + 4 \in Int
          BY DEF Octet
      <4> QED
          BY <4>2, <4>3 DEF Longueur
    <3>3. Len(t) \in Int
        BY <1>1, <1>3
    <3> HIDE DEF Longueur
    <3> QED
        BY <3>1, <3>2, <3>3
  <2>5. Possible(t) /\ ~Entiere(t)
      BY <1>5, <2>1, <2>3, <2>4, EnteteJuste
  <2>6. ~Suivie(t)
      BY <2>5 DEF Suivie
  <2> QED
      BY <1>2, <1>3, <2>6, TramesDef
<1> QED
    BY <1>1, <1>4, <1>5

\* The bytes after a whole frame do not make it a false one.
LEMMA PossibleAllongee ==
    ASSUME NEW s \in Liste, NEW r \in Liste, Possible(s), Entiere(s),
           Len(r) >= Len(s), \A k \in 1..Len(s) : r[k] = s[k]
    PROVE  Possible(r)
<1>1. Len(s) \in Nat /\ Len(r) \in Nat /\ Len(s) > 3 /\ Len(s) >= s[4] + 4
    BY LenProperties DEF Liste, Entiere
<1>2. PICK l : l = LongueurDite(s)
    OBVIOUS
<1>3. l = s[4] + 4 /\ l \in FrameMin..FrameMax
    BY <1>1, <1>2 DEF Possible, LongueurDite
<1>4. l \in Nat /\ l >= 12 /\ l <= Len(s) /\ Len(s) >= 6
    BY <1>1, <1>3, Tailles DEF FrameMin
<1>5. s[1] \in {254} /\ s[2] \in {239} /\ s[3] \in {10, 12} /\ s[5] \in {171} /\ s[6] \in {Sens(s[3])}
  <2>1. Len(s) >= 1 /\ Len(s) >= 2 /\ Len(s) >= 3 /\ Len(s) >= 5 /\ Len(s) >= 6
      BY <1>1, <1>4
  <2> QED
      BY <2>1 DEF Possible, Vu
<1>6. FinJuste(s, l)
  <2>1. Len(s) >= l
      BY <1>1, <1>4
  <2> QED
      BY <1>2, <2>1 DEF Possible
<1>7. r[1] = s[1] /\ r[2] = s[2] /\ r[3] = s[3] /\ r[4] = s[4] /\ r[5] = s[5] /\ r[6] = s[6]
  <2>1. 1 \in 1..Len(s) /\ 2 \in 1..Len(s) /\ 3 \in 1..Len(s) /\ 4 \in 1..Len(s)
        /\ 5 \in 1..Len(s) /\ 6 \in 1..Len(s)
      BY <1>1, <1>4
  <2> QED
      BY <2>1
<1>8. r[l - 2] = s[l - 2] /\ r[l - 1] = s[l - 1] /\ r[l] = s[l]
  <2>1. l - 2 \in 1..Len(s) /\ l - 1 \in 1..Len(s) /\ l \in 1..Len(s)
      BY <1>1, <1>4
  <2> QED
      BY <2>1
<1>9. LongueurDite(r) = l
    BY <1>1, <1>3, <1>7 DEF LongueurDite
<1>10. FinJuste(r, l)
    BY <1>6, <1>8 DEF FinJuste
<1> QED
    BY <1>3, <1>5, <1>7, <1>9, <1>10 DEF Possible, Vu

\* A true frame of the device is never rejected where it starts.
LEMMA VraieTrame ==
    ASSUME NEW o \in Liste, NEW a \in 1..Len(o), NEW z \in a..Len(o),
           Possible(SubSeq(o, a, z)), Entiere(SubSeq(o, a, z)),
           Len(SubSeq(o, a, z)) = SubSeq(o, a, z)[4] + 4,
           NEW b \in Liste, NEW p \in Nat, p + Len(b) <= Len(o),
           \A k \in 1..Len(b) : b[k] = o[p + k], a - p \in 1..Len(b)
    PROVE  /\ ~Rejet(b, a - p)
           /\ Len(b) - (a - p) + 1 >= 6 => Longueur(b, a - p) = z - a + 1
<1>1. Len(o) \in Nat /\ Len(b) \in Nat /\ a \in Nat /\ z \in Nat /\ a <= z
    BY LenProperties DEF Liste
<1>2. PICK s : s = SubSeq(o, a, z)
    OBVIOUS
<1>3. s \in Liste /\ Len(s) = z - a + 1 /\ \A k \in 1..(z - a + 1) : s[k] = o[a + k - 1]
  <2>1. \A k \in a..z : o[k] \in Octet
    <3>1. \A k \in 1..Len(o) : o[k] \in Octet
        BY ElementOfSeq DEF Liste
    <3> QED
        BY <1>1, <3>1
  <2>0. a \in Int /\ z \in Int
      BY <1>1
  <2>2. /\ SubSeq(o, a, z) \in Seq(Octet)
        /\ Len(SubSeq(o, a, z)) = IF a <= z THEN z - a + 1 ELSE 0
        /\ \A k \in 1..(z - a + 1) : SubSeq(o, a, z)[k] = o[a + k - 1]
      BY ONLY <2>0, <2>1, SubSeqProperties
  <2> QED
      BY <1>1, <1>2, <2>2 DEF Liste
<1>4. PICK r : r = Fin(o, a)
    OBVIOUS
<1>5. r \in Liste /\ Len(r) = Len(o) - a + 1 /\ \A k \in 1..(Len(o) - a + 1) : r[k] = o[a + k - 1]
  <2>1. a \in 1..(Len(o) + 1)
      BY <1>1
  <2> QED
      BY <1>4, <2>1, FinFaite
<1>6. Possible(r)
  <2>1. Len(r) >= Len(s)
      BY <1>1, <1>3, <1>5
  <2>2. \A k \in 1..Len(s) : r[k] = s[k]
    <3>1. \A k \in 1..Len(s) : k \in 1..(z - a + 1) /\ k \in 1..(Len(o) - a + 1)
        BY <1>1, <1>3
    <3> QED
        BY <1>3, <1>5, <3>1
  <2>3. Possible(s) /\ Entiere(s)
      BY <1>2
  <2> QED
      BY <1>3, <1>5, <2>1, <2>2, <2>3, PossibleAllongee
<1>7. PICK j \in 1..Len(b) : j = a - p
    OBVIOUS
<1>8. Prolonge(r, b, j)
  <2>1. Len(r) >= Len(b) - j + 1
      BY <1>1, <1>5, <1>7
  <2>2. ASSUME NEW k \in 1..(Len(b) - j + 1)
        PROVE  r[k] = b[j + k - 1]
    <3>1. /\ k \in 1..(Len(o) - a + 1) /\ j + k - 1 \in 1..Len(b)
          /\ p + (j + k - 1) = a + k - 1
        BY <1>1, <1>7
    <3> QED
        BY <1>5, <3>1
  <2> QED
      BY <1>5, <2>1, <2>2 DEF Prolonge
<1>9. ~Rejet(b, j)
    BY <1>6, <1>8, RejetJuste
<1>10. ASSUME Len(b) - j + 1 >= 6
       PROVE  Longueur(b, j) = z - a + 1
  <2>1. r[4] + 4 = Longueur(b, j)
      BY <1>8, <1>10, MemesOctets
  <2>2. r[4] = s[4]
    <3>1. Len(s) > 3
        BY <1>2 DEF Entiere
    <3>2. 4 \in 1..(z - a + 1) /\ 4 \in 1..(Len(o) - a + 1)
        BY <1>1, <1>3, <3>1
    <3> QED
        BY <1>3, <1>5, <3>2
  <2>3. Len(s) = s[4] + 4
      BY <1>2
  <2> QED
      BY <1>3, <2>1, <2>2, <2>3
<1> QED
    BY <1>7, <1>9, <1>10

-----------------------------------------------------------------------------
(* What is returned.                                                       *)

Rendue == [debut : Nat, octets : Liste]
Octets(r) == [i \in DOMAIN r |-> r[i].octets]
Lu == SubSeq(flux.octets, 1, lus)

\* A closed link has returned nothing and its buffer is empty.  The buffer holds
\* the last bytes read.
PlaceInv ==
    /\ rendues \in Seq(Rendue)
    /\ ~ouvert => rendues = <<>> /\ tampon = <<>>
    /\ Len(tampon) <= lus
    /\ \A k \in 1..Len(tampon) : tampon[k] = flux.octets[(lus - Len(tampon)) + k]

\* What is in the buffer, with whatever comes next, gives the frames not returned.
DecoupeInv ==
    \A e \in Liste : Octets(rendues) \o TramesDe[tampon \o e] = TramesDe[Lu \o e]

\* A true frame whose start is no longer in the buffer is returned or covered.
Couvre(r, t) ==
    /\ r.debut <= t[1] /\ t[1] < r.debut + Len(r.octets)
    /\ r.debut = t[1] => Len(r.octets) = t[2] - t[1] + 1

BruitInv ==
    ouvert => \A t \in flux.trames :
                  t[1] <= lus - Len(tampon) => \E i \in DOMAIN rendues : Couvre(rendues[i], t)

RenduInv == PlaceInv /\ DecoupeInv /\ BruitInv

\* The device's stream, and what was read of it.
LEMMA Flot ==
    ASSUME IInv
    PROVE  /\ flux \in Flux /\ flux.octets \in Liste /\ lus \in Nat /\ lus <= Len(flux.octets)
           /\ Len(flux.octets) \in Nat /\ Lu \in Liste
           /\ tampon \in Liste /\ Len(tampon) \in Nat
<1>1. flux \in Flux /\ flux.octets \in Seq(Octet) /\ lus \in 0..Len(flux.octets)
      /\ tampon \in Seq(Octet)
    BY TransportAssumption DEF IInv, TypeOK
<1>2. Len(flux.octets) \in Nat /\ Len(tampon) \in Nat
    BY <1>1, LenProperties
<1>3. lus \in Nat /\ lus <= Len(flux.octets)
    BY <1>1, <1>2
<1>4. \A k \in 1..lus : flux.octets[k] \in Octet
  <2>1. \A k \in 1..Len(flux.octets) : flux.octets[k] \in Octet
      BY <1>1, ElementOfSeq
  <2> QED
      BY <1>2, <1>3, <2>1
<1>5. Lu \in Seq(Octet)
    BY <1>3, <1>4, SubSeqProperties DEF Lu
<1> QED
    BY <1>1, <1>2, <1>3, <1>5 DEF Liste

LEMMA OctetsVide == Octets(<<>>) = <<>>
BY DEF Octets

LEMMA OctetsType ==
    ASSUME NEW r \in Seq(Rendue)
    PROVE  Octets(r) \in Trames
<1>1. Len(r) \in Nat /\ DOMAIN r = 1..Len(r)
    BY LenProperties
<1>2. \A i \in 1..Len(r) : r[i] \in Rendue
    BY ElementOfSeq
<1>3. \A i \in 1..Len(r) : r[i].octets \in Liste
    BY <1>2 DEF Rendue
<1>4. Octets(r) \in [1..Len(r) -> Liste]
    BY <1>1, <1>3 DEF Octets
<1> QED
    BY <1>1, <1>4, SeqDef DEF Trames

\* One frame more.
LEMMA OctetsAjout ==
    ASSUME NEW r \in Seq(Rendue), NEW x \in Rendue
    PROVE  Octets(Append(r, x)) = Octets(r) \o <<x.octets>>
<1>1. Len(r) \in Nat /\ DOMAIN r = 1..Len(r)
    BY LenProperties
<1>2. PICK s : s = Append(r, x)
    OBVIOUS
<1>3. /\ s \in Seq(Rendue) /\ Len(s) = Len(r) + 1
      /\ \A i \in 1..Len(r) : s[i] = r[i]
      /\ s[Len(r) + 1] = x
    BY <1>2, AppendProperties
<1>4. DOMAIN s = 1..Len(s)
    BY <1>3, LenProperties
<1>5. PICK a, b : a = Octets(s) /\ b = Octets(r)
    OBVIOUS
<1>6. a \in Trames /\ b \in Trames
    BY <1>3, <1>5, OctetsType
<1>7. /\ Len(a) = Len(r) + 1 /\ \A i \in 1..(Len(r) + 1) : a[i] = s[i].octets
      /\ Len(b) = Len(r) /\ \A i \in 1..Len(r) : b[i] = r[i].octets
  <2>1. DOMAIN a = 1..(Len(r) + 1) /\ DOMAIN b = 1..Len(r)
      BY <1>1, <1>3, <1>4, <1>5 DEF Octets
  <2>2. /\ Len(a) \in Nat /\ DOMAIN a = 1..Len(a) /\ Len(b) \in Nat /\ DOMAIN b = 1..Len(b)
      BY <1>6, LenProperties DEF Trames
  <2>3. Len(a) = Len(r) + 1 /\ Len(b) = Len(r)
      BY <1>1, <2>1, <2>2
  <2>4. \A i \in 1..(Len(r) + 1) : a[i] = s[i].octets
      BY <1>3, <1>4, <1>5 DEF Octets
  <2>5. \A i \in 1..Len(r) : b[i] = r[i].octets
      BY <1>1, <1>5 DEF Octets
  <2> QED
      BY <2>3, <2>4, <2>5
<1>8. PICK u : u = <<x.octets>>
    OBVIOUS
<1>9. u \in Seq(Liste) /\ Len(u) = 1 /\ u[1] = x.octets
  <2>1. x.octets \in Liste
      BY DEF Rendue
  <2> QED
      BY <1>8, <2>1
<1>10. PICK c : c = b \o u
    OBVIOUS
<1>11. /\ c \in Seq(Liste) /\ Len(c) = Len(b) + Len(u)
       /\ \A i \in 1..(Len(b) + Len(u)) : c[i] = IF i <= Len(b) THEN b[i] ELSE u[i - Len(b)]
    BY <1>6, <1>9, <1>10, ConcatProperties DEF Trames
<1>12. Len(a) = Len(c)
    BY <1>1, <1>7, <1>9, <1>11
<1>13. ASSUME NEW i \in 1..Len(a)
       PROVE  a[i] = c[i]
  <2>1. i \in 1..(Len(r) + 1) /\ i \in 1..(Len(b) + Len(u))
      BY <1>7, <1>9
  <2>2. CASE i <= Len(r)
    <3>1. i \in 1..Len(r) /\ i <= Len(b)
        BY <1>1, <1>7, <2>1, <2>2
    <3> QED
        BY <1>3, <1>7, <1>11, <2>1, <3>1
  <2>3. CASE i = Len(r) + 1
    <3>1. ~(i <= Len(b)) /\ i - Len(b) = 1
        BY <1>1, <1>7, <2>3
    <3> QED
        BY <1>3, <1>7, <1>9, <1>11, <2>1, <2>3, <3>1
  <2> QED
      BY <1>1, <2>1, <2>2, <2>3
<1>14. a = c
    BY <1>6, <1>11, <1>12, <1>13, SeqEqual DEF Trames
<1> QED
    BY <1>2, <1>5, <1>8, <1>10, <1>14

\* A byte rejected is not where a true frame of the device starts, and one taken
\* out there has its length.
LEMMA DebutVrai ==
    ASSUME IInv, PlaceInv, NEW t \in flux.trames, NEW j \in 1..Len(tampon),
           t[1] = (lus - Len(tampon)) + j
    PROVE  /\ ~Rejet(tampon, j)
           /\ Len(tampon) - j + 1 >= 6 => Longueur(tampon, j) = t[2] - t[1] + 1
<1>1. /\ flux \in Flux /\ flux.octets \in Liste /\ lus \in Nat /\ lus <= Len(flux.octets)
      /\ Len(flux.octets) \in Nat /\ tampon \in Liste /\ Len(tampon) \in Nat
    BY Flot
<1>2. PICK o, b, p, a, z : o = flux.octets /\ b = tampon /\ p = lus - Len(tampon)
                           /\ a = t[1] /\ z = t[2]
    OBVIOUS
<1>3. p \in Nat /\ p + Len(b) <= Len(o) /\ \A k \in 1..Len(b) : b[k] = o[p + k]
  <2>1. Len(tampon) <= lus /\ \A k \in 1..Len(tampon) : tampon[k] = flux.octets[(lus - Len(tampon)) + k]
      BY DEF PlaceInv
  <2>2. p \in Nat /\ p + Len(b) <= Len(o)
      BY <1>1, <1>2, <2>1
  <2> QED
      BY <1>2, <2>1, <2>2
<1>4. /\ z \in a..Len(o) /\ Possible(SubSeq(o, a, z)) /\ Entiere(SubSeq(o, a, z))
      /\ Len(SubSeq(o, a, z)) = SubSeq(o, a, z)[4] + 4
    BY <1>1, <1>2, TramesAssumption
<1>5. a = p + j
    BY <1>2
<1>6. a \in 1..Len(o) /\ a - p = j
  <2>1. j \in Nat /\ 1 <= j /\ j <= Len(b) /\ Len(b) \in Nat /\ Len(o) \in Nat
      BY <1>1, <1>2
  <2> QED
      BY <1>3, <1>5, <2>1
<1>7. /\ ~Rejet(b, a - p)
      /\ Len(b) - (a - p) + 1 >= 6 => Longueur(b, a - p) = z - a + 1
  <2>1. o \in Liste /\ b \in Liste /\ a - p \in 1..Len(b)
      BY <1>1, <1>2, <1>6
  <2> QED
      BY <1>3, <1>4, <1>6, <2>1, VraieTrame
<1> QED
    BY <1>2, <1>6, <1>7

\* Steps that neither read nor return anything.
LEMMA RenduReste ==
    ASSUME RenduInv, UNCHANGED <<ouvert, flux, lus, tampon, rendues>>
    PROVE  RenduInv'
<1>1. PlaceInv'
    BY DEF RenduInv, PlaceInv
<1>2. DecoupeInv'
    BY DEF RenduInv, DecoupeInv, Octets, Lu
<1>3. BruitInv'
    BY DEF RenduInv, BruitInv
<1> QED
    BY <1>1, <1>2, <1>3 DEF RenduInv

\* Both parsers start again: nothing read, nothing returned.
LEMMA RenduVide ==
    ASSUME NEW f \in Flux, NEW o
    PROVE  /\ <<>> \in Seq(Rendue) /\ Len(<<>>) = 0
           /\ \A e \in Liste : Octets(<<>>) \o TramesDe[<<>> \o e] = TramesDe[SubSeq(o, 1, 0) \o e]
           /\ \A t \in f.trames : ~(t[1] <= 0)
<1>1. SubSeq(o, 1, 0) = <<>>
    BY SubSeqEmpty
<1>2. ASSUME NEW e \in Liste
      PROVE  Octets(<<>>) \o TramesDe[<<>> \o e] = TramesDe[SubSeq(o, 1, 0) \o e]
  <2>1. <<>> \o e = e
      BY ConcatEmptySeq DEF Liste
  <2>2. PICK v \in Trames : v = TramesDe[e]
      BY TramesDef
  <2>3. <<>> \o v = v
      BY ConcatEmptySeq DEF Trames
  <2> QED
      BY <1>1, <2>1, <2>2, <2>3, OctetsVide
<1>3. ASSUME NEW t \in f.trames
      PROVE  ~(t[1] <= 0)
  <2>1. /\ t[1] >= 1 /\ t[2] \in t[1]..Len(f.octets)
      BY TramesAssumption
  <2>2. t[1] \in Nat
      BY TransportAssumption
  <2> QED
      BY <2>1, <2>2
<1>4. <<>> \in Seq(Rendue) /\ Len(<<>>) = 0
    BY EmptySeq
<1> QED
    BY <1>2, <1>3, <1>4

LEMMA RenduLiaison ==
    ASSUME IInv, RenduInv, Connecter \/ Deconnecter
    PROVE  RenduInv'
<1>1. tampon' = <<>> /\ rendues' = <<>> /\ lus' = 0 /\ flux' \in Flux
    BY DEF Connecter, Deconnecter, ParserInit, IInv, FermeInv, TypeOK, RenduInv, PlaceInv
<1>2. PICK f \in Flux : f = flux'
    BY <1>1
<1>3. PICK o : o = flux'.octets
    OBVIOUS
<1>4. /\ <<>> \in Seq(Rendue) /\ Len(<<>>) = 0
      /\ \A e \in Liste : Octets(<<>>) \o TramesDe[<<>> \o e] = TramesDe[SubSeq(o, 1, 0) \o e]
      /\ \A t \in f.trames : ~(t[1] <= 0)
    BY RenduVide
<1>5. PlaceInv'
  <2>1. Len(tampon') = 0 /\ 0 <= 0
      BY <1>1, <1>4
  <2> QED
      BY <1>1, <1>4, <2>1 DEF PlaceInv
<1>6. DecoupeInv'
  <2>1. Octets(rendues)' = Octets(<<>>)
      BY <1>1 DEF Octets
  <2>2. Lu' = SubSeq(o, 1, 0)
      BY <1>1, <1>3 DEF Lu
  <2> QED
      BY <1>1, <1>4, <2>1, <2>2 DEF DecoupeInv
<1>7. BruitInv'
  <2>0. Len(tampon') = 0
      BY <1>1, <1>4
  <2>1. \A m, n : m = 0 /\ n = 0 => m - n = 0
      OBVIOUS
  <2>2. lus' = 0
      BY <1>1
  <2>3. lus' - Len(tampon') = 0
      BY ONLY <2>0, <2>1, <2>2
  <2> QED
      BY <1>2, <1>4, <2>3 DEF BruitInv
<1> QED
    BY <1>5, <1>6, <1>7 DEF RenduInv

\* A frame is returned.
LEMMA RenduExtraire ==
    ASSUME IInv, RenduInv, Extraire
    PROVE  RenduInv'
<1>1. /\ tampon \in Liste /\ Len(tampon) \in Nat /\ lus \in Nat
      /\ rendues \in Seq(Rendue) /\ Len(tampon) <= lus
    BY Flot DEF RenduInv, PlaceInv
<1>2. PICK b, p, i, l : b = tampon /\ p = lus - Len(tampon) /\ i = Debut(b) /\ l = Longueur(b, i)
    OBVIOUS
<1>3. i <= Len(b) /\ Complete(b, i)
    BY <1>2 DEF Extraire
<1>4. \A e \in Liste : Sortie(b, e, i, l)
  <2>1. b \in Liste /\ i = Debut(b) /\ l = Longueur(b, i)
      BY <1>1, <1>2
  <2> QED
      BY ONLY <1>3, <2>1, TrameSortie
<1>5. PICK u, c : u = SubSeq(b, i, i + l - 1) /\ c = Fin(b, i + l)
    OBVIOUS
<1>6. /\ l \in FrameMin..FrameMax /\ i \in 1..Len(b) /\ i + l - 1 \in i..Len(b)
      /\ u \in Liste /\ Len(u) = l /\ c \in Liste /\ Len(c) = Len(b) - (i + l) + 1
  <2>1. b \in Liste
      BY <1>1, <1>2
  <2> QED
      BY <1>4, <1>5, <2>1 DEF Sortie
<1>7. \A e \in Liste : TramesDe[b \o e] = <<u>> \o TramesDe[c \o e]
    BY <1>4, <1>5 DEF Sortie
<1>8. l \in Nat /\ l >= 12 /\ i \in Nat /\ 1 <= i /\ i <= Len(b) /\ i + l - 1 <= Len(b)
      /\ Len(b) \in Nat /\ p \in Nat
    BY <1>1, <1>2, <1>6, Tailles DEF FrameMin
<1>9. PICK x : x = [debut |-> p + i, octets |-> u]
    OBVIOUS
<1>10. x \in Rendue /\ x.debut = p + i /\ x.octets = u
    BY <1>6, <1>8, <1>9 DEF Rendue
<1>11. PICK f : f = i + Longueur(tampon, i) - 1
    OBVIOUS
<1>12. /\ rendues' = Append(rendues, [debut |-> lus - Len(tampon) + i,
                                      octets |-> SubSeq(tampon, i, f)])
       /\ tampon' = SubSeq(tampon, f + 1, Len(tampon))
    BY <1>2, <1>11 DEF Extraire
<1>13. f = i + l - 1 /\ f + 1 = i + l
    BY <1>2, <1>8, <1>11
<1>14. tampon' = c
    BY <1>2, <1>5, <1>12, <1>13 DEF Fin
<1>15. rendues' = Append(rendues, x)
    BY <1>2, <1>5, <1>9, <1>12, <1>13
<1>16. lus' = lus /\ flux' = flux /\ ouvert' = ouvert /\ ouvert
    BY DEF Extraire, IInv, FermeInv
<1>17. /\ Append(rendues, x) \in Seq(Rendue)
       /\ Len(Append(rendues, x)) = Len(rendues) + 1 /\ Len(rendues) \in Nat
       /\ \A k \in 1..Len(rendues) : Append(rendues, x)[k] = rendues[k]
       /\ Append(rendues, x)[Len(rendues) + 1] = x
       /\ DOMAIN rendues = 1..Len(rendues)
       /\ DOMAIN Append(rendues, x) = 1..(Len(rendues) + 1)
  <2>1. /\ Append(rendues, x) \in Seq(Rendue)
        /\ Len(Append(rendues, x)) = Len(rendues) + 1
        /\ \A k \in 1..Len(rendues) : Append(rendues, x)[k] = rendues[k]
        /\ Append(rendues, x)[Len(rendues) + 1] = x
      BY <1>1, <1>10, AppendProperties
  <2>2. Len(rendues) \in Nat /\ DOMAIN rendues = 1..Len(rendues)
      BY <1>1, LenProperties
  <2>3. DOMAIN Append(rendues, x) = 1..Len(Append(rendues, x))
      BY <2>1, LenProperties
  <2> QED
      BY <2>1, <2>2, <2>3
<1>18. lus - Len(c) = p + f /\ f \in Nat /\ Len(c) <= lus
  <2>1. lus = p + Len(b) /\ Len(c) = Len(b) - (i + l) + 1
      BY <1>1, <1>2, <1>6
  <2> QED
      BY ONLY <1>8, <1>13, <2>1
<1>19. PlaceInv'
  <2>1. Len(c) <= lus
      BY <1>18
  <2>2. ASSUME NEW k \in 1..Len(c)
        PROVE  c[k] = flux.octets[(lus - Len(c)) + k]
    <3>1. i + l \in 1..(Len(b) + 1) /\ k \in 1..(Len(b) - (i + l) + 1)
        BY <1>6, <1>8
    <3>2. c[k] = b[(i + l) + k - 1]
      <4>1. \A m \in 1..(Len(b) - (i + l) + 1) : Fin(b, i + l)[m] = b[(i + l) + m - 1]
          BY <1>1, <1>2, <3>1, FinFaite
      <4> QED
          BY <1>5, <3>1, <4>1
    <3>3. (i + l) + k - 1 \in 1..Len(b)
        BY <1>8, <3>1
    <3>4. \A m \in 1..Len(b) : b[m] = flux.octets[p + m]
        BY <1>2 DEF RenduInv, PlaceInv
    <3>5. p + ((i + l) + k - 1) = (lus - Len(c)) + k
        BY <1>8, <1>13, <1>18
    <3> QED
        BY <3>2, <3>3, <3>4, <3>5
  <2> QED
      BY <1>14, <1>15, <1>16, <1>17, <2>1, <2>2 DEF PlaceInv
<1>20. DecoupeInv'
  <2>1. PICK q, y : q = Octets(rendues) /\ y = <<u>>
      OBVIOUS
  <2>2. q \in Trames /\ y \in Trames
    <3>1. q \in Trames
        BY <1>1, <2>1, OctetsType
    <3>2. <<u>> \in Seq(Liste)
        BY <1>6
    <3> QED
        BY <2>1, <3>1, <3>2 DEF Trames
  <2>3. Octets(rendues)' = q \o y
    <3>1. Octets(Append(rendues, x)) = Octets(rendues) \o <<x.octets>>
        BY <1>1, <1>10, OctetsAjout
    <3>2. Octets(rendues)' = Octets(Append(rendues, x))
        BY <1>15 DEF Octets
    <3> QED
        BY <1>10, <2>1, <3>1, <3>2
  <2>4. Lu' = Lu
      BY <1>16 DEF Lu
  <2>5. ASSUME NEW e \in Liste
        PROVE  (q \o y) \o TramesDe[c \o e] = TramesDe[Lu \o e]
    <3>1. c \o e \in Liste
        BY <1>6, ConcatProperties DEF Liste
    <3>2. PICK v \in Trames : v = TramesDe[c \o e]
        BY <3>1, TramesDef
    <3>3. (q \o y) \o v = q \o (y \o v)
        BY <2>2, ConcatAssociative DEF Trames
    <3>4. TramesDe[b \o e] = y \o v
        BY <1>7, <2>1, <3>2
    <3>5. q \o TramesDe[b \o e] = TramesDe[Lu \o e]
        BY <1>2, <2>1 DEF RenduInv, DecoupeInv
    <3> QED
        BY <3>2, <3>3, <3>4, <3>5
  <2> QED
      BY <1>14, <2>3, <2>4, <2>5 DEF DecoupeInv
<1>21. BruitInv'
  <2>1. ASSUME NEW t \in flux.trames, t[1] <= lus - Len(c)
        PROVE  \E k \in DOMAIN Append(rendues, x) : Couvre(Append(rendues, x)[k], t)
    <3>1. t[1] \in Nat /\ t[2] \in Nat
        BY Flot, TransportAssumption
    <3>2. CASE t[1] <= p
      <4>1. \E k \in DOMAIN rendues : Couvre(rendues[k], t)
          BY <1>2, <1>16, <3>2 DEF RenduInv, BruitInv
      <4>2. PICK k \in 1..Len(rendues) : Couvre(rendues[k], t)
          BY <1>17, <4>1
      <4>3. k \in 1..(Len(rendues) + 1)
          BY <1>17
      <4> QED
          BY <1>17, <4>2, <4>3
    <3>3. CASE ~(t[1] <= p)
      <4>1. PICK j \in 1..Len(b) : j <= f /\ t[1] = p + j
        <5>1. t[1] - p \in 1..Len(b) /\ t[1] - p <= f /\ t[1] = p + (t[1] - p)
            BY <1>8, <1>13, <1>18, <2>1, <3>1, <3>3
        <5> QED
            BY <5>1
      <4>2. /\ ~Rejet(b, j)
            /\ Len(b) - j + 1 >= 6 => Longueur(b, j) = t[2] - t[1] + 1
          BY <1>2, <4>1, DebutVrai DEF RenduInv
      <4>3. ~(j < i)
        <5> SUFFICES ASSUME j < i
                     PROVE  FALSE
            OBVIOUS
        <5>1. j \in 1..(i - 1)
            BY <1>8
        <5>2. Rejet(b, j)
            BY <1>1, <1>2, <5>1, AvantDebut
        <5> QED
            BY <4>2, <5>2
      <4>4. x.debut <= t[1] /\ t[1] < x.debut + Len(x.octets)
          BY <1>6, <1>8, <1>10, <1>13, <4>1, <4>3
      <4>5. ASSUME x.debut = t[1]
            PROVE  Len(x.octets) = t[2] - t[1] + 1
        <5>1. j = i
            BY <1>8, <1>10, <4>1, <4>5
        <5>2. Len(b) - j + 1 >= 6
            BY <1>3, <5>1 DEF Complete
        <5> QED
            BY <1>2, <1>6, <1>10, <4>2, <5>1, <5>2
      <4>6. Couvre(x, t)
          BY <4>4, <4>5 DEF Couvre
      <4>7. Len(rendues) + 1 \in 1..(Len(rendues) + 1)
          BY <1>17
      <4> QED
          BY <1>17, <4>6, <4>7
    <3> QED
        BY <3>2, <3>3
  <2> QED
      BY <1>14, <1>15, <1>16, <2>1 DEF BruitInv
<1> QED
    BY <1>19, <1>20, <1>21 DEF RenduInv

\* The bytes that cannot start a frame are given up.
LEMMA RenduAttendre ==
    ASSUME IInv, RenduInv, Attendre
    PROVE  RenduInv' /\ TramesDe[tampon'] = <<>>
<1>1. /\ tampon \in Liste /\ Len(tampon) \in Nat /\ lus \in Nat
      /\ rendues \in Seq(Rendue) /\ Len(tampon) <= lus
    BY Flot DEF RenduInv, PlaceInv
<1>2. PICK b, p, i : b = tampon /\ p = lus - Len(tampon) /\ i = Debut(b)
    OBVIOUS
<1>3. ~(i <= Len(b) /\ Complete(b, i)) /\ tampon' = Fin(b, i)
    BY <1>2 DEF Attendre, Fin
<1>4. PICK c : c = Fin(b, i)
    OBVIOUS
<1>5. /\ i \in 1..(Len(b) + 1) /\ b \in Liste
      /\ \A j \in 1..(i - 1) : j \in 1..Len(b) /\ Rejet(b, j)
    BY <1>1, <1>2, AvantDebut
<1>6. /\ c \in Liste /\ Len(c) = Len(b) - i + 1
      /\ \A k \in 1..(Len(b) - i + 1) : c[k] = b[i + k - 1]
    BY <1>4, <1>5, FinFaite
<1>7. TramesDe[c] = <<>>
    BY <1>2, <1>3, <1>4, <1>5, RienSorti
<1>8. lus' = lus /\ flux' = flux /\ ouvert' = ouvert /\ rendues' = rendues /\ ouvert /\ tampon' = c
    BY <1>3, <1>4 DEF Attendre, IInv, FermeInv
<1>9. i \in Nat /\ 1 <= i /\ i <= Len(b) + 1 /\ Len(b) \in Nat /\ p \in Nat
      /\ lus - Len(c) = p + (i - 1)
    BY <1>1, <1>2, <1>5, <1>6
<1>10. PlaceInv'
  <2>1. Len(c) <= lus
      BY <1>1, <1>2, <1>6, <1>9
  <2>2. ASSUME NEW k \in 1..Len(c)
        PROVE  c[k] = flux.octets[(lus - Len(c)) + k]
    <3>1. k \in 1..(Len(b) - i + 1) /\ i + k - 1 \in 1..Len(b)
        BY <1>6, <1>9
    <3>2. \A m \in 1..Len(b) : b[m] = flux.octets[p + m]
        BY <1>2 DEF RenduInv, PlaceInv
    <3>3. p + (i + k - 1) = (lus - Len(c)) + k
        BY <1>9, <3>1
    <3> QED
        BY <1>6, <3>1, <3>2, <3>3
  <2> QED
      BY <1>1, <1>8, <2>1, <2>2 DEF PlaceInv
<1>11. DecoupeInv'
  <2>1. Octets(rendues)' = Octets(rendues) /\ Lu' = Lu
      BY <1>8 DEF Octets, Lu
  <2>2. ASSUME NEW e \in Liste
        PROVE  Octets(rendues) \o TramesDe[c \o e] = TramesDe[Lu \o e]
    <3>1. TramesDe[b \o e] = TramesDe[c \o e]
        BY <1>2, <1>4, <1>5, Saut
    <3> QED
        BY <1>2, <3>1 DEF RenduInv, DecoupeInv
  <2> QED
      BY <1>8, <2>1, <2>2 DEF DecoupeInv
<1>12. BruitInv'
  <2>1. ASSUME NEW t \in flux.trames, t[1] <= lus - Len(c)
        PROVE  \E k \in DOMAIN rendues : Couvre(rendues[k], t)
    <3>1. t[1] \in Nat
        BY Flot, TransportAssumption
    <3>2. t[1] <= p
      <4> SUFFICES ASSUME ~(t[1] <= p)
                   PROVE  FALSE
          OBVIOUS
      <4>1. PICK j \in 1..(i - 1) : t[1] = p + j
        <5>1. t[1] - p \in 1..(i - 1) /\ t[1] = p + (t[1] - p)
            BY <1>9, <2>1, <3>1
        <5> QED
            BY <5>1
      <4>2. j \in 1..Len(b) /\ Rejet(b, j)
          BY <1>5
      <4>3. ~Rejet(b, j)
          BY <1>2, <4>1, <4>2, DebutVrai DEF RenduInv
      <4> QED
          BY <4>2, <4>3
    <3> QED
        BY <1>2, <1>8, <3>2 DEF RenduInv, BruitInv
  <2> QED
      BY <1>8, <2>1 DEF BruitInv
<1> QED
    BY <1>7, <1>8, <1>10, <1>11, <1>12 DEF RenduInv

\* A read: the buffer and what was read get the same bytes.
LEMMA RenduLire ==
    ASSUME IInv, RenduInv, Lire
    PROVE  RenduInv'
<1>1. /\ tampon \in Liste /\ Len(tampon) \in Nat /\ lus \in Nat /\ Len(tampon) <= lus
      /\ lus <= Len(flux.octets) /\ Len(flux.octets) \in Nat /\ flux.octets \in Liste
      /\ rendues \in Seq(Rendue) /\ Lu \in Liste
    BY Flot DEF RenduInv, PlaceInv
<1>2. Len(tampon) <= FrameMax - 1
    BY DEF Lire, IInv, TamponInv
<1>3. PICK k \in 1..ChunkMax :
          /\ lus + k <= Len(flux.octets)
          /\ lus' = lus + k
          /\ IF k > BufferMax - Len(tampon)
             THEN tampon' = <<>> /\ pc' = "libre" /\ code' = "protocole"
             ELSE /\ tampon' = tampon \o SubSeq(flux.octets, lus + 1, lus + k)
                  /\ pc' = "cherche" /\ UNCHANGED code
    BY DEF Lire
<1>4. ~(k > BufferMax - Len(tampon)) /\ k \in Nat /\ k >= 1
    BY <1>1, <1>2, <1>3, Tailles
<1>5. PICK b, c, p, o : b = tampon /\ c = SubSeq(flux.octets, lus + 1, lus + k)
                        /\ p = lus - Len(tampon) /\ o = flux.octets
    OBVIOUS
<1>6. tampon' = b \o c /\ lus' = lus + k
    BY <1>3, <1>4, <1>5
<1>7. lus' = lus + k /\ flux' = flux /\ ouvert' = ouvert /\ rendues' = rendues /\ ouvert
    BY <1>3 DEF Lire, IInv, FermeInv
<1>8. c \in Liste /\ Len(c) = k /\ \A m \in 1..k : c[m] = o[lus + m]
  <2>1. \A m \in (lus + 1)..(lus + k) : o[m] \in Octet
    <3>1. \A m \in 1..Len(o) : o[m] \in Octet
        BY <1>1, <1>5, ElementOfSeq DEF Liste
    <3>2. \A m \in (lus + 1)..(lus + k) : m \in 1..Len(o)
        BY <1>1, <1>3, <1>4, <1>5
    <3> QED
        BY <3>1, <3>2
  <2>2. PICK d, f : d = lus + 1 /\ f = lus + k
      OBVIOUS
  <2>3. d \in Int /\ f \in Int /\ d <= f /\ f - d + 1 = k
      BY <1>1, <1>4, <2>2
  <2>4. \A m \in d..f : o[m] \in Octet
      BY <2>1, <2>2
  <2>5. /\ SubSeq(o, d, f) \in Seq(Octet)
        /\ Len(SubSeq(o, d, f)) = IF d <= f THEN f - d + 1 ELSE 0
        /\ \A m \in 1..(f - d + 1) : SubSeq(o, d, f)[m] = o[d + m - 1]
      BY <2>3, <2>4, SubSeqProperties
  <2>6. \A m \in 1..k : d + m - 1 = lus + m
      BY <1>1, <1>4, <2>2
  <2> QED
      BY <1>5, <2>2, <2>3, <2>5, <2>6 DEF Liste
<1>9. /\ b \o c \in Liste /\ Len(b \o c) = Len(b) + k
      /\ \A m \in 1..(Len(b) + k) : (b \o c)[m] = IF m <= Len(b) THEN b[m] ELSE c[m - Len(b)]
    BY <1>1, <1>5, <1>8, ConcatProperties DEF Liste
<1>10. PICK g : g = b \o c
    OBVIOUS
<1>11. (lus + k) - Len(g) = p /\ p \in Nat /\ Len(b) \in Nat /\ lus = p + Len(b)
    BY <1>1, <1>4, <1>5, <1>9, <1>10
<1>12. PlaceInv'
  <2>1. Len(g) <= lus + k
      BY <1>1, <1>4, <1>5, <1>9, <1>10
  <2>2. ASSUME NEW m \in 1..Len(g)
        PROVE  g[m] = o[((lus + k) - Len(g)) + m]
    <3>1. m \in 1..(Len(b) + k)
        BY <1>9, <1>10
    <3>2. CASE m <= Len(b)
      <4>1. m \in 1..Len(b)
          BY <1>11, <3>1, <3>2
      <4>2. b[m] = o[p + m]
          BY <1>5, <4>1 DEF RenduInv, PlaceInv
      <4> QED
          BY <1>9, <1>10, <1>11, <3>1, <3>2, <4>2
    <3>3. CASE ~(m <= Len(b))
      <4>1. m - Len(b) \in 1..k /\ lus + (m - Len(b)) = p + m
          BY <1>4, <1>11, <3>1, <3>3
      <4> QED
          BY <1>8, <1>9, <1>10, <1>11, <3>1, <3>3, <4>1
    <3> QED
        BY <3>2, <3>3
  <2> QED
      BY <1>1, <1>5, <1>6, <1>7, <1>10, <2>1, <2>2 DEF PlaceInv
<1>13. DecoupeInv'
  <2>1. Octets(rendues)' = Octets(rendues)
      BY <1>7 DEF Octets
  <2>2. Lu' = Lu \o c
    <3>1. 1 \in 1..(Len(o) + 1) /\ lus \in (1 - 1)..Len(o) /\ lus + k \in lus..Len(o)
        BY <1>1, <1>3, <1>4, <1>5
    <3>2. SubSeq(o, 1, lus) \o SubSeq(o, lus + 1, lus + k) = SubSeq(o, 1, lus + k)
        BY <1>1, <1>5, <3>1, ConcatAdjacentSubSeq DEF Liste
    <3> QED
        BY <1>5, <1>7, <3>2 DEF Lu
  <2>3. ASSUME NEW e \in Liste
        PROVE  Octets(rendues) \o TramesDe[(b \o c) \o e] = TramesDe[(Lu \o c) \o e]
    <3>1. PICK d \in Liste : d = c \o e
        BY <1>8, ConcatProperties DEF Liste
    <3>2. PICK r : r = Lu
        OBVIOUS
    <3>3. b \in Seq(Octet) /\ c \in Seq(Octet) /\ e \in Seq(Octet) /\ r \in Seq(Octet)
        BY <1>1, <1>5, <1>8, <3>2 DEF Liste
    <3>4. (b \o c) \o e = b \o (c \o e)
        BY ONLY <3>3, ConcatAssociative
    <3>5. (r \o c) \o e = r \o (c \o e)
        BY ONLY <3>3, ConcatAssociative
    <3> QED
        BY <1>5, <3>1, <3>2, <3>4, <3>5 DEF RenduInv, DecoupeInv
  <2> QED
      BY <1>6, <2>1, <2>2, <2>3 DEF DecoupeInv
<1>14. BruitInv'
  <2>1. lus' - Len(tampon') = lus - Len(tampon)
      BY <1>5, <1>6, <1>10, <1>11
  <2> QED
      BY <1>7, <2>1 DEF RenduInv, BruitInv
<1> QED
    BY <1>12, <1>13, <1>14 DEF RenduInv

LEMMA RenduStep ==
    ASSUME IInv, RenduInv, [Next]_vars
    PROVE  RenduInv'
<1>1. CASE Recevoir \/ Temps \/ PollRien \/ Perdre \/ Envoyer \/ EnvoyerPartie \/ EnvoyerEchoue
           \/ UNCHANGED vars
  <2>1. UNCHANGED <<ouvert, flux, lus, tampon, rendues>>
      BY <1>1 DEF Recevoir, Temps, PollRien, Perdre, Envoyer, EnvoyerPartie, EnvoyerEchoue,
                  vars, reception, emission
  <2> QED
      BY <2>1, RenduReste
<1> QED
    BY <1>1, RenduLiaison, RenduExtraire, RenduAttendre, RenduLire DEF Next

LEMMA RenduInit == Init => RenduInv
<1> SUFFICES ASSUME Init
             PROVE  RenduInv
    OBVIOUS
<1>1. flux \in Flux /\ tampon = <<>> /\ rendues = <<>> /\ lus = 0
    BY DEF Init
<1>2. PICK f \in Flux : f = flux
    BY <1>1
<1>3. PICK o : o = flux.octets
    OBVIOUS
<1>4. /\ <<>> \in Seq(Rendue) /\ Len(<<>>) = 0
      /\ \A e \in Liste : Octets(<<>>) \o TramesDe[<<>> \o e] = TramesDe[SubSeq(o, 1, 0) \o e]
      /\ \A t \in f.trames : ~(t[1] <= 0)
    BY RenduVide
<1>5. PlaceInv
  <2>1. Len(tampon) = 0 /\ 0 <= 0
      BY <1>1, <1>4
  <2> QED
      BY <1>1, <1>4, <2>1 DEF PlaceInv
<1>6. DecoupeInv
    BY <1>1, <1>3, <1>4 DEF DecoupeInv, Lu
<1>7. BruitInv
    BY <1>1, <1>2, <1>4 DEF BruitInv
<1> QED
    BY <1>5, <1>6, <1>7 DEF RenduInv

-----------------------------------------------------------------------------
(* Timeouts.                                                               *)

TempsInv ==
    /\ passe + reste = demande
    /\ pc \in {"libre", "envoi"} /\ code = "timeout" => passe = demande /\ TramesDe[tampon] = <<>>

LEMMA TempsStep ==
    ASSUME IInv, RenduInv, TempsInv, [Next]_vars
    PROVE  TempsInv'
<1>1. reste \in Nat /\ passe \in Nat /\ demande \in Nat /\ passe + reste = demande
    BY DEF IInv, TypeOK, TempsInv
<1>2. CASE Connecter
  <2>1. tampon = <<>> /\ tampon' = <<>>
      BY <1>2 DEF Connecter, ParserInit, RenduInv, PlaceInv
  <2> QED
      BY <1>2, <2>1 DEF Connecter, TempsInv
<1>3. CASE Deconnecter
    BY <1>3 DEF Deconnecter, TempsInv
<1>4. CASE Recevoir
  <2>1. PICK d \in Delais : demande' = d /\ reste' = d
      BY <1>4 DEF Recevoir
  <2>2. d \in Nat /\ passe' = 0 /\ pc' = "cherche"
      BY <1>4, TransportAssumption DEF Recevoir
  <2> QED
      BY <2>1, <2>2 DEF TempsInv
<1>5. CASE Extraire
    BY <1>5 DEF Extraire, TempsInv
<1>6. CASE Attendre
  <2>1. TramesDe[tampon'] = <<>>
      BY <1>6, RenduAttendre
  <2>2. passe' = passe /\ reste' = reste /\ demande' = demande
      BY <1>6 DEF Attendre
  <2>3. pc' = "libre" => reste = 0
      BY <1>6 DEF Attendre
  <2>4. pc' \in {"libre", "poll"}
      BY <1>6 DEF Attendre
  <2>5. pc' = "libre" => passe = demande
      BY <1>1, <2>3
  <2> QED
      BY <1>1, <2>1, <2>2, <2>4, <2>5 DEF TempsInv
<1>7. CASE Temps
  <2>1. reste' = reste - 1 /\ passe' = passe + 1 /\ demande' = demande /\ pc' = "poll" /\ reste > 0
      BY <1>7 DEF Temps
  <2>2. passe' + reste' = demande'
      BY <1>1, <2>1
  <2> QED
      BY <2>1, <2>2 DEF TempsInv
<1>8. CASE PollRien
    BY <1>8 DEF PollRien, TempsInv
<1>9. CASE Lire
  <2>1. passe' = passe /\ reste' = reste /\ demande' = demande
      BY <1>9 DEF Lire
  <2>2. pc' = "cherche" \/ code' = "protocole"
      BY <1>9 DEF Lire
  <2> QED
      BY <1>1, <2>1, <2>2 DEF TempsInv
<1>10. CASE Perdre
    BY <1>10 DEF Perdre, TempsInv
<1>11. CASE Envoyer \/ EnvoyerPartie \/ EnvoyerEchoue
  <2>1. UNCHANGED reception /\ pc \in {"libre", "envoi"} /\ pc' \in {"libre", "envoi", "perdue"}
      BY <1>11 DEF Envoyer, EnvoyerPartie, EnvoyerEchoue
  <2> QED
      BY <2>1 DEF reception, TempsInv
<1>12. CASE UNCHANGED vars
    BY <1>12 DEF vars, reception, TempsInv
<1> QED
    BY <1>2, <1>3, <1>4, <1>5, <1>6, <1>7, <1>8, <1>9, <1>10, <1>11, <1>12 DEF Next

LEMMA RenduInductive == Spec => [](IInv /\ RenduInv /\ TempsInv)
<1>1. Init => RenduInv /\ TempsInv
  <2>1. Init => TempsInv
      BY DEF Init, TempsInv
  <2> QED
      BY <2>1, RenduInit
<1>2. IInv /\ RenduInv /\ TempsInv /\ [Next]_vars => RenduInv' /\ TempsInv'
    BY RenduStep, TempsStep
<1> QED
    BY <1>1, <1>2, Inductive, PTL DEF Spec

\* aml_receive and the parser return the frames of the bytes of the link, in order,
\* however poll and recv cut them and however long the noise between them is.
THEOREM FramesInOrder == Spec => []ChunksDoNotMatter
<1>1. IInv /\ RenduInv => ChunksDoNotMatter
  <2> SUFFICES ASSUME IInv, RenduInv
               PROVE  ChunksDoNotMatter
      OBVIOUS
  <2>1. tampon \in Liste /\ Lu \in Liste
      BY Flot
  <2>2. <<>> \in Liste /\ tampon \o <<>> = tampon /\ Lu \o <<>> = Lu
      BY <2>1, ConcatEmptySeq, EmptySeq DEF Liste
  <2>3. Octets(rendues) \o TramesDe[tampon \o <<>>] = TramesDe[Lu \o <<>>]
      BY <2>2 DEF RenduInv, DecoupeInv
  <2> QED
      BY <2>2, <2>3 DEF ChunksDoNotMatter, Octets, Lu
<1> QED
    BY <1>1, RenduInductive, PTL

\* protocol_parser_next skips noise byte by byte: a true frame of the device is lost
\* to no noise, unless a well-formed frame that starts before covers its start.
THEOREM NoiseHarmless == Spec => []NoiseCostsNoFrame
<1>1. IInv /\ RenduInv => NoiseCostsNoFrame
  <2> SUFFICES ASSUME IInv, RenduInv, ouvert, pc = "poll", NEW t \in flux.trames,
                      lus >= t[1] + FrameMax - 1
               PROVE  \E i \in DOMAIN rendues : Couvre(rendues[i], t)
      BY DEF NoiseCostsNoFrame, Couvre
  <2>1. Len(tampon) <= FrameMax - 1 /\ Len(tampon) \in Nat /\ lus \in Nat /\ flux \in Flux
      BY Flot DEF IInv, TamponInv
  <2>2. t[1] \in Nat
      BY <2>1, TransportAssumption
  <2>3. t[1] <= lus - Len(tampon)
      BY <2>1, <2>2, Tailles
  <2> QED
      BY <2>3 DEF RenduInv, BruitInv
<1> QED
    BY <1>1, RenduInductive, PTL

\* aml_receive's deadline: reads and interrupted polls never extend it, and a
\* timeout is reported only when it is over and no frame is waiting.
THEOREM TimeoutsTrue == Spec => []TimeoutIsTrue
<1>1. IInv /\ TempsInv => TimeoutIsTrue
  <2> SUFFICES ASSUME IInv, TempsInv
               PROVE  TimeoutIsTrue
      OBVIOUS
  <2>1. reste \in Nat /\ passe \in Nat /\ demande \in Nat
      BY DEF IInv, TypeOK
  <2>2. passe <= demande
      BY <2>1 DEF TempsInv
  <2> QED
      BY <2>2 DEF TempsInv, TimeoutIsTrue
<1> QED
    BY <1>1, RenduInductive, PTL
=============================================================================
