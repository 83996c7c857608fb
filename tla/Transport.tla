------------------------------ MODULE Transport ------------------------------
(***************************************************************************)
(* The Bluetooth connection (src/src/aml/transport.c) and the parser that  *)
(* finds the frames in the bytes it reads (src/src/aml/protocol.c).  Link  *)
(* builds on what is shown here: whole frames, in order, of one link.      *)
(*                                                                         *)
(* What the device sends on a link is chosen when the link opens, true     *)
(* frames and noise mixed; the bytes come in reads of any size.  A byte    *)
(* that has not been read yet has arrived or not: the two are not told     *)
(* apart, so poll may find some or wait.  Requests are counted in bytes.   *)
(*                                                                         *)
(* aml_flush is called by no code of the service.  The callers pass valid  *)
(* pointers and never an unlimited timeout.                                *)
(***************************************************************************)
EXTENDS Integers, Sequences

CONSTANTS
    Flux,           \* what the device may send on a link, with its true frames
    Delais,         \* timeouts of aml_receive, 0 among them
    FrameMax,       \* AML_PROTOCOL_MAX_FRAME_SIZE
    ChunkMax,       \* AML_RX_BUFFER_SIZE
    BufferMax,      \* AML_PROTOCOL_BUFFER_SIZE
    Arguments,      \* numbers of argument bytes of the requests
    CapaciteRequete \* REQUEST_BUFFER_SIZE

FrameMin == 12                                  \* the shortest known frame
Octet == 0..255

\* A read of ChunkMax bytes always finds room beside an incomplete frame, and
\* the length of a request that fits its buffer fits one byte.
ASSUME TransportAssumption ==
    /\ Flux \subseteq [octets : Seq(Octet), trames : SUBSET (Nat \X Nat)]
    /\ Delais \subseteq Nat
    /\ FrameMax \in Nat /\ FrameMin <= FrameMax
    /\ ChunkMax \in Nat \ {0}
    /\ BufferMax \in Nat /\ FrameMax - 1 + ChunkMax <= BufferMax
    /\ Arguments \subseteq Nat
    /\ CapaciteRequete \in 0..259

VARIABLES
    ouvert,         \* socket_fd >= 0
    flux,           \* what the device sends on this link
    lus,            \* number of bytes read from the socket
    tampon,         \* parser.data, parser.length bytes
    pc,             \* where the program is
    reste,          \* time left before deadline_ms
    regarde,        \* polled
    code,           \* what the last call of aml_receive returned
    envoi,          \* the request being sent: its length byte, bytes left
    rendues,        \* history: the frames returned on this link
    passe, demande, \* history: time spent in the call, its timeout
    attendus        \* device: bytes it waits for in the middle of a request

reception == <<lus, tampon, reste, regarde, code, rendues, passe, demande>>
emission  == <<envoi, attendus>>
vars == <<ouvert, flux, pc, reception, emission>>

-----------------------------------------------------------------------------
(* The parser.                                                             *)

Sens(t) == IF t = 10 THEN 170 ELSE 187          \* AB AA: request, AB BB: response
Longueur(b, i) == b[i + 3] + 4
Entete(b, i) ==
    /\ b[i + 4] = 171 /\ b[i + 5] = Sens(b[i + 2])
    /\ Longueur(b, i) \in FrameMin..FrameMax
Terminee(b, i) ==
    LET f == i + Longueur(b, i) - 1
    IN  b[f - 2] = 85 /\ b[f - 1] = 13 /\ b[f] = 10

\* The bytes of b from i on cannot be a frame.
Rejet(b, i) ==
    LET n == Len(b) - i + 1
    IN  \/ b[i] # 254
        \/ n >= 2 /\ b[i + 1] # 239
        \/ n >= 4 /\ b[i + 2] \notin {10, 12}
        \/ n >= 6 /\ ~Entete(b, i)
        \/ n >= 6 /\ n >= Longueur(b, i) /\ ~Terminee(b, i)

\* The whole length given by the header is there.
Complete(b, i) ==
    /\ Len(b) - i + 1 >= 6
    /\ Len(b) - i + 1 >= Longueur(b, i)

\* Mutant: a candidate whose end is wrong costs its whole length.
DebutSautLong(b) ==
    LET faux == {i \in 1..Len(b) : /\ Complete(b, i) /\ b[i] = 254 /\ b[i + 1] = 239
                                   /\ Entete(b, i) /\ ~Terminee(b, i)}
        bons == {i \in 1..Len(b) :
                    ~Rejet(b, i) /\ \A j \in faux : i \notin j..(j + Longueur(b, j) - 1)}
    IN  IF bons = {} THEN Len(b) + 1 ELSE CHOOSE i \in bons : \A j \in bons : i <= j

\* Mutant: the noise is given up only when a frame follows it.
DebutParesseux(b) ==
    LET bons == {i \in 1..Len(b) : ~Rejet(b, i) /\ Complete(b, i)}
    IN  IF bons = {} THEN 1 ELSE CHOOSE i \in bons : \A j \in bons : i <= j

\* One byte is given up at each rejection, up to a place that is not rejected.
Debut(b) ==
    LET bons == {i \in 1..Len(b) : ~Rejet(b, i)}
    IN  IF bons = {} THEN Len(b) + 1 ELSE CHOOSE i \in bons : \A j \in bons : i <= j

\* Mutant: the bytes of a link are kept for the next one.
ParserInitOublie == tampon' = tampon

ParserInit == tampon' = <<>>

-----------------------------------------------------------------------------
Init ==
    /\ ouvert = FALSE
    /\ flux \in Flux /\ lus = 0 /\ tampon = <<>>
    /\ pc = "libre" /\ reste = 0 /\ regarde = FALSE /\ code = "aucun"
    /\ envoi = [declaree |-> 0, reste |-> 0]
    /\ rendues = <<>> /\ passe = 0 /\ demande = 0 /\ attendus = 0

\* aml_connect and aml_disconnect both reset the parser.  A link that fails to
\* open, for whatever reason, leaves the connection closed.
Connecter ==
    /\ pc = "libre" /\ ~ouvert
    /\ ouvert' \in BOOLEAN
    /\ flux' \in Flux
    /\ ParserInit
    /\ UNCHANGED <<pc, lus, reste, regarde, code, rendues, passe, demande, emission>>

\* An error on the socket, or a client that stops: the link is given up.  What
\* was noted of it is over.
Deconnecter ==
    /\ ouvert /\ pc \in {"libre", "perdue"}
    /\ ouvert' = FALSE /\ pc' = "libre"
    /\ ParserInit
    /\ lus' = 0 /\ rendues' = <<>> /\ code' = "aucun"
    /\ reste' = 0 /\ regarde' = FALSE /\ passe' = 0 /\ demande' = 0
    /\ envoi' = [declaree |-> 0, reste |-> 0] /\ attendus' = 0
    /\ UNCHANGED flux

-----------------------------------------------------------------------------
(* aml_receive.                                                            *)

Recevoir ==
    /\ pc = "libre" /\ ouvert
    /\ \E d \in Delais : demande' = d /\ reste' = d
    /\ passe' = 0 /\ regarde' = FALSE
    /\ pc' = "cherche"
    /\ UNCHANGED <<ouvert, flux, lus, tampon, code, rendues, emission>>

\* A frame is already there: it is returned and removed from the buffer.
Extraire ==
    /\ pc = "cherche"
    /\ LET i == Debut(tampon)
       IN  /\ i <= Len(tampon) /\ Complete(tampon, i)
           /\ LET f == i + Longueur(tampon, i) - 1
              IN  /\ rendues' = Append(rendues,
                                       [debut |-> lus - Len(tampon) + i,
                                        octets |-> SubSeq(tampon, i, f)])
                  /\ tampon' = SubSeq(tampon, f + 1, Len(tampon))
    /\ code' = "ok" /\ pc' = "libre"
    /\ UNCHANGED <<ouvert, flux, lus, reste, regarde, passe, demande, emission>>

\* No frame yet: stop if the time is over and the socket has been looked at.
Attendre ==
    /\ pc = "cherche"
    /\ ~(Debut(tampon) <= Len(tampon) /\ Complete(tampon, Debut(tampon)))
    /\ tampon' = SubSeq(tampon, Debut(tampon), Len(tampon))
    /\ IF reste = 0 /\ regarde THEN pc' = "libre" /\ code' = "timeout"
                               ELSE pc' = "poll" /\ UNCHANGED code
    /\ UNCHANGED <<ouvert, flux, lus, reste, regarde, rendues, passe, demande, emission>>

Temps ==
    /\ pc = "poll" /\ reste > 0
    /\ reste' = reste - 1 /\ passe' = passe + 1
    /\ UNCHANGED <<ouvert, flux, pc, lus, tampon, regarde, code, rendues, demande, emission>>

\* poll ends without a byte: the time is over, or a signal interrupted it.
PollRien ==
    /\ pc = "poll"
    /\ regarde' = TRUE
    /\ pc' = "cherche"
    /\ UNCHANGED <<ouvert, flux, lus, tampon, reste, code, rendues, passe, demande, emission>>

\* Mutant: each read starts the delay again.
LireRelance ==
    /\ pc = "poll"
    /\ \E k \in 1..ChunkMax :
          /\ lus + k <= Len(flux.octets)
          /\ lus' = lus + k
          /\ tampon' = tampon \o SubSeq(flux.octets, lus + 1, lus + k)
    /\ regarde' = TRUE /\ pc' = "cherche" /\ reste' = demande
    /\ UNCHANGED <<ouvert, flux, code, rendues, passe, demande, emission>>

\* recv, then protocol_parser_feed, which refuses what does not fit.
Lire ==
    /\ pc = "poll"
    /\ \E k \in 1..ChunkMax :
          /\ lus + k <= Len(flux.octets)
          /\ lus' = lus + k
          /\ IF k > BufferMax - Len(tampon)
             THEN tampon' = <<>> /\ pc' = "libre" /\ code' = "protocole"
             ELSE /\ tampon' = tampon \o SubSeq(flux.octets, lus + 1, lus + k)
                  /\ pc' = "cherche" /\ UNCHANGED code
    /\ regarde' = TRUE
    /\ UNCHANGED <<ouvert, flux, reste, rendues, passe, demande, emission>>

\* The device has closed the link, or the socket is in error.
Perdre ==
    /\ pc = "poll"
    /\ code' = "disconnected" /\ pc' = "perdue"
    /\ regarde' = TRUE
    /\ UNCHANGED <<ouvert, flux, lus, tampon, reste, rendues, passe, demande, emission>>

-----------------------------------------------------------------------------
(* protocol_build_request and aml_send.                                    *)

\* Mutant: the size of the buffer is not looked at.
ConstructibleSansCapacite(n) == n + 3 <= 255 /\ n + 4 <= 253

\* The arguments are refused when a length byte or the buffer is too small.
Constructible(n) == n + 3 <= 255 /\ n + 4 <= 253 /\ n + 12 <= CapaciteRequete

Envoyer ==
    /\ pc = "libre" /\ ouvert
    /\ \E n \in Arguments :
          /\ Constructible(n)
          /\ envoi' = [declaree |-> (n + 12 - 4) % 256, reste |-> n + 12]
    /\ pc' = "envoi"
    /\ UNCHANGED <<ouvert, flux, reception, attendus>>

\* send takes all the bytes or some of them (bound: half), the rest follows.
\* At the start of a request the device learns its length.
EnvoyerPartie ==
    /\ pc = "envoi"
    /\ \E k \in {envoi.reste, envoi.reste \div 2} \ {0} :
          /\ attendus' = (IF attendus = 0 THEN envoi.declaree + 4 ELSE attendus) - k
          /\ envoi' = [envoi EXCEPT !.reste = @ - k]
          /\ pc' = IF k = envoi.reste THEN "libre" ELSE "envoi"
    /\ UNCHANGED <<ouvert, flux, reception>>

EnvoyerEchoue ==
    /\ pc = "envoi"
    /\ pc' = "perdue"
    /\ UNCHANGED <<ouvert, flux, reception, emission>>

Next ==
    \/ Connecter \/ Deconnecter
    \/ Recevoir \/ Extraire \/ Attendre \/ Temps \/ PollRien \/ Lire \/ Perdre
    \/ Envoyer \/ EnvoyerPartie \/ EnvoyerEchoue

Spec == Init /\ [][Next]_vars

-----------------------------------------------------------------------------
(* What reading is for: the frames of a list of bytes.                     *)

\* What is known of a frame that starts s does not contradict its format.
LongueurDite(s) == IF Len(s) > 3 THEN s[4] + 4 ELSE FrameMax
Vu(s, k, valeurs) == Len(s) >= k => s[k] \in valeurs
FinJuste(s, l) == s[l - 2] = 85 /\ s[l - 1] = 13 /\ s[l] = 10

Possible(s) ==
    /\ Vu(s, 1, {254}) /\ Vu(s, 2, {239}) /\ Vu(s, 3, {10, 12}) /\ Vu(s, 5, {171})
    /\ Vu(s, 6, {Sens(s[3])})
    /\ LongueurDite(s) \in FrameMin..FrameMax
    /\ Len(s) >= LongueurDite(s) => FinJuste(s, LongueurDite(s))

\* Its length is known, and it is all there.
Entiere(s) == Len(s) > 3 /\ Len(s) >= s[4] + 4

\* The frames of s: the first possible one, the first one after it, and so on;
\* an incomplete one is waited for.
TramesDe[s \in Seq(Octet)] ==
    IF s = <<>> THEN <<>>
    ELSE IF ~Possible(s) THEN TramesDe[Tail(s)]
    ELSE IF ~Entiere(s) THEN <<>>
    ELSE <<SubSeq(s, 1, s[4] + 4)>> \o TramesDe[SubSeq(s, s[4] + 5, Len(s))]

\* The true frames of the device are frames.
ASSUME TramesAssumption ==
    \A f \in Flux : \A t \in f.trames :
        /\ t[1] >= 1 /\ t[2] \in t[1]..Len(f.octets)
        /\ LET s == SubSeq(f.octets, t[1], t[2])
           IN  Possible(s) /\ Entiere(s) /\ Len(s) = s[4] + 4

-----------------------------------------------------------------------------
(* Properties.                                                             *)

\* The variables have their types.  An incomplete frame leaves room for a read:
\* protocol_parser_feed never refuses bytes and the parser is never reset in
\* the middle of a link, which would lose the frames waiting in it.
TypeOK ==
    /\ ouvert \in BOOLEAN /\ flux \in Flux
    /\ lus \in 0..Len(flux.octets)
    /\ tampon \in Seq(Octet) /\ Len(tampon) <= BufferMax
    /\ pc \in {"libre", "cherche", "poll", "envoi", "perdue"}
    /\ reste \in Nat /\ passe \in Nat /\ demande \in Nat /\ regarde \in BOOLEAN
    /\ code \in {"aucun", "ok", "timeout", "disconnected"}
    /\ envoi \in [declaree : Octet, reste : Nat] /\ attendus \in Int

\* However the bytes of a link are cut into reads, and whatever is waiting from
\* an older link, the frames returned and those still in the buffer are the
\* frames of the bytes read on this link, in order.
ChunksDoNotMatter ==
    ouvert => [i \in DOMAIN rendues |-> rendues[i].octets] \o TramesDe[tampon]
                = TramesDe[SubSeq(flux.octets, 1, lus)]

\* Noise before a true frame never costs it: FrameMax bytes after its start it
\* has been returned, unless a well-formed frame that starts before covers it.
NoiseCostsNoFrame ==
    ouvert /\ pc = "poll" =>
        \A t \in flux.trames :
            lus >= t[1] + FrameMax - 1 =>
                \E i \in DOMAIN rendues :
                    LET d == rendues[i].debut
                    IN  /\ d <= t[1] /\ t[1] < d + Len(rendues[i].octets)
                        /\ d = t[1] => Len(rendues[i].octets) = t[2] - t[1] + 1

\* aml_receive never stays longer than its timeout, however the bytes come, and
\* reports a timeout only when it is over and no frame is left in its buffer.
TimeoutIsTrue ==
    /\ passe <= demande
    /\ pc = "libre" /\ code = "timeout" => passe = demande /\ TramesDe[tampon] = <<>>

\* The device never sees half a request followed by another one, nor a request
\* whose length byte is wrong: as long as the link is used, it waits for what
\* remains to be sent, and for nothing between two requests.
RequestsLeaveWhole ==
    ouvert =>
        CASE pc = "envoi"  -> attendus \in {0, envoi.reste}
          [] pc = "perdue" -> TRUE
          [] OTHER         -> attendus = 0
=============================================================================
