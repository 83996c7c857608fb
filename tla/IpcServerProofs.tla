-------------------------- MODULE IpcServerProofs ---------------------------
(***************************************************************************)
(* Proofs about IpcServer, for any clients, any lines and any sizes that   *)
(* IpcAssumption allows: the table of clients stays sound, no complete     *)
(* line sleeps in a buffer, a client is closed for a cause of its own, the *)
(* server keeps what Dialogue promises to each client, and therefore what  *)
(* a client reads is whole messages, its answers 1, 2, 3... and its events *)
(* without a gap.                                                          *)
(***************************************************************************)
EXTENDS IpcServer, Recurrence, SequenceTheorems, FiniteSetTheorems

\* The elements of a client's flow, the pieces of the server's answers, the places.
Element == (Ordres \union {"octet"}) \X Nat
Piece   == [pour : SUBSET Clients, n : Nat] \X {"texte", "fin"}
Place   == [fd : Clients \union {Aucun}, subscribed : BOOLEAN, input : Seq(Element),
            output : Seq(Piece), output_offset : Nat]

PlaceOK(cl) ==
    /\ cl \in Place
    /\ cl.fd = Aucun => cl = Vide
    /\ Len(cl.input) <= MessageMax
    /\ Len(cl.output) <= PendingMax
    /\ IF cl.output = <<>> THEN cl.output_offset = 0
                           ELSE cl.output_offset < Len(cl.output)

\* Two places never hold the same connection; the open ones are those that hold one.
Distinctes(f) ==
    \A s, t \in Places : s # t /\ f[s].fd # Aucun => f[s].fd # f[t].fd
Ouvertes(e) == {c \in Clients : e[c] = "ouvert"}

TypeInv ==
    /\ etat \in [Clients -> {"absent", "file", "ouvert", "clos"}]
    /\ fermee \in [Clients -> BOOLEAN] /\ parti \in [Clients -> BOOLEAN]
    /\ lignes \in [Clients -> Seq(Ordres)]
    /\ \A c \in Clients : Len(lignes[c]) <= LignesMax
    /\ transit \in [Clients -> Seq(Element)] /\ recu \in [Clients -> Seq(Piece)]
    /\ clients \in [Places -> Place] /\ \A s \in Places : PlaceOK(clients[s])
    /\ Distinctes(clients) /\ Fds(clients) = Ouvertes(etat)
    /\ pc \in {"tick", "traiter", "poll", "accepter", "servir", "arrete"}
    /\ a_servir \subseteq Places /\ running \in BOOLEAN /\ evenements \in 0..EvtsMax

\* What a client has sent and the server has not answered: the lines that follow
\* the `rep' first ones, whole, each once and in order.
EnOrdre(e, rep, l) ==
    /\ rep \in 0..Len(l)
    /\ \A i \in DOMAIN e : EstFin(e[i]) => /\ e[i][2] \in (rep + 1)..Len(l)
                                           /\ e[i][1] = l[e[i][2]]
    /\ \A i, j \in DOMAIN e : EstFin(e[i]) /\ EstFin(e[j]) /\ i < j => e[i][2] < e[j][2]
    /\ \A n \in (rep + 1)..Len(l) : \E i \in DOMAIN e : EstFin(e[i]) /\ e[i][2] = n

FluxDe(s) == recu[clients[s].fd] \o Reste(clients[s])
NbRep(f)  == Cardinality(Promesse!Fins(f))

OrdreInv ==
    /\ \A s \in Places : ~Libre(s) =>
          EnOrdre(clients[s].input \o transit[clients[s].fd], NbRep(FluxDe(s)),
                  lignes[clients[s].fd])
    /\ \A c \in Clients : etat[c] \in {"absent", "file"} =>
          recu[c] = <<>> /\ EnOrdre(transit[c], 0, lignes[c])

\* A place that poll has signalled is taken; if it is to be read there is something
\* to read, and its buffer holds no line.
ServirInv ==
    pc \in {"accepter", "servir"} => \A s \in a_servir :
        /\ ~Libre(s)
        /\ clients[s].output = <<>> => /\ Lisible(clients[s].fd)
                                       /\ ~ContientFin(clients[s].input)

IInv == TypeInv /\ OrdreInv /\ NoLineForgotten /\ ServirInv

-----------------------------------------------------------------------------
(* The flows of bytes                                                      *)

LEMMA Ends ==
    /\ Octet \in Element /\ ~EstFin(Octet)
    /\ \A o \in Ordres, n \in Nat : <<o, n>> \in Element /\ EstFin(<<o, n>>)
BY IpcAssumption DEF Octet, Element, EstFin

\* A line: bytes, then its only end.
LEMMA UneLigne ==
    ASSUME NEW longueur \in Nat, NEW o \in Ordres, NEW id \in Nat
    PROVE  /\ Ligne(longueur, o, id) \in Seq(Element)
           /\ Len(Ligne(longueur, o, id)) = longueur + 1
           /\ \A i \in 1..longueur : Ligne(longueur, o, id)[i] = Octet
           /\ Ligne(longueur, o, id)[longueur + 1] = <<o, id>>
<1> DEFINE debut == [i \in 1..longueur |-> Octet]
<1>1. debut \in Seq(Element) /\ Len(debut) = longueur
    BY Ends
<1>2. \A i \in 1..longueur : debut[i] = Octet
    OBVIOUS
<1>3. <<o, id>> \in Element
    BY Ends
<1>4. Ligne(longueur, o, id) = Append(debut, <<o, id>>)
    BY DEF Ligne
<1> HIDE DEF debut
<1> QED
    BY <1>1, <1>2, <1>3, <1>4, AppendProperties

\* The first line of a buffer.
LEMMA PremiereFinTrouvee ==
    ASSUME NEW s \in Seq(Element), ContientFin(s)
    PROVE  /\ PremiereFin(s) \in 1..Len(s)
           /\ EstFin(s[PremiereFin(s)])
           /\ \A j \in 1..(PremiereFin(s) - 1) : ~EstFin(s[j])
<1> DEFINE fins == {i \in 1..Len(s) : EstFin(s[i])}
<1>1. DOMAIN s = 1..Len(s) /\ Len(s) \in Nat
    BY LenProperties
<1>2. fins \in SUBSET Nat /\ fins # {}
    BY <1>1 DEF ContientFin
<1>3. PICK x \in fins : \A y \in fins : x <= y
  <2> HIDE DEF fins
  <2> QED
      BY <1>2, PlusPetit
<1>4. \A j \in 1..(x - 1) : ~EstFin(s[j])
  <2> SUFFICES ASSUME NEW j \in 1..(x - 1), EstFin(s[j])
               PROVE  FALSE
      OBVIOUS
  <2>1. x \in 1..Len(s)
      BY <1>3
  <2>2. j \in 1..Len(s) /\ ~(x <= j)
      BY <1>1, <2>1
  <2>3. j \in fins
      BY <2>2
  <2> QED
      BY <1>3, <2>2, <2>3
<1>5. \E i \in DOMAIN s : EstFin(s[i]) /\ \A j \in 1..(i - 1) : ~EstFin(s[j])
    BY <1>1, <1>3, <1>4
<1> QED
    BY <1>1, <1>5 DEF PremiereFin

LEMMA RienEnAttente == EnOrdre(<<>>, 0, <<>>)
BY EmptySeq DEF EnOrdre

\* A client writes one more line.
LEMMA OrdreEcrit ==
    ASSUME NEW e \in Seq(Element), NEW l \in Seq(Ordres), NEW rep, EnOrdre(e, rep, l),
           NEW longueur \in Nat, NEW o \in Ordres
    PROVE  EnOrdre(e \o Ligne(longueur, o, Len(l) + 1), rep, Append(l, o))
<1> DEFINE li == Ligne(longueur, o, Len(l) + 1)
           f  == e \o li
           m  == Append(l, o)
           k  == Len(e) + longueur + 1
<1>1. /\ Len(e) \in Nat /\ Len(l) \in Nat /\ DOMAIN e = 1..Len(e) /\ rep \in 0..Len(l)
      /\ k \in Nat /\ k \in 1..k /\ Len(l) + 1 \in Nat
    BY LenProperties DEF EnOrdre
<1>2. /\ li \in Seq(Element) /\ Len(li) = longueur + 1
      /\ \A i \in 1..longueur : li[i] = Octet
      /\ li[longueur + 1] = <<o, Len(l) + 1>>
  <2> HIDE DEF k, f, m
  <2>1. Len(l) + 1 \in Nat
      BY <1>1
  <2> QED
      BY <2>1, UneLigne
<1>3. /\ m \in Seq(Ordres) /\ Len(m) = Len(l) + 1 /\ m[Len(l) + 1] = o
      /\ \A i \in 1..Len(l) : m[i] = l[i]
    BY AppendProperties
<1>4. /\ f \in Seq(Element) /\ Len(f) = k
      /\ \A i \in 1..k : f[i] = IF i <= Len(e) THEN e[i] ELSE li[i - Len(e)]
  <2> HIDE DEF li
  <2>1. Len(e) + Len(li) = k
      BY <1>1, <1>2
  <2> HIDE DEF k
  <2> QED
      BY <1>2, <2>1, ConcatProperties
<1>5. DOMAIN f = 1..k
  <2> HIDE DEF f
  <2> QED
      BY <1>4, LenProperties
<1>6. \A i \in 1..Len(e) : f[i] = e[i]
    BY <1>1, <1>4
<1>7. \A i \in (Len(e) + 1)..(k - 1) : ~EstFin(f[i])
  <2> TAKE i \in (Len(e) + 1)..(k - 1)
  <2>1. i \in 1..k /\ ~(i <= Len(e)) /\ i - Len(e) \in 1..longueur
      BY <1>1
  <2>2. f[i] = li[i - Len(e)]
      BY <1>4, <2>1
  <2> QED
      BY <1>2, <2>1, <2>2, Ends
<1>8. f[k] = <<o, Len(l) + 1>> /\ EstFin(f[k])
  <2>1. k \in 1..k /\ ~(k <= Len(e)) /\ k - Len(e) = longueur + 1
      BY <1>1
  <2>2. f[k] = li[longueur + 1]
      BY <1>4, <2>1
  <2>3. f[k] = <<o, Len(l) + 1>>
      BY <1>1, <1>2, <2>2
  <2>4. EstFin(<<o, Len(l) + 1>>)
      BY <1>1, Ends
  <2> QED
      BY <2>3, <2>4
<1> HIDE DEF f, m, li
<1>9. \A i \in 1..k : EstFin(f[i]) => i \in 1..Len(e) \/ i = k
    BY <1>1, <1>7
<1>10. \A i \in 1..Len(e) : EstFin(e[i]) => /\ e[i][2] \in (rep + 1)..Len(l)
                                            /\ e[i][1] = l[e[i][2]]
    BY <1>1 DEF EnOrdre
<1>11. f[k][1] = o /\ f[k][2] = Len(l) + 1
    BY <1>8
<1>12. rep \in 0..Len(m)
    BY <1>1, <1>3
<1>13. ASSUME NEW i \in 1..k, EstFin(f[i])
       PROVE  f[i][2] \in (rep + 1)..Len(m) /\ f[i][1] = m[f[i][2]]
  <2>1. CASE i = k
      BY <1>1, <1>3, <1>11, <2>1
  <2>2. CASE i \in 1..Len(e)
    <3>1. f[i] = e[i] /\ e[i][2] \in (rep + 1)..Len(l) /\ e[i][1] = l[e[i][2]]
        BY <1>6, <1>10, <1>13, <2>2
    <3>2. e[i][2] \in 1..Len(l) /\ e[i][2] \in (rep + 1)..Len(m)
        BY <1>1, <1>3, <3>1
    <3> QED
        BY <1>3, <3>1, <3>2
  <2> QED
      BY <1>9, <1>13, <2>1, <2>2
<1>14. ASSUME NEW i \in 1..k, NEW j \in 1..k, EstFin(f[i]), EstFin(f[j]), i < j
       PROVE  f[i][2] < f[j][2]
  <2>1. i \in 1..Len(e)
      BY <1>1, <1>9, <1>14
  <2>2. f[i] = e[i] /\ e[i][2] \in (rep + 1)..Len(l)
      BY <1>6, <1>10, <1>14, <2>1
  <2>3. CASE j = k
      BY <1>1, <1>11, <2>2, <2>3
  <2>4. CASE j \in 1..Len(e)
    <3>1. f[j] = e[j]
        BY <1>6, <2>4
    <3> QED
        BY <1>1, <1>14, <2>1, <2>2, <2>4, <3>1 DEF EnOrdre
  <2> QED
      BY <1>9, <1>14, <2>3, <2>4
<1>15. ASSUME NEW n \in (rep + 1)..Len(m)
       PROVE  \E i \in 1..k : EstFin(f[i]) /\ f[i][2] = n
  <2>1. CASE n = Len(l) + 1
    <3>1. EstFin(f[k]) /\ f[k][2] = n
        BY <1>8, <1>11, <2>1
    <3> QED
        BY <1>1, <3>1
  <2>2. CASE n # Len(l) + 1
    <3>1. n \in (rep + 1)..Len(l)
        BY <1>1, <1>3, <2>2
    <3>2. PICK i \in 1..Len(e) : EstFin(e[i]) /\ e[i][2] = n
        BY <1>1, <3>1 DEF EnOrdre
    <3>3. i \in 1..k /\ f[i] = e[i]
        BY <1>1, <1>6, <3>2
    <3> QED
        BY <3>2, <3>3
  <2> QED
      BY <2>1, <2>2
<1>16. EnOrdre(f, rep, m)
    BY <1>5, <1>12, <1>13, <1>14, <1>15 DEF EnOrdre
<1> QED
    BY <1>16 DEF f, m, li

\* The server takes the first line of a buffer: it is the next one to answer.
LEMMA OrdreTraite ==
    ASSUME NEW b \in Seq(Element), NEW t \in Seq(Element), NEW l \in Seq(Ordres),
           NEW rep, EnOrdre(b \o t, rep, l), ContientFin(b)
    PROVE  /\ rep < Len(l)
           /\ b[PremiereFin(b)][1] = l[rep + 1] /\ b[PremiereFin(b)][2] = rep + 1
           /\ EnOrdre(SubSeq(b, PremiereFin(b) + 1, Len(b)) \o t, rep + 1, l)
<1> DEFINE e == b \o t
           i == PremiereFin(b)
           u == SubSeq(b, i + 1, Len(b))
           f == u \o t
<1>1. i \in 1..Len(b) /\ EstFin(b[i]) /\ \A j \in 1..(i - 1) : ~EstFin(b[j])
    BY PremiereFinTrouvee
<1>2. Len(b) \in Nat /\ Len(t) \in Nat /\ Len(l) \in Nat /\ rep \in 0..Len(l)
    BY LenProperties DEF EnOrdre
<1>3. /\ e \in Seq(Element) /\ Len(e) = Len(b) + Len(t)
      /\ \A j \in 1..(Len(b) + Len(t)) : e[j] = IF j <= Len(b) THEN b[j] ELSE t[j - Len(b)]
    BY ConcatProperties
<1>4. DOMAIN e = 1..(Len(b) + Len(t))
  <2> HIDE DEF e
  <2> QED
      BY <1>3, LenProperties
<1>5. i \in DOMAIN e /\ e[i] = b[i] /\ \A j \in 1..(i - 1) : j \in DOMAIN e /\ e[j] = b[j]
    BY <1>1, <1>2, <1>3, <1>4
<1>6. /\ u \in Seq(Element) /\ Len(u) = Len(b) - i
      /\ \A j \in 1..(Len(b) - i) : u[j] = b[j + i]
  <2>1. i + 1 \in Int /\ Len(b) \in Int /\ \A j \in (i + 1)..Len(b) : b[j] \in Element
      BY <1>1, <1>2, ElementOfSeq
  <2> DEFINE v == i + 1
  <2>2. /\ SubSeq(b, v, Len(b)) \in Seq(Element)
        /\ Len(SubSeq(b, v, Len(b))) = IF v <= Len(b) THEN Len(b) - v + 1 ELSE 0
        /\ \A j \in 1..(Len(b) - v + 1) : SubSeq(b, v, Len(b))[j] = b[v + j - 1]
    <3> HIDE DEF v, i
    <3> QED
        BY <2>1, SubSeqProperties DEF v
  <2>3. \A j \in 1..(Len(b) - i) : j \in 1..(Len(b) - v + 1) /\ v + j - 1 = j + i
      BY <1>1, <1>2
  <2> QED
      BY <1>1, <1>2, <2>2, <2>3
<1>7. /\ f \in Seq(Element) /\ Len(f) = Len(u) + Len(t)
      /\ \A j \in 1..(Len(u) + Len(t)) : f[j] = IF j <= Len(u) THEN u[j] ELSE t[j - Len(u)]
  <2> HIDE DEF u
  <2> QED
      BY <1>6, ConcatProperties
<1>8. DOMAIN f = 1..Len(f)
  <2> HIDE DEF f
  <2> QED
      BY <1>7, LenProperties
<1> HIDE DEF i, u, f, e
<1>9. \A j \in DOMAIN f : j + i \in DOMAIN e /\ f[j] = e[j + i]
  <2> TAKE j \in DOMAIN f
  <2>1. j \in 1..(Len(b) - i + Len(t)) /\ j + i \in 1..(Len(b) + Len(t))
      BY <1>1, <1>2, <1>6, <1>7, <1>8
  <2>2. CASE j <= Len(b) - i
    <3>0. /\ j \in 1..(Len(b) - i) /\ j <= Len(u)
          /\ j \in 1..(Len(u) + Len(t))
        BY <1>1, <1>2, <1>6, <2>1, <2>2
    <3>1. f[j] = u[j] /\ u[j] = b[j + i]
        BY <1>6, <1>7, <3>0
    <3>2. j + i <= Len(b) /\ e[j + i] = b[j + i]
        BY <1>1, <1>2, <1>3, <2>1, <2>2
    <3> QED
        BY <1>4, <2>1, <3>1, <3>2
  <2>3. CASE ~(j <= Len(b) - i)
    <3>1. f[j] = t[j - (Len(b) - i)]
        BY <1>1, <1>2, <1>6, <1>7, <2>1, <2>3
    <3>2. ~(j + i <= Len(b)) /\ e[j + i] = t[j + i - Len(b)]
        BY <1>1, <1>2, <1>3, <2>1, <2>3
    <3>3. j + i - Len(b) = j - (Len(b) - i)
        BY <1>1, <1>2, <2>1
    <3> QED
        BY <1>4, <2>1, <3>1, <3>2, <3>3
  <2> QED
      BY <2>2, <2>3
<1>10. \A j \in DOMAIN e : j > i => j - i \in DOMAIN f /\ f[j - i] = e[j]
  <2> TAKE j \in DOMAIN e
  <2> HAVE j > i
  <2>1. j - i \in DOMAIN f /\ (j - i) + i = j
      BY <1>1, <1>2, <1>4, <1>6, <1>7, <1>8
  <2> QED
      BY <1>9, <2>1
<1>11. /\ \A j \in DOMAIN e : EstFin(e[j]) => /\ e[j][2] \in (rep + 1)..Len(l)
                                              /\ e[j][1] = l[e[j][2]]
       /\ \A j, k \in DOMAIN e : EstFin(e[j]) /\ EstFin(e[k]) /\ j < k => e[j][2] < e[k][2]
       /\ \A n \in (rep + 1)..Len(l) : \E j \in DOMAIN e : EstFin(e[j]) /\ e[j][2] = n
    BY DEF EnOrdre, e
<1>12. EstFin(e[i]) /\ e[i][2] \in (rep + 1)..Len(l) /\ e[i][1] = l[e[i][2]]
    BY <1>1, <1>5, <1>11
<1>13. rep < Len(l) /\ rep + 1 \in (rep + 1)..Len(l)
    BY <1>2, <1>12
<1>14. PICK j \in DOMAIN e : EstFin(e[j]) /\ e[j][2] = rep + 1
    BY <1>11, <1>13
<1>15. ~(j < i)
  <2> SUFFICES ASSUME j < i
               PROVE  FALSE
      OBVIOUS
  <2>1. j \in 1..(i - 1)
      BY <1>1, <1>2, <1>4
  <2> QED
      BY <1>1, <1>5, <1>14, <2>1
<1>16. i \in Nat /\ j \in Nat
    BY <1>1, <1>2, <1>4
<1>17. e[i][2] = rep + 1
  <2>1. CASE i = j
      BY <1>14, <2>1
  <2>2. CASE i < j
    <3>1. e[i][2] < e[j][2]
        BY <1>5, <1>11, <1>12, <1>14, <2>2
    <3> QED
        BY <1>2, <1>12, <1>14, <3>1
  <2> QED
      BY <1>15, <1>16, <2>1, <2>2
<1>18. e[i][1] = l[rep + 1]
    BY <1>12, <1>17
<1>19. rep + 1 \in 0..Len(l)
    BY <1>2, <1>13
<1>20. ASSUME NEW k \in DOMAIN f, EstFin(f[k])
       PROVE  f[k][2] \in (rep + 1 + 1)..Len(l) /\ f[k][1] = l[f[k][2]]
  <2>1. k + i \in DOMAIN e /\ f[k] = e[k + i] /\ i < k + i
    <3>1. k \in Nat /\ k >= 1
        BY <1>2, <1>6, <1>7, <1>8, <1>1
    <3> QED
        BY <1>9, <1>16, <3>1
  <2>2. e[i][2] < e[k + i][2]
      BY <1>5, <1>11, <1>12, <1>20, <2>1
  <2>3. e[k + i][2] \in (rep + 1)..Len(l) /\ e[k + i][1] = l[e[k + i][2]]
      BY <1>11, <1>20, <2>1
  <2>4. e[k + i][2] \in (rep + 1 + 1)..Len(l)
      BY <1>2, <1>17, <2>2, <2>3
  <2> QED
      BY <2>1, <2>3, <2>4
<1>21. ASSUME NEW k \in DOMAIN f, NEW m \in DOMAIN f, EstFin(f[k]), EstFin(f[m]), k < m
       PROVE  f[k][2] < f[m][2]
  <2>1. k + i \in DOMAIN e /\ m + i \in DOMAIN e /\ f[k] = e[k + i] /\ f[m] = e[m + i]
      BY <1>9
  <2>2. k + i < m + i
      BY <1>1, <1>2, <1>6, <1>7, <1>8, <1>16, <1>21
  <2> QED
      BY <1>11, <1>21, <2>1, <2>2
<1>22. ASSUME NEW n \in (rep + 1 + 1)..Len(l)
       PROVE  \E k \in DOMAIN f : EstFin(f[k]) /\ f[k][2] = n
  <2>1. n \in (rep + 1)..Len(l) /\ rep + 1 < n
      BY <1>2
  <2>2. PICK k \in DOMAIN e : EstFin(e[k]) /\ e[k][2] = n
      BY <1>11, <2>1
  <2>3. k \in Nat
      BY <1>2, <1>4
  <2>4. ~(k = i)
      BY <1>2, <1>17, <2>1, <2>2
  <2>5. ~(k < i)
    <3> SUFFICES ASSUME k < i
                 PROVE  FALSE
        OBVIOUS
    <3>1. k \in 1..(i - 1)
        BY <1>1, <1>2, <1>4
    <3> QED
        BY <1>1, <1>5, <2>2, <3>1
  <2>6. k - i \in DOMAIN f /\ f[k - i] = e[k]
      BY <1>10, <1>16, <2>3, <2>4, <2>5
  <2> QED
      BY <2>2, <2>6
<1>23. EnOrdre(f, rep + 1, l)
    BY <1>19, <1>20, <1>21, <1>22 DEF EnOrdre
<1>24. e[i] = b[i]
    BY <1>5
<1> QED
    BY <1>13, <1>17, <1>18, <1>23, <1>24 DEF f, u, i

\* A client without any line left to answer.
LEMMA ToutRepondu ==
    ASSUME NEW b \in Seq(Element), NEW l \in Seq(Ordres), NEW rep, EnOrdre(b, rep, l),
           ~ContientFin(b)
    PROVE  rep = Len(l)
<1>1. Len(l) \in Nat /\ rep \in 0..Len(l)
    BY LenProperties DEF EnOrdre
<1>2. Len(l) \notin (rep + 1)..Len(l)
    BY DEF EnOrdre, ContientFin
<1> QED
    BY <1>1, <1>2

\* Bytes pass from the socket to the buffer.
LEMMA MorceauLu ==
    ASSUME NEW b \in Seq(Element), NEW t \in Seq(Element), NEW n \in 0..Len(t)
    PROVE  /\ SubSeq(t, 1, n) \in Seq(Element) /\ Len(SubSeq(t, 1, n)) = n
           /\ SubSeq(t, n + 1, Len(t)) \in Seq(Element)
           /\ (b \o SubSeq(t, 1, n)) \o SubSeq(t, n + 1, Len(t)) = b \o t
<1>1. Len(t) \in Nat /\ 1 \in Int /\ n \in Int /\ n + 1 \in Int /\ Len(t) \in Int
    BY LenProperties
<1>2. \A j \in 1..Len(t) : t[j] \in Element
    BY ElementOfSeq
<1>3. SubSeq(t, 1, n) \in Seq(Element) /\ Len(SubSeq(t, 1, n)) = n
    BY <1>1, <1>2, SubSeqProperties
<1>4. SubSeq(t, n + 1, Len(t)) \in Seq(Element)
  <2> DEFINE m == n + 1
  <2>1. m \in Int /\ \A j \in m..Len(t) : t[j] \in Element
      BY <1>1, <1>2
  <2> HIDE DEF m
  <2>2. SubSeq(t, m, Len(t)) \in Seq(Element)
      BY <1>1, <2>1, SubSeqProperties
  <2> QED
      BY <2>2 DEF m
<1>5. SubSeq(t, 1, n) \o SubSeq(t, n + 1, Len(t)) = SubSeq(t, 1, Len(t))
  <2>1. 1 \in 1..(Len(t) + 1) /\ n \in (1 - 1)..Len(t) /\ Len(t) \in n..Len(t)
      BY <1>1
  <2> QED
      BY <2>1, ConcatAdjacentSubSeq
<1>6. SubSeq(t, 1, Len(t)) = t
    BY SubSeqFull
<1>7. (b \o SubSeq(t, 1, n)) \o SubSeq(t, n + 1, Len(t))
      = b \o (SubSeq(t, 1, n) \o SubSeq(t, n + 1, Len(t)))
  <2> DEFINE x == SubSeq(t, 1, n)
             y == SubSeq(t, n + 1, Len(t))
  <2>1. x \in Seq(Element) /\ y \in Seq(Element)
      BY <1>3, <1>4
  <2> HIDE DEF x, y
  <2>2. (b \o x) \o y = b \o (x \o y)
      BY <2>1, ConcatAssociative
  <2> QED
      BY <2>2 DEF x, y
<1> QED
    BY <1>3, <1>4, <1>5, <1>6, <1>7

-----------------------------------------------------------------------------
(* The messages of the server                                              *)

Entete == [pour : SUBSET Clients, n : Nat]

LEMMA Entetes ==
    /\ \A c \in Clients, n \in Nat : /\ Promesse!Reponse(c, n) \in Entete
                                     /\ Promesse!Reponse(c, n).pour # {}
    /\ \A n \in Nat : /\ Promesse!Evenement(n) \in Entete
                      /\ Promesse!Evenement(n).pour = {}
BY DEF Entete, Promesse!Reponse, Promesse!Evenement

LEMMA DeuxMorceaux ==
    ASSUME NEW m \in Entete
    PROVE  /\ Promesse!Message(m) \in Seq(Piece) /\ Len(Promesse!Message(m)) = 2
           /\ Promesse!Message(m)[1] = <<m, "texte">>
           /\ Promesse!Message(m)[2] = <<m, "fin">>
<1>1. <<m, "texte">> \in Piece /\ <<m, "fin">> \in Piece
    BY DEF Piece, Entete
<1> QED
    BY <1>1 DEF Promesse!Message

\* A message is added to a flow.
LEMMA FluxMessage ==
    ASSUME NEW f \in Seq(Piece), NEW m \in Entete
    PROVE  /\ f \o Promesse!Message(m) \in Seq(Piece)
           /\ Len(f \o Promesse!Message(m)) = Len(f) + 2
           /\ f \o Promesse!Message(m) # <<>>
           /\ NbRep(f) \in Nat
           /\ NbRep(f \o Promesse!Message(m)) = IF m.pour # {} THEN NbRep(f) + 1
                                                               ELSE NbRep(f)
<1> DEFINE g == f \o Promesse!Message(m)
           A == Promesse!Fins(f)
           B == Promesse!Fins(g)
           k == Len(f) + 2
<1>1. Len(f) \in Nat /\ DOMAIN f = 1..Len(f)
    BY LenProperties
<1>2. /\ Promesse!Message(m) \in Seq(Piece) /\ Len(Promesse!Message(m)) = 2
      /\ Promesse!Message(m)[1] = <<m, "texte">>
      /\ Promesse!Message(m)[2] = <<m, "fin">>
    BY DeuxMorceaux
<1>3. /\ g \in Seq(Piece) /\ Len(g) = Len(f) + 2
      /\ \A i \in 1..(Len(f) + 2) :
            g[i] = IF i <= Len(f) THEN f[i] ELSE Promesse!Message(m)[i - Len(f)]
  <2> DEFINE mm == Promesse!Message(m)
  <2>1. mm \in Seq(Piece)
      BY <1>2
  <2>2. Len(mm) = 2
      BY <1>2
  <2> HIDE DEF mm
  <2>3. /\ f \o mm \in Seq(Piece) /\ Len(f \o mm) = Len(f) + Len(mm)
        /\ \A i \in 1..(Len(f) + Len(mm)) :
              (f \o mm)[i] = IF i <= Len(f) THEN f[i] ELSE mm[i - Len(f)]
      BY <2>1, ConcatProperties
  <2>4. /\ f \o mm \in Seq(Piece) /\ Len(f \o mm) = Len(f) + 2
        /\ \A i \in 1..(Len(f) + 2) :
              (f \o mm)[i] = IF i <= Len(f) THEN f[i] ELSE mm[i - Len(f)]
      BY <2>2, <2>3
  <2> QED
      BY <2>4 DEF mm
<1>4. DOMAIN g = 1..k
  <2> HIDE DEF g
  <2> QED
      BY <1>3, LenProperties
<1>5. g # <<>>
  <2> HIDE DEF g
  <2> QED
      BY <1>1, <1>3, EmptySeq
<1>6. \A i \in 1..Len(f) : g[i] = f[i]
    BY <1>1, <1>3
<1>7. g[k - 1] = <<m, "texte">> /\ g[k] = <<m, "fin">>
  <2>1. /\ k - 1 \in 1..(Len(f) + 2) /\ ~(k - 1 <= Len(f)) /\ k - 1 - Len(f) = 1
        /\ k \in 1..(Len(f) + 2) /\ ~(k <= Len(f)) /\ k - Len(f) = 2
      BY <1>1
  <2> QED
      BY <1>2, <1>3, <2>1
<1>8. A \subseteq 1..Len(f) /\ IsFiniteSet(A) /\ Cardinality(A) \in Nat
  <2>1. A \subseteq 1..Len(f)
      BY <1>1 DEF Promesse!Fins
  <2>2. IsFiniteSet(1..Len(f))
      BY <1>1, FS_Interval
  <2> HIDE DEF A
  <2> QED
      BY <2>1, <2>2, FS_Subset, FS_CardinalityType
<1>9. k \notin A
    BY <1>1, <1>8
<1> HIDE DEF g
<1>10. \A i \in DOMAIN g : i \in 1..Len(f) \/ i = k - 1 \/ i = k
    BY <1>1, <1>4
<1>11. \A i \in 1..Len(f) : i \in B <=> i \in A
    BY <1>1, <1>4, <1>6 DEF Promesse!Fins
<1>12. k - 1 \notin B
  <2>1. g[k - 1][2] = "texte"
      BY <1>7
  <2> QED
      BY <2>1 DEF Promesse!Fins
<1>13. k \in B <=> m.pour # {}
  <2>1. g[k][2] = "fin" /\ g[k][1] = m /\ k \in DOMAIN g
      BY <1>1, <1>4, <1>7
  <2> QED
      BY <2>1 DEF Promesse!Fins
<1>14. B \subseteq DOMAIN g
    BY DEF Promesse!Fins
<1> HIDE DEF A, B
<1>15. /\ m.pour # {} => B = A \union {k}
       /\ m.pour = {} => B = A
  <2>1. \A i \in B : i \in A \/ i = k
      BY <1>10, <1>11, <1>12, <1>14
  <2>2. \A i \in A : i \in B
      BY <1>8, <1>11
  <2> QED
      BY <1>13, <2>1, <2>2
<1>16. Cardinality(A \union {k}) = Cardinality(A) + 1
    BY <1>8, <1>9, FS_AddElement
<1> QED
    BY <1>3, <1>5, <1>8, <1>15, <1>16 DEF NbRep, A, B, g

LEMMA AucuneReponse == NbRep(<<>>) = 0
<1>1. Promesse!Fins(<<>>) = {}
    BY DEF Promesse!Fins
<1> QED
    BY <1>1, FS_EmptySet DEF NbRep

-----------------------------------------------------------------------------
(* One place of the table                                                  *)

LEMMA VideOK == PlaceOK(Vide) /\ Vide.fd = Aucun /\ Vide.input = <<>> /\ Vide.output = <<>>
BY EmptySeq, IpcAssumption DEF PlaceOK, Vide, Place

\* What a place is going to send.
LEMMA ResteOK ==
    ASSUME NEW cl \in Place, PlaceOK(cl)
    PROVE  /\ Reste(cl) \in Seq(Piece)
           /\ Len(Reste(cl)) = Len(cl.output) - cl.output_offset
           /\ Len(cl.output) \in Nat /\ cl.output_offset \in 0..Len(cl.output)
           /\ cl.output = <<>> => Reste(cl) = <<>>
           /\ cl.output # <<>> => Len(Reste(cl)) > 0
<1> DEFINE q == cl.output
           k == cl.output_offset
           m == k + 1
<1>1. q \in Seq(Piece) /\ k \in Nat
    BY DEF Place
<1>2. IF q = <<>> THEN k = 0 ELSE k < Len(q)
    BY DEF PlaceOK
<1> HIDE DEF q, k
<1>3. Len(q) \in Nat /\ (q = <<>> => Len(q) = 0)
    BY <1>1, LenProperties, EmptySeq
<1>4. m \in Int /\ Len(q) \in Int /\ \A i \in m..Len(q) : q[i] \in Piece
    BY <1>1, <1>3, ElementOfSeq
<1>5. k \in 0..Len(q) /\ (q # <<>> => m <= Len(q)) /\ (q = <<>> => k = 0)
    BY <1>1, <1>2, <1>3
<1> HIDE DEF m
<1>6. /\ SubSeq(q, m, Len(q)) \in Seq(Piece)
      /\ Len(SubSeq(q, m, Len(q))) = IF m <= Len(q) THEN Len(q) - m + 1 ELSE 0
    BY <1>4, SubSeqProperties
<1>7. Len(SubSeq(q, m, Len(q))) = Len(q) - k
    BY <1>1, <1>3, <1>5, <1>6 DEF m
<1>8. q = <<>> => SubSeq(q, m, Len(q)) = <<>>
  <2> DEFINE u == SubSeq(q, m, Len(q))
  <2>1. u \in Seq(Piece) /\ Len(u) = Len(q) - k
      BY <1>6, <1>7
  <2> HIDE DEF u
  <2>2. Len(q) = 0 /\ k = 0 => Len(u) = 0
      BY <2>1
  <2>3. Len(u) = 0 => u = <<>>
      BY <2>1, EmptySeq
  <2> QED
      BY <1>3, <1>5, <2>2, <2>3 DEF u
<1>9. q # <<>> => Len(q) - k > 0
    BY <1>1, <1>3, <1>5 DEF m
<1>10. Reste(cl) = SubSeq(q, m, Len(q))
    BY DEF Reste, q, m, k
<1> QED
    BY <1>3, <1>5, <1>6, <1>7, <1>8, <1>9, <1>10 DEF q, k

\* client_append: the place is reset, or its flow goes on with the message.
LEMMA AjouterOK ==
    ASSUME NEW cl \in Place, PlaceOK(cl), cl.fd # Aucun, NEW m \in Entete
    PROVE  /\ PlaceOK(Ajouter(cl, m)) /\ Ajouter(cl, m) \in Place
           /\ \/ Ajouter(cl, m) = Vide /\ Len(cl.output) + 2 > PendingMax
              \/ /\ Ajouter(cl, m).fd = cl.fd
                 /\ Ajouter(cl, m).subscribed = cl.subscribed
                 /\ Ajouter(cl, m).input = cl.input
                 /\ Ajouter(cl, m).output # <<>>
                 /\ Reste(Ajouter(cl, m)) = Reste(cl) \o Promesse!Message(m)
           /\ cl.output = <<>> => Ajouter(cl, m).fd = cl.fd
<1> DEFINE q == cl.output
           k == cl.output_offset
           mm == Promesse!Message(m)
           r == q \o mm
           n == [cl EXCEPT !.output = r]
           h == k + 1
<1>1. q \in Seq(Piece) /\ k \in Nat /\ Len(q) \in Nat /\ k \in 0..Len(q)
    BY ResteOK DEF Place
<1>2. mm \in Seq(Piece) /\ Len(mm) = 2
    BY DeuxMorceaux
<1>3. r \in Seq(Piece) /\ Len(r) = Len(q) + 2 /\ r # <<>>
  <2> HIDE DEF q
  <2> QED
      BY <1>1, FluxMessage
<1>4. q = <<>> => Len(q) = 0
    BY EmptySeq
<1>5. CASE Len(q) + 2 > PendingMax
  <2>1. Ajouter(cl, m) = Vide
      BY <1>5 DEF Ajouter
  <2>2. q # <<>>
      BY <1>4, <1>5, IpcAssumption
  <2> QED
      BY <1>5, <2>1, <2>2, VideOK DEF PlaceOK
<1>6. CASE ~(Len(q) + 2 > PendingMax)
  <2>1. Ajouter(cl, m) = n
      BY <1>6 DEF Ajouter
  <2>2. /\ n.fd = cl.fd /\ n.subscribed = cl.subscribed /\ n.input = cl.input
        /\ n.output = r /\ n.output_offset = k
    <3> HIDE DEF r
    <3> QED
        BY DEF Place
  <2>3. n \in Place
    <3> HIDE DEF r
    <3> QED
        BY <1>3 DEF Place
  <2>4. Len(n.output) <= PendingMax /\ n.output_offset < Len(n.output) /\ n.output # <<>>
    <3> HIDE DEF r, q, k
    <3>1. Len(r) <= PendingMax /\ k < Len(r)
        BY <1>1, <1>3, <1>6, IpcAssumption
    <3> QED
        BY <1>3, <2>2, <3>1
  <2>5. PlaceOK(n)
    <3> HIDE DEF n
    <3> QED
        BY <2>2, <2>3, <2>4 DEF PlaceOK
  <2>6. Reste(n) = Reste(cl) \o mm
    <3> HIDE DEF q, k, mm, n
    <3>1. Reste(n) = SubSeq(r, h, Len(r)) /\ Reste(cl) = SubSeq(q, h, Len(q))
        BY <2>2 DEF Reste, q, k
    <3>2. h \in Int /\ h \in 1..(Len(q) + 1)
        BY <1>1
    <3> HIDE DEF h, r
    <3>3. \A i \in h..Len(r) : r[i] \in Piece
        BY <1>1, <1>3, <3>2, ElementOfSeq
    <3>4. \A i \in h..Len(q) : q[i] \in Piece
        BY <1>1, <3>2, ElementOfSeq
    <3>5. Len(r) \in Int /\ Len(q) \in Int
        BY <1>1, <1>3
    <3>6. /\ SubSeq(r, h, Len(r)) \in Seq(Piece)
          /\ Len(SubSeq(r, h, Len(r))) = IF h <= Len(r) THEN Len(r) - h + 1 ELSE 0
          /\ \A i \in 1..(Len(r) - h + 1) : SubSeq(r, h, Len(r))[i] = r[h + i - 1]
        BY <3>2, <3>3, <3>5, SubSeqProperties
    <3>7. /\ SubSeq(q, h, Len(q)) \in Seq(Piece)
          /\ Len(SubSeq(q, h, Len(q))) = IF h <= Len(q) THEN Len(q) - h + 1 ELSE 0
          /\ \A i \in 1..(Len(q) - h + 1) : SubSeq(q, h, Len(q))[i] = q[h + i - 1]
        BY <3>2, <3>4, <3>5, SubSeqProperties
    <3>8. /\ Len(q \o mm) = Len(q) + Len(mm)
          /\ \A i \in 1..(Len(q) + Len(mm)) :
                (q \o mm)[i] = IF i <= Len(q) THEN q[i] ELSE mm[i - Len(q)]
        BY <1>1, <1>2, ConcatProperties
    <3> DEFINE x == SubSeq(r, h, Len(r))
               y == SubSeq(q, h, Len(q))
    <3>9. x \in Seq(Piece) /\ y \in Seq(Piece) /\ Len(x) = Len(y) + 2
          /\ Len(y) = Len(q) - h + 1 /\ Len(y) \in Nat
        BY <1>1, <1>3, <3>2, <3>6, <3>7
    <3>10. \A i \in 1..(Len(y) + 2) : x[i] = r[h + i - 1]
        BY <1>1, <1>3, <3>2, <3>6, <3>9
    <3>11. \A i \in 1..Len(y) : y[i] = q[h + i - 1]
        BY <3>7, <3>9
    <3> HIDE DEF x, y
    <3>12. /\ y \o mm \in Seq(Piece) /\ Len(y \o mm) = Len(y) + 2
           /\ \A i \in 1..(Len(y) + 2) :
                 (y \o mm)[i] = IF i <= Len(y) THEN y[i] ELSE mm[i - Len(y)]
      <4>1. /\ y \o mm \in Seq(Piece) /\ Len(y \o mm) = Len(y) + Len(mm)
            /\ \A i \in 1..(Len(y) + Len(mm)) :
                  (y \o mm)[i] = IF i <= Len(y) THEN y[i] ELSE mm[i - Len(y)]
          BY <1>2, <3>9, ConcatProperties
      <4> QED
          BY <1>2, <4>1
    <3>13. \A i \in 1..(Len(y) + 2) : x[i] = (y \o mm)[i]
      <4> TAKE i \in 1..(Len(y) + 2)
      <4>1. /\ h + i - 1 \in 1..(Len(q) + 2) /\ x[i] = r[h + i - 1]
            /\ h + i - 1 - Len(q) = i - Len(y)
            /\ (h + i - 1 <= Len(q)) <=> (i <= Len(y))
          BY <1>1, <3>2, <3>9, <3>10
      <4>2. r[h + i - 1] = IF h + i - 1 <= Len(q) THEN q[h + i - 1]
                                                  ELSE mm[h + i - 1 - Len(q)]
        <5>1. h + i - 1 \in 1..(Len(q) + Len(mm))
            BY <1>2, <4>1
        <5>2. \A w \in 1..(Len(q) + Len(mm)) :
                 r[w] = IF w <= Len(q) THEN q[w] ELSE mm[w - Len(q)]
            BY <3>8 DEF r
        <5> QED
            BY <3>2, <5>1, <5>2
      <4>3. CASE i <= Len(y)
          BY <3>9, <3>11, <3>12, <4>1, <4>2, <4>3
      <4>4. CASE ~(i <= Len(y))
          BY <3>12, <4>1, <4>2, <4>4
      <4> QED
          BY <4>3, <4>4
    <3>14. x = y \o mm
        BY <3>9, <3>12, <3>13, SeqEqual
    <3> QED
        BY <3>1, <3>14 DEF x, y
  <2> QED
      BY <2>1, <2>2, <2>3, <2>4, <2>5, <2>6
<1> QED
    BY <1>5, <1>6

\* What changes in a place when its buffer does.
LEMMA TamponOK ==
    ASSUME NEW cl \in Place, PlaceOK(cl), cl.fd # Aucun,
           NEW x \in Seq(Element), Len(x) <= MessageMax
    PROVE  LET n == [cl EXCEPT !.input = x]
           IN  /\ n \in Place /\ PlaceOK(n) /\ n.input = x
               /\ n.fd = cl.fd /\ n.subscribed = cl.subscribed
               /\ n.output = cl.output /\ Reste(n) = Reste(cl)
<1> DEFINE n == [cl EXCEPT !.input = x]
<1>1. /\ n \in Place /\ n.input = x
      /\ n.fd = cl.fd /\ n.subscribed = cl.subscribed
      /\ n.output = cl.output /\ n.output_offset = cl.output_offset
    BY DEF Place
<1> HIDE DEF n
<1>2. PlaceOK(n)
    BY <1>1 DEF PlaceOK
<1>3. Reste(n) = Reste(cl)
    BY <1>1 DEF Reste
<1> QED
    BY <1>1, <1>2, <1>3 DEF n

\* process_buffered_message: the first line leaves the buffer and is answered.
LEMMA TraiteOK ==
    ASSUME NEW cl \in Place, PlaceOK(cl), cl.fd # Aucun, ATraiter(cl)
    PROVE  LET i == PremiereFin(cl.input)
           IN  /\ Traite(cl) \in Place /\ PlaceOK(Traite(cl))
               /\ Traite(cl).fd = cl.fd /\ Traite(cl).output # <<>>
               /\ Traite(cl).subscribed = (cl.subscribed \/ cl.input[i][1] = "subscribe")
               /\ Traite(cl).input = SubSeq(cl.input, i + 1, Len(cl.input))
               /\ cl.input[i][2] \in Nat
               /\ Reste(Traite(cl))
                    = Reste(cl) \o Promesse!Message(Promesse!Reponse(cl.fd, cl.input[i][2]))
<1> DEFINE i == PremiereFin(cl.input)
           b == cl.input
           h == i + 1
           suite == SubSeq(b, h, Len(b))
           n == [cl EXCEPT !.input = suite, !.subscribed = @ \/ b[i][1] = "subscribe"]
           m == Promesse!Reponse(cl.fd, b[i][2])
<1>1. b \in Seq(Element) /\ Len(b) \in Nat /\ Len(b) <= MessageMax
    BY LenProperties DEF Place, PlaceOK
<1>2. i \in 1..Len(b) /\ b[i] \in Element
  <2> HIDE DEF b, i
  <2>1. ContientFin(b)
      BY DEF ATraiter, b
  <2>2. PremiereFin(b) \in 1..Len(b)
      BY <1>1, <2>1, PremiereFinTrouvee
  <2> QED
      BY <1>1, <2>2, ElementOfSeq DEF i, b
<1>3. suite \in Seq(Element) /\ Len(suite) <= MessageMax
  <2> HIDE DEF i, b
  <2>1. h \in Int /\ Len(b) \in Int /\ h <= Len(b) + 1 /\ h >= 1
      BY <1>1, <1>2
  <2>2. \A j \in h..Len(b) : b[j] \in Element
      BY <1>1, <1>2, ElementOfSeq
  <2> HIDE DEF h
  <2>3. suite \in Seq(Element) /\ Len(suite) = IF h <= Len(b) THEN Len(b) - h + 1 ELSE 0
      BY <2>1, <2>2, SubSeqProperties
  <2> HIDE DEF suite
  <2> QED
      BY <1>1, <2>1, <2>3, IpcAssumption
<1>4. b[i][2] \in Nat /\ cl.fd \in Clients
    BY <1>2 DEF Element, Place
<1>5. m \in Entete
  <2> HIDE DEF i, b
  <2> QED
      BY <1>4, Entetes
<1>6. /\ n \in Place /\ n.input = suite
      /\ n.subscribed = (cl.subscribed \/ b[i][1] = "subscribe")
      /\ n.fd = cl.fd /\ n.output = cl.output /\ n.output_offset = cl.output_offset
  <2> HIDE DEF suite, b, i
  <2> QED
      BY <1>3 DEF Place
<1>7. Traite(cl) = Ajouter(n, m)
    BY DEF Traite
<1>8. n.output = <<>>
    BY <1>6 DEF ATraiter
<1> HIDE DEF n, m, suite
<1>9. PlaceOK(n) /\ n.fd # Aucun
    BY <1>3, <1>6 DEF PlaceOK
<1>10. Reste(n) = Reste(cl)
    BY <1>6 DEF Reste
<1>11. Ajouter(n, m).fd = n.fd
    BY <1>5, <1>6, <1>8, <1>9, AjouterOK
<1>12. Ajouter(n, m) # Vide
    BY <1>9, <1>11, VideOK
<1>13. /\ PlaceOK(Ajouter(n, m)) /\ Ajouter(n, m) \in Place
       /\ Ajouter(n, m).subscribed = n.subscribed
       /\ Ajouter(n, m).input = n.input
       /\ Ajouter(n, m).output # <<>>
       /\ Reste(Ajouter(n, m)) = Reste(n) \o Promesse!Message(m)
    BY <1>5, <1>6, <1>9, <1>12, AjouterOK
<1>14. /\ Traite(cl) \in Place /\ PlaceOK(Traite(cl))
       /\ Traite(cl).fd = cl.fd /\ Traite(cl).output # <<>>
       /\ Traite(cl).subscribed = (cl.subscribed \/ b[i][1] = "subscribe")
       /\ Traite(cl).input = suite
       /\ Reste(Traite(cl)) = Reste(cl) \o Promesse!Message(m)
    BY <1>6, <1>7, <1>10, <1>11, <1>13
<1> QED
    BY <1>4, <1>14 DEF m, suite

\* write_client: what leaves the place is what it was going to send.
LEMMA EnvoyeOK ==
    ASSUME NEW cl \in Place, PlaceOK(cl), cl.output # <<>>,
           NEW k \in 1..Len(Reste(cl))
    PROVE  /\ Envoye(cl, k) \in Place /\ PlaceOK(Envoye(cl, k))
           /\ Envoye(cl, k).fd = cl.fd /\ Envoye(cl, k).subscribed = cl.subscribed
           /\ Envoye(cl, k).input = cl.input
           /\ SubSeq(Reste(cl), 1, k) \in Seq(Piece)
           /\ Reste(Envoye(cl, k)) \in Seq(Piece)
           /\ SubSeq(Reste(cl), 1, k) \o Reste(Envoye(cl, k)) = Reste(cl)
<1> DEFINE q == cl.output
           o == cl.output_offset
           r == Reste(cl)
           h == o + 1
<1>1. /\ r \in Seq(Piece) /\ Len(r) = Len(q) - o /\ Len(q) \in Nat
      /\ o \in 0..Len(q) /\ q \in Seq(Piece) /\ Len(r) > 0
    BY ResteOK DEF Place
<1>2. cl.fd # Aucun /\ o < Len(q) /\ Len(q) <= PendingMax
    BY VideOK DEF PlaceOK
<1>3. SubSeq(r, 1, k) \in Seq(Piece)
  <2> HIDE DEF r, q, o
  <2>1. 1 \in Int /\ k \in Int /\ \A j \in 1..k : r[j] \in Piece
      BY <1>1, ElementOfSeq DEF r
  <2> QED
      BY <2>1, SubSeqProperties
<1>4. CASE k = Len(r)
  <2> DEFINE n == [cl EXCEPT !.output = <<>>, !.output_offset = 0]
  <2>1. Envoye(cl, k) = n
      BY <1>4 DEF Envoye
  <2>2. /\ n \in Place /\ n.fd = cl.fd /\ n.subscribed = cl.subscribed
        /\ n.input = cl.input /\ n.output = <<>> /\ n.output_offset = 0
      BY EmptySeq DEF Place
  <2> HIDE DEF n
  <2>3. PlaceOK(n)
      BY <1>2, <2>2, EmptySeq, IpcAssumption DEF PlaceOK
  <2>4. Reste(n) = <<>> /\ Reste(n) \in Seq(Piece)
      BY <2>2, <2>3, ResteOK
  <2>5. SubSeq(r, 1, k) = r
    <3> HIDE DEF r
    <3>1. SubSeq(r, 1, Len(r)) = r
        BY <1>1, SubSeqFull
    <3> QED
        BY <1>4, <3>1 DEF r
  <2>6. r \o <<>> = r
    <3> HIDE DEF r
    <3> QED
        BY <1>1, ConcatEmptySeq
  <2> QED
      BY <1>3, <2>1, <2>2, <2>3, <2>4, <2>5, <2>6
<1>5. CASE k # Len(r)
  <2> DEFINE n == [cl EXCEPT !.output_offset = @ + k]
             g == o + k
  <2>1. Envoye(cl, k) = n
      BY <1>5 DEF Envoye
  <2>2. k < Len(r) /\ g \in Nat /\ g < Len(q) /\ g >= 1 /\ h \in 1..Len(q) /\ g >= h
      BY <1>1, <1>5
  <2>3. /\ n \in Place /\ n.fd = cl.fd /\ n.subscribed = cl.subscribed
        /\ n.input = cl.input /\ n.output = cl.output /\ n.output_offset = g
    <3>1. o + k \in Nat
        BY <2>2
    <3> QED
        BY <3>1 DEF Place
  <2> HIDE DEF n
  <2>4. PlaceOK(n)
      BY <1>2, <2>2, <2>3 DEF PlaceOK
  <2>5. Reste(n) \in Seq(Piece) /\ Reste(n) = SubSeq(q, g + 1, Len(q))
    <3>1. Reste(n) \in Seq(Piece)
        BY <2>3, <2>4, ResteOK
    <3> QED
        BY <2>3, <3>1 DEF Reste
  <2>6. r = SubSeq(q, h, Len(q))
      BY DEF Reste
  <2>7. SubSeq(q, h, g) \o SubSeq(q, g + 1, Len(q)) = SubSeq(q, h, Len(q))
    <3> HIDE DEF q, g, h
    <3>1. h \in 1..(Len(q) + 1) /\ g \in (h - 1)..Len(q) /\ Len(q) \in g..Len(q)
        BY <1>1, <2>2
    <3> QED
        BY <1>1, <3>1, ConcatAdjacentSubSeq
  <2>8. SubSeq(SubSeq(q, h, Len(q)), 1, k) = SubSeq(q, h, g)
    <3>0. /\ Len(q) \in Nat /\ o \in Nat /\ k \in Nat /\ k >= 1 /\ k < Len(q) - o
          /\ h = o + 1 /\ g = o + k
        BY <1>1, <2>2
    <3>1. /\ Len(q) \in 1..Len(q) /\ 1 \in 1..(Len(q) - h + 1) /\ k \in 1..(Len(q) - h + 1)
          /\ h + 1 - 1 = h /\ h + k - 1 = g
      <4> HIDE DEF q, o, g, h
      <4> QED
          BY <3>0
    <3> HIDE DEF q, g, h
    <3>2. SubSeq(SubSeq(q, h, Len(q)), 1, k) = SubSeq(q, h + 1 - 1, h + k - 1)
        BY <1>1, <2>2, <3>1, SubSeqOfSubSeq
    <3> QED
        BY <3>1, <3>2
  <2> HIDE DEF q, g, h, r
  <2>9. SubSeq(r, 1, k) \o Reste(n) = r
      BY <2>5, <2>6, <2>7, <2>8
  <2> QED
      BY <1>3, <2>1, <2>3, <2>4, <2>5, <2>9 DEF r
<1> QED
    BY <1>4, <1>5

-----------------------------------------------------------------------------
(* The table of clients                                                    *)

\* The place of a connection.
LEMMA LaPlace ==
    ASSUME Distinctes(clients), NEW s \in Places, ~Libre(s)
    PROVE  PlaceDe(clients[s].fd) = s
<1>1. \A t \in Places : clients[t].fd = clients[s].fd => t = s
    BY DEF Distinctes, Libre
<1> QED
    BY <1>1 DEF PlaceDe

\* Poser: places keep their connection or are reset.
LEMMA PoserOK ==
    ASSUME TypeInv, NEW f, \A s \in Places : f[s].fd = clients[s].fd \/ f[s].fd = Aucun,
           NEW e, e = [c \in Clients |-> IF etat[c] = "ouvert" /\ c \notin Fds(f)
                                         THEN "clos" ELSE etat[c]]
    PROVE  /\ e \in [Clients -> {"absent", "file", "ouvert", "clos"}]
           /\ Distinctes(f) /\ Fds(f) = Ouvertes(e)
           /\ \A c \in Clients : e[c] = "ouvert" => etat[c] = "ouvert"
           /\ \A c \in Clients : etat[c] # "ouvert" => e[c] = etat[c]
           /\ \A c \in Clients : etat[c] = "ouvert" => e[c] \in {"ouvert", "clos"}
<1>1. /\ etat \in [Clients -> {"absent", "file", "ouvert", "clos"}]
      /\ Distinctes(clients) /\ Fds(clients) = Ouvertes(etat)
      /\ \A s \in Places : clients[s].fd \in Clients \union {Aucun}
    BY DEF TypeInv, Place
<1>2. Distinctes(f)
    BY <1>1 DEF Distinctes
<1>3. Fds(f) \subseteq Ouvertes(etat)
    BY <1>1 DEF Fds
<1>4. Fds(f) = Ouvertes(e)
    BY <1>3 DEF Ouvertes
<1> QED
    BY <1>1, <1>2, <1>4

-----------------------------------------------------------------------------
(* The types                                                               *)

LEMMA TypeInit == Init => TypeInv
<1> SUFFICES ASSUME Init
             PROVE  TypeInv
    OBVIOUS
<1>1. /\ etat \in [Clients -> {"absent", "file", "ouvert", "clos"}]
      /\ fermee \in [Clients -> BOOLEAN] /\ parti \in [Clients -> BOOLEAN]
    BY DEF Init
<1>2. /\ lignes \in [Clients -> Seq(Ordres)] /\ \A c \in Clients : Len(lignes[c]) <= LignesMax
      /\ transit \in [Clients -> Seq(Element)] /\ recu \in [Clients -> Seq(Piece)]
    BY EmptySeq, IpcAssumption DEF Init
<1>3. /\ \A s \in Places : clients[s] = Vide
      /\ clients \in [Places -> Place] /\ \A s \in Places : PlaceOK(clients[s])
    BY VideOK DEF Init, PlaceOK
<1>4. Fds(clients) = {}
    BY <1>3, VideOK DEF Fds
<1>5. Distinctes(clients)
    BY <1>3, VideOK DEF Distinctes
<1>6. Ouvertes(etat) = {}
    BY DEF Init, Ouvertes
<1>7. /\ pc \in {"tick", "traiter", "poll", "accepter", "servir", "arrete"}
      /\ a_servir \subseteq Places /\ running \in BOOLEAN /\ evenements \in 0..EvtsMax
    BY IpcAssumption DEF Init
<1> QED
    BY <1>1, <1>2, <1>3, <1>4, <1>5, <1>6, <1>7 DEF TypeInv

LEMMA TypeClients ==
    ASSUME TypeInv, NEW c \in Clients,
           ClientConnecte(c) \/ ClientEcrit(c) \/ ClientFinit(c) \/ ClientPart(c)
    PROVE  TypeInv'
<1> USE DEF cote_client, tour, serveur
<1>1. CASE ClientConnecte(c)
  <2>1. /\ etat' \in [Clients -> {"absent", "file", "ouvert", "clos"}]
        /\ Ouvertes(etat') = Ouvertes(etat)
      BY <1>1 DEF ClientConnecte, TypeInv, Ouvertes
  <2> QED
      BY <1>1, <2>1 DEF ClientConnecte, TypeInv
<1>2. CASE ClientEcrit(c)
  <2>1. PICK n \in Longueurs, o \in Ordres :
           /\ lignes' = [lignes EXCEPT ![c] = Append(@, o)]
           /\ transit' = [transit EXCEPT ![c] = @ \o Ligne(n, o, Len(lignes[c]) + 1)]
      BY <1>2 DEF ClientEcrit
  <2>2. /\ lignes[c] \in Seq(Ordres) /\ Len(lignes[c]) \in Nat /\ Len(lignes[c]) < LignesMax
        /\ transit[c] \in Seq(Element) /\ n \in Nat
      BY <1>2, LenProperties, IpcAssumption DEF TypeInv, ClientEcrit
  <2>3. /\ Append(lignes[c], o) \in Seq(Ordres)
        /\ Len(Append(lignes[c], o)) = Len(lignes[c]) + 1
      BY <2>2, AppendProperties
  <2>4. Len(Append(lignes[c], o)) <= LignesMax
      BY <2>2, <2>3, IpcAssumption
  <2>5. transit[c] \o Ligne(n, o, Len(lignes[c]) + 1) \in Seq(Element)
    <3>1. Len(lignes[c]) + 1 \in Nat
        BY <2>2
    <3>2. Ligne(n, o, Len(lignes[c]) + 1) \in Seq(Element)
        BY <2>2, <3>1, UneLigne
    <3> QED
        BY <2>2, <3>2, ConcatProperties
  <2>6. /\ lignes' \in [Clients -> Seq(Ordres)] /\ \A d \in Clients : Len(lignes'[d]) <= LignesMax
      BY <2>1, <2>3, <2>4 DEF TypeInv
  <2>7. transit' \in [Clients -> Seq(Element)]
      BY <2>1, <2>5 DEF TypeInv
  <2> QED
      BY <1>2, <2>6, <2>7 DEF ClientEcrit, TypeInv
<1>3. CASE ClientFinit(c)
    BY <1>3 DEF ClientFinit, TypeInv
<1>4. CASE ClientPart(c)
    BY <1>4 DEF ClientPart, TypeInv
<1> QED
    BY <1>1, <1>2, <1>3, <1>4

\* A step that changes the table by Poser, to a table of sound places.
LEMMA TypePoser ==
    ASSUME TypeInv, NEW f \in [Places -> Place], Poser(f),
           \A s \in Places : PlaceOK(f[s]) /\ (f[s].fd = clients[s].fd \/ f[s].fd = Aucun)
    PROVE  /\ etat' \in [Clients -> {"absent", "file", "ouvert", "clos"}]
           /\ clients' \in [Places -> Place] /\ \A s \in Places : PlaceOK(clients'[s])
           /\ Distinctes(clients') /\ Fds(clients') = Ouvertes(etat')
<1>1. clients' = f
    BY DEF Poser
<1>2. etat' = [c \in Clients |-> IF etat[c] = "ouvert" /\ c \notin Fds(f)
                                 THEN "clos" ELSE etat[c]]
    BY DEF Poser
<1>3. \A s \in Places : f[s].fd = clients[s].fd \/ f[s].fd = Aucun
    OBVIOUS
<1> QED
    BY <1>1, <1>2, <1>3, PoserOK

\* The table after ipc_server_broadcast and after process_buffered_message.
Avertis == [s \in Places |-> IF clients[s].subscribed
                             THEN Ajouter(clients[s], Promesse!Evenement(evenements + 1))
                             ELSE clients[s]]
Traites == [s \in Places |-> IF ATraiter(clients[s]) THEN Traite(clients[s]) ELSE clients[s]]

LEMMA Occupee ==
    ASSUME TypeInv, NEW s \in Places
    PROVE  /\ clients[s] \in Place /\ PlaceOK(clients[s])
           /\ clients[s].subscribed => clients[s].fd # Aucun
           /\ ATraiter(clients[s]) => clients[s].fd # Aucun
           /\ clients[s].output # <<>> => clients[s].fd # Aucun
           /\ clients[s].fd # Aucun => /\ clients[s].fd \in Clients
                                       /\ etat[clients[s].fd] = "ouvert"
                                       /\ PlaceDe(clients[s].fd) = s
<1>1. /\ clients[s] \in Place /\ PlaceOK(clients[s]) /\ Distinctes(clients)
      /\ Fds(clients) = Ouvertes(etat)
    BY DEF TypeInv
<1>2. clients[s].fd = Aucun => clients[s] = Vide
    BY <1>1 DEF PlaceOK
<1>3. /\ ~Vide.subscribed /\ ~ATraiter(Vide) /\ Vide.output = <<>>
    BY EmptySeq DEF Vide, ATraiter, ContientFin
<1>4. clients[s].fd # Aucun => clients[s].fd \in Fds(clients)
    BY DEF Fds
<1>5. clients[s].fd # Aucun => PlaceDe(clients[s].fd) = s
    BY <1>1, LaPlace DEF Libre
<1> QED
    BY <1>1, <1>2, <1>3, <1>4, <1>5 DEF Ouvertes, Place

LEMMA AvertisOK ==
    ASSUME TypeInv
    PROVE  /\ Avertis \in [Places -> Place]
           /\ \A s \in Places : /\ PlaceOK(Avertis[s])
                                /\ Avertis[s].fd = clients[s].fd \/ Avertis[s].fd = Aucun
<1>1. \A s \in Places : /\ Avertis[s] \in Place /\ PlaceOK(Avertis[s])
                        /\ Avertis[s].fd = clients[s].fd \/ Avertis[s].fd = Aucun
  <2> TAKE s \in Places
  <2>1. evenements + 1 \in Nat
      BY IpcAssumption DEF TypeInv
  <2>2. Promesse!Evenement(evenements + 1) \in Entete
      BY <2>1, Entetes
  <2>3. CASE clients[s].subscribed
    <3>1. Avertis[s] = Ajouter(clients[s], Promesse!Evenement(evenements + 1))
        BY <2>3 DEF Avertis
    <3>2. clients[s] \in Place /\ PlaceOK(clients[s]) /\ clients[s].fd # Aucun
        BY <2>3, Occupee
    <3> QED
        BY <2>2, <3>1, <3>2, AjouterOK, VideOK
  <2>4. CASE ~clients[s].subscribed
    <3>1. Avertis[s] = clients[s]
        BY <2>4 DEF Avertis
    <3> QED
        BY <3>1, Occupee
  <2> QED
      BY <2>3, <2>4
<1>2. Avertis \in [Places -> Place]
    BY <1>1 DEF Avertis
<1> QED
    BY <1>1, <1>2

LEMMA TraitesOK ==
    ASSUME TypeInv
    PROVE  /\ Traites \in [Places -> Place]
           /\ \A s \in Places : PlaceOK(Traites[s]) /\ Traites[s].fd = clients[s].fd
<1>1. \A s \in Places : /\ Traites[s] \in Place /\ PlaceOK(Traites[s])
                        /\ Traites[s].fd = clients[s].fd
  <2> TAKE s \in Places
  <2>1. CASE ATraiter(clients[s])
    <3>1. Traites[s] = Traite(clients[s])
        BY <2>1 DEF Traites
    <3>2. clients[s] \in Place /\ PlaceOK(clients[s]) /\ clients[s].fd # Aucun
        BY <2>1, Occupee
    <3> QED
        BY <2>1, <3>1, <3>2, TraiteOK
  <2>2. CASE ~ATraiter(clients[s])
    <3>1. Traites[s] = clients[s]
        BY <2>2 DEF Traites
    <3> QED
        BY <3>1, Occupee
  <2> QED
      BY <2>1, <2>2
<1>2. Traites \in [Places -> Place]
    BY <1>1 DEF Traites
<1> QED
    BY <1>1, <1>2

\* One place changes and keeps its connection.
LEMMA UnePlace ==
    ASSUME TypeInv, NEW s \in Places, NEW n \in Place, PlaceOK(n), n.fd = clients[s].fd,
           clients' = [clients EXCEPT ![s] = n], UNCHANGED etat
    PROVE  /\ etat' \in [Clients -> {"absent", "file", "ouvert", "clos"}]
           /\ clients' \in [Places -> Place] /\ \A t \in Places : PlaceOK(clients'[t])
           /\ Distinctes(clients') /\ Fds(clients') = Ouvertes(etat')
<1>1. \A t \in Places : clients'[t].fd = clients[t].fd
    BY DEF TypeInv
<1>2. Fds(clients') = Fds(clients)
    BY <1>1 DEF Fds
<1>3. Distinctes(clients')
    BY <1>1 DEF Distinctes, TypeInv
<1>4. clients' \in [Places -> Place] /\ \A t \in Places : PlaceOK(clients'[t])
    BY DEF TypeInv
<1>5. Fds(clients) = Ouvertes(etat)
      /\ etat \in [Clients -> {"absent", "file", "ouvert", "clos"}]
    BY DEF TypeInv
<1> QED
    BY <1>2, <1>3, <1>4, <1>5

LEMMA TypeRaccrocher ==
    ASSUME TypeInv, NEW s \in Places, Poser([clients EXCEPT ![s] = Vide])
    PROVE  /\ etat' \in [Clients -> {"absent", "file", "ouvert", "clos"}]
           /\ clients' \in [Places -> Place] /\ \A t \in Places : PlaceOK(clients'[t])
           /\ Distinctes(clients') /\ Fds(clients') = Ouvertes(etat')
<1> DEFINE f == [clients EXCEPT ![s] = Vide]
<1>1. /\ f \in [Places -> Place]
      /\ \A t \in Places : PlaceOK(f[t]) /\ (f[t].fd = clients[t].fd \/ f[t].fd = Aucun)
    BY VideOK DEF TypeInv, PlaceOK
<1>2. Poser(f)
    OBVIOUS
<1> HIDE DEF f
<1> QED
    BY <1>1, <1>2, TypePoser

\* read_client, when it reads: what it takes, and the place then.
LEMMA LuOK ==
    ASSUME TypeInv, NEW s \in Places, AServir(s), clients[s].output = <<>>, ~Libre(s),
           ~(Len(clients[s].input) >= MessageMax \/ transit[clients[s].fd] = <<>>),
           NEW n,
           n = Plus_petit(Plus_petit(ReadSize, Place_libre(clients[s])),
                          Len(transit[clients[s].fd]))
    PROVE  /\ n \in 1..Len(transit[clients[s].fd])
           /\ Len(clients[s].input \o SubSeq(transit[clients[s].fd], 1, n)) <= MessageMax
           /\ clients[s].input \o SubSeq(transit[clients[s].fd], 1, n) \in Seq(Element)
<1> DEFINE b == clients[s].input
           t == transit[clients[s].fd]
<1>1. b \in Seq(Element) /\ Len(b) \in Nat /\ Len(b) < MessageMax
    BY Occupee, LenProperties, IpcAssumption DEF Place
<1>2. t \in Seq(Element) /\ Len(t) \in Nat /\ Len(t) > 0
  <2>1. t \in Seq(Element)
      BY Occupee DEF TypeInv, Libre
  <2> HIDE DEF t
  <2>2. t # <<>>
      BY DEF t
  <2> QED
      BY <2>1, <2>2, EmptySeq
<1>3. n \in 1..Len(t) /\ n <= MessageMax - Len(b)
  <2>1. n = Plus_petit(Plus_petit(ReadSize, MessageMax - Len(b)), Len(t))
      BY DEF Place_libre
  <2>2. ReadSize \in Nat \ {0} /\ MessageMax \in Nat
      BY IpcAssumption
  <2> HIDE DEF b, t
  <2> QED
      BY <1>1, <1>2, <2>1, <2>2 DEF Plus_petit
<1>4. n \in 0..Len(t)
    BY <1>3
<1> HIDE DEF b, t
<1>5. SubSeq(t, 1, n) \in Seq(Element) /\ Len(SubSeq(t, 1, n)) = n
    BY <1>1, <1>2, <1>4, MorceauLu
<1>6. b \o SubSeq(t, 1, n) \in Seq(Element) /\ Len(b \o SubSeq(t, 1, n)) = Len(b) + n
  <2> DEFINE x == SubSeq(t, 1, n)
  <2>1. x \in Seq(Element) /\ Len(x) = n
      BY <1>5
  <2> HIDE DEF x
  <2>2. b \o x \in Seq(Element) /\ Len(b \o x) = Len(b) + Len(x)
      BY <1>1, <2>1, ConcatProperties
  <2> QED
      BY <2>1, <2>2 DEF x
<1>7. Len(b \o SubSeq(t, 1, n)) <= MessageMax
    BY <1>1, <1>2, <1>3, <1>6, IpcAssumption
<1> QED
    BY <1>3, <1>6, <1>7 DEF b, t

LEMMA TypeServir ==
    ASSUME TypeInv, ServirInv, NEW s \in Places, Lire(s) \/ Ecrire(s) \/ Perdu(s)
    PROVE  TypeInv'
<1> USE DEF cote_client, tour
<1>1. AServir(s) /\ Servi(s) /\ pc = "servir" /\ s \in a_servir /\ ~Libre(s)
    BY DEF Lire, Ecrire, Perdu, AServir, ServirInv
<1>2. clients[s].fd \in Clients /\ clients[s] \in Place /\ PlaceOK(clients[s])
    BY <1>1, Occupee DEF Libre
<1>3. a_servir' \subseteq Places /\ UNCHANGED <<pc, running, evenements>>
    BY <1>1 DEF Servi, TypeInv
<1>4. CASE ARaccrocher(s) /\ UNCHANGED cote_client
  <2>1. Poser([clients EXCEPT ![s] = Vide]) /\ UNCHANGED <<transit, recu>>
      BY <1>4 DEF ARaccrocher
  <2>2. /\ etat' \in [Clients -> {"absent", "file", "ouvert", "clos"}]
        /\ clients' \in [Places -> Place] /\ \A t \in Places : PlaceOK(clients'[t])
        /\ Distinctes(clients') /\ Fds(clients') = Ouvertes(etat')
      BY <2>1, TypeRaccrocher
  <2> QED
      BY <1>3, <1>4, <2>1, <2>2 DEF TypeInv
<1>5. CASE Lire(s) /\ ~ARaccrocher(s)
  <2> DEFINE b == clients[s].input
             t == transit[clients[s].fd]
  <2>1. PICK n : n = Plus_petit(Plus_petit(ReadSize, Place_libre(clients[s])), Len(t))
      OBVIOUS
  <2>2. /\ ~(Len(b) >= MessageMax \/ t = <<>>) /\ clients[s].output = <<>>
        /\ clients' = [clients EXCEPT ![s].input = @ \o SubSeq(t, 1, n)]
        /\ transit' = [transit EXCEPT ![clients[s].fd] = SubSeq(@, n + 1, Len(@))]
        /\ UNCHANGED <<etat, recu>> /\ UNCHANGED cote_client
      BY <1>5, <2>1 DEF Lire
  <2>3. /\ n \in 1..Len(t) /\ Len(b \o SubSeq(t, 1, n)) <= MessageMax
        /\ b \o SubSeq(t, 1, n) \in Seq(Element)
      BY <1>1, <2>1, <2>2, LuOK
  <2>4. t \in Seq(Element) /\ b \in Seq(Element)
      BY <1>2 DEF TypeInv, Place
  <2>5. n \in 0..Len(t)
      BY <2>3, <2>4, LenProperties
  <2>6. SubSeq(t, n + 1, Len(t)) \in Seq(Element)
    <3> HIDE DEF t, b
    <3> QED
        BY <2>4, <2>5, MorceauLu
  <2>7. transit' \in [Clients -> Seq(Element)]
      BY <2>2, <2>6 DEF TypeInv
  <2> DEFINE x == b \o SubSeq(t, 1, n)
             p == [clients[s] EXCEPT !.input = x]
  <2>8. clients' = [clients EXCEPT ![s] = p]
      BY <2>2
  <2>9. p \in Place /\ PlaceOK(p) /\ p.fd = clients[s].fd
    <3>1. x \in Seq(Element) /\ Len(x) <= MessageMax
        BY <2>3
    <3> HIDE DEF x
    <3> QED
        BY <1>1, <1>2, <3>1, TamponOK DEF Libre
  <2> HIDE DEF p
  <2>10. /\ etat' \in [Clients -> {"absent", "file", "ouvert", "clos"}]
         /\ clients' \in [Places -> Place] /\ \A u \in Places : PlaceOK(clients'[u])
         /\ Distinctes(clients') /\ Fds(clients') = Ouvertes(etat')
      BY <2>2, <2>8, <2>9, UnePlace
  <2> QED
      BY <1>3, <2>2, <2>7, <2>10 DEF TypeInv
<1>6. CASE Ecrire(s)
  <2>1. clients[s].output # <<>>
      BY <1>6 DEF Ecrire
  <2>2. PICK k \in 1..Len(Reste(clients[s])) :
           /\ recu' = [recu EXCEPT ![clients[s].fd] = @ \o SubSeq(Reste(clients[s]), 1, k)]
           /\ clients' = [clients EXCEPT ![s] = Envoye(@, k)]
      BY <1>6 DEF Ecrire
  <2>3. /\ Envoye(clients[s], k) \in Place /\ PlaceOK(Envoye(clients[s], k))
        /\ Envoye(clients[s], k).fd = clients[s].fd
        /\ SubSeq(Reste(clients[s]), 1, k) \in Seq(Piece)
      BY <1>2, <2>1, EnvoyeOK
  <2>4. clients' = [clients EXCEPT ![s] = Envoye(clients[s], k)]
      BY <2>2
  <2>5. UNCHANGED <<etat, cote_client, transit>>
      BY <1>6 DEF Ecrire
  <2>6. /\ etat' \in [Clients -> {"absent", "file", "ouvert", "clos"}]
        /\ clients' \in [Places -> Place] /\ \A u \in Places : PlaceOK(clients'[u])
        /\ Distinctes(clients') /\ Fds(clients') = Ouvertes(etat')
    <3> DEFINE p == Envoye(clients[s], k)
    <3>1. p \in Place /\ PlaceOK(p) /\ p.fd = clients[s].fd
          /\ clients' = [clients EXCEPT ![s] = p]
        BY <2>3, <2>4
    <3> HIDE DEF p
    <3> QED
        BY <2>5, <3>1, UnePlace
  <2>7. recu[clients[s].fd] \o SubSeq(Reste(clients[s]), 1, k) \in Seq(Piece)
    <3> DEFINE r == recu[clients[s].fd]
               x == SubSeq(Reste(clients[s]), 1, k)
    <3>1. r \in Seq(Piece) /\ x \in Seq(Piece)
        BY <1>2, <2>3 DEF TypeInv
    <3> HIDE DEF r, x
    <3>2. r \o x \in Seq(Piece)
        BY <3>1, ConcatProperties
    <3> QED
        BY <3>2 DEF r, x
  <2>8. recu' \in [Clients -> Seq(Piece)]
      BY <2>2, <2>7 DEF TypeInv
  <2> QED
      BY <1>3, <2>5, <2>6, <2>8 DEF TypeInv
<1>7. Lire(s) => UNCHANGED cote_client
    BY DEF Lire
<1>8. Perdu(s) => ARaccrocher(s) /\ UNCHANGED cote_client
    BY DEF Perdu
<1> QED
    BY <1>4, <1>5, <1>6, <1>7, <1>8

LEMMA TypeTable ==
    ASSUME TypeInv, Diffuser \/ Traiter \/ Fermer
    PROVE  TypeInv'
<1> USE DEF cote_client, tour
<1>1. CASE Diffuser
  <2>1. Poser(Avertis)
      BY <1>1 DEF Diffuser, Avertis
  <2>2. /\ etat' \in [Clients -> {"absent", "file", "ouvert", "clos"}]
        /\ clients' \in [Places -> Place] /\ \A s \in Places : PlaceOK(clients'[s])
        /\ Distinctes(clients') /\ Fds(clients') = Ouvertes(etat')
      BY <2>1, AvertisOK, TypePoser
  <2>3. evenements' \in 0..EvtsMax
      BY <1>1, IpcAssumption DEF Diffuser, TypeInv
  <2>4. UNCHANGED <<cote_client, transit, recu, tour, running>>
      BY <1>1 DEF Diffuser
  <2> QED
      BY <2>2, <2>3, <2>4 DEF TypeInv
<1>2. CASE Traiter
  <2>1. Poser(Traites)
      BY <1>2 DEF Traiter, Traites
  <2>2. /\ etat' \in [Clients -> {"absent", "file", "ouvert", "clos"}]
        /\ clients' \in [Places -> Place] /\ \A s \in Places : PlaceOK(clients'[s])
        /\ Distinctes(clients') /\ Fds(clients') = Ouvertes(etat')
      BY <2>1, TraitesOK, TypePoser
  <2>3. pc' = "poll" /\ UNCHANGED <<cote_client, transit, recu, a_servir, running, evenements>>
      BY <1>2 DEF Traiter
  <2> QED
      BY <2>2, <2>3 DEF TypeInv
<1>3. CASE Fermer
  <2>1. /\ pc' = "arrete" /\ clients' = [s \in Places |-> Vide]
        /\ etat' = [c \in Clients |-> IF etat[c] = "absent" THEN "absent" ELSE "clos"]
        /\ UNCHANGED <<cote_client, transit, recu, a_servir, running, evenements>>
      BY <1>3 DEF Fermer
  <2>2. /\ \A s \in Places : clients'[s] = Vide
        /\ clients' \in [Places -> Place] /\ \A s \in Places : PlaceOK(clients'[s])
      BY <2>1, VideOK DEF PlaceOK
  <2>3. Fds(clients') = {} /\ Distinctes(clients')
      BY <2>2, VideOK DEF Fds, Distinctes
  <2>4. /\ etat' \in [Clients -> {"absent", "file", "ouvert", "clos"}]
        /\ Ouvertes(etat') = {}
      BY <2>1 DEF Ouvertes
  <2> QED
      BY <2>1, <2>2, <2>3, <2>4 DEF TypeInv
<1> QED
    BY <1>1, <1>2, <1>3

\* The first free place.
PremiereLibre == CHOOSE t \in Places : Libre(t) /\ \A u \in 1..(t - 1) : ~Libre(u)

LEMMA PremiereLibreTrouvee ==
    ASSUME \E s \in Places : Libre(s)
    PROVE  PremiereLibre \in Places /\ Libre(PremiereLibre)
<1> DEFINE libres == {s \in Places : Libre(s)}
<1>1. libres \in SUBSET Nat /\ libres # {}
    BY DEF Places
<1>2. PICK x \in libres : \A y \in libres : x <= y
  <2> HIDE DEF libres
  <2> QED
      BY <1>1, PlusPetit
<1>3. x \in Places /\ Libre(x) /\ \A u \in 1..(x - 1) : ~Libre(u)
  <2>1. x \in Places /\ Libre(x) /\ x \in Nat /\ x <= MaxClients
      BY <1>2, IpcAssumption DEF Places
  <2>2. \A u \in 1..(x - 1) : u \in Places /\ ~(x <= u)
      BY <2>1, IpcAssumption DEF Places
  <2> QED
      BY <1>2, <2>1, <2>2
<1> QED
    BY <1>3 DEF PremiereLibre

LEMMA TypeAccepter ==
    ASSUME TypeInv, NEW c \in Clients, Accepter(c)
    PROVE  TypeInv'
<1> USE DEF cote_client, tour
<1>1. etat[c] = "file" /\ UNCHANGED <<cote_client, transit, recu, tour, running, evenements>>
    BY DEF Accepter
<1>2. CASE \E s \in Places : Libre(s)
  <2>1. /\ clients' = [clients EXCEPT ![PremiereLibre].fd = c]
        /\ etat' = [etat EXCEPT ![c] = "ouvert"]
      BY <1>2 DEF Accepter, PremiereLibre
  <2>2. PICK s \in Places : s = PremiereLibre /\ clients[s].fd = Aucun
      BY <1>2, PremiereLibreTrouvee DEF Libre
  <2> DEFINE n == [clients[s] EXCEPT !.fd = c]
  <2>3. clients[s] = Vide /\ clients[s] \in Place
      BY <2>2, Occupee DEF PlaceOK
  <2>4. /\ n \in Place /\ n.fd = c /\ n.input = <<>> /\ n.output = <<>>
        /\ n.output_offset = 0
    <3>1. /\ n.fd = c /\ n.input = clients[s].input /\ n.output = clients[s].output
          /\ n.output_offset = clients[s].output_offset /\ n \in Place
        BY <2>3 DEF Place
    <3>2. /\ clients[s].input = <<>> /\ clients[s].output = <<>>
          /\ clients[s].output_offset = 0
        BY <2>3 DEF Vide
    <3> QED
        BY <3>1, <3>2
  <2> HIDE DEF n
  <2>5. PlaceOK(n)
      BY <2>4, EmptySeq, IpcAssumption DEF PlaceOK
  <2>6. clients' = [clients EXCEPT ![s] = n]
      BY <2>1, <2>2 DEF n
  <2>7. clients' \in [Places -> Place] /\ \A t \in Places : PlaceOK(clients'[t])
      BY <2>4, <2>5, <2>6 DEF TypeInv
  <2>8. c \notin Fds(clients) /\ c # Aucun
      BY <1>1, IpcAssumption DEF TypeInv, Ouvertes
  <2>9. \A t \in Places : clients'[t].fd = IF t = s THEN c ELSE clients[t].fd
      BY <2>4, <2>6 DEF TypeInv
  <2>10. \A t \in Places : clients[t].fd # c
      BY <2>8 DEF Fds
  <2>11. Distinctes(clients')
      BY <2>9, <2>10 DEF Distinctes, TypeInv
  <2>12. Fds(clients') = Fds(clients) \union {c}
      BY <2>2, <2>8, <2>9 DEF Fds
  <2>13. /\ etat' \in [Clients -> {"absent", "file", "ouvert", "clos"}]
         /\ Ouvertes(etat') = Ouvertes(etat) \union {c}
      BY <2>1 DEF TypeInv, Ouvertes
  <2> QED
      BY <1>1, <2>7, <2>11, <2>12, <2>13 DEF TypeInv
<1>3. CASE ~\E s \in Places : Libre(s)
  <2>1. etat' = [etat EXCEPT ![c] = "clos"] /\ UNCHANGED clients
      BY <1>3 DEF Accepter
  <2>2. /\ etat' \in [Clients -> {"absent", "file", "ouvert", "clos"}]
        /\ Ouvertes(etat') = Ouvertes(etat)
      BY <1>1, <2>1 DEF TypeInv, Ouvertes
  <2> QED
      BY <1>1, <2>1, <2>2 DEF TypeInv
<1> QED
    BY <1>2, <1>3

\* The steps that only move the turn on, or stop the server.
TourSeul ==
    \/ Arreter \/ FinTick \/ Interrompu \/ FinAccepter \/ AccepterEchoue \/ FinServir
    \/ \E prets \in SUBSET Places : Poll(prets)

LEMMA TypeTour ==
    ASSUME TypeInv, TourSeul
    PROVE  TypeInv' /\ UNCHANGED <<etat, cote_client, transit, recu, clients, evenements>>
<1> USE DEF cote_client, tour
<1>1. UNCHANGED <<etat, cote_client, transit, recu, clients, evenements>>
    BY DEF TourSeul, Arreter, FinTick, Interrompu, FinAccepter, AccepterEchoue, FinServir, Poll
<1>2. a_servir' \subseteq Places
    BY DEF TourSeul, Arreter, FinTick, Interrompu, FinAccepter, AccepterEchoue, FinServir,
           Poll, Signales, TypeInv
<1>3. pc' \in {"tick", "traiter", "poll", "accepter", "servir", "arrete"}
      /\ running' \in BOOLEAN
  <2>1. CASE \E prets \in SUBSET Places : Poll(prets)
      BY <2>1 DEF Poll, TypeInv
  <2>2. CASE Arreter
      BY <2>2 DEF Arreter, TypeInv
  <2>3. CASE FinTick \/ Interrompu \/ FinAccepter \/ FinServir
      BY <2>3 DEF FinTick, Interrompu, FinAccepter, FinServir, TypeInv
  <2>4. CASE AccepterEchoue
      BY <2>4 DEF AccepterEchoue, TypeInv
  <2> QED
      BY <2>1, <2>2, <2>3, <2>4 DEF TourSeul
<1> QED
    BY <1>1, <1>2, <1>3 DEF TypeInv

\* The actions of Next, by what they do to the table.
LEMMA LesPas ==
    ASSUME Next
    PROVE  \/ \E c \in Clients : \/ ClientConnecte(c) \/ ClientEcrit(c) \/ ClientFinit(c)
                                 \/ ClientPart(c)
           \/ TourSeul
           \/ Diffuser \/ Traiter \/ Fermer
           \/ \E c \in Clients : Accepter(c)
           \/ \E s \in Places : Lire(s) \/ Ecrire(s) \/ Perdu(s)
BY DEF Next, Environnement, Tour, TourSeul

LEMMA TypeNext ==
    ASSUME TypeInv, ServirInv, [Next]_vars
    PROVE  TypeInv'
<1>1. CASE UNCHANGED vars
    BY <1>1 DEF vars, cote_client, tour, TypeInv
<1>2. CASE Next
    BY <1>2, LesPas, TypeClients, TypeTour, TypeTable, TypeAccepter, TypeServir
<1> QED
    BY <1>1, <1>2

-----------------------------------------------------------------------------
(* What poll has signalled, and the lines that wait                        *)

LEMMA ServirClients ==
    ASSUME TypeInv, ServirInv, NEW c \in Clients,
           ClientConnecte(c) \/ ClientEcrit(c) \/ ClientFinit(c) \/ ClientPart(c)
    PROVE  ServirInv'
<1> USE DEF cote_client, tour, serveur
<1>1. UNCHANGED <<clients, pc, a_servir>>
    BY DEF ClientConnecte, ClientEcrit, ClientFinit, ClientPart
<1>2. \A d \in Clients : Lisible(d) => Lisible(d)'
  <2>1. CASE ClientConnecte(c) \/ ClientFinit(c) \/ ClientPart(c)
      BY <2>1 DEF ClientConnecte, ClientFinit, ClientPart, Lisible, TypeInv
  <2>2. CASE ClientEcrit(c)
    <3>1. PICK n \in Longueurs, o \in Ordres :
             transit' = [transit EXCEPT ![c] = @ \o Ligne(n, o, Len(lignes[c]) + 1)]
        BY <2>2 DEF ClientEcrit
    <3>2. transit[c] \o Ligne(n, o, Len(lignes[c]) + 1) # <<>>
      <4> DEFINE t == transit[c]
                 id == Len(lignes[c]) + 1
                 l == Ligne(n, o, id)
      <4>1. t \in Seq(Element) /\ Len(t) \in Nat /\ id \in Nat /\ n \in Nat
          BY LenProperties, IpcAssumption DEF TypeInv
      <4> HIDE DEF id
      <4>2. l \in Seq(Element) /\ Len(l) = n + 1
          BY <4>1, UneLigne
      <4> HIDE DEF t, l
      <4>3. t \o l \in Seq(Element) /\ Len(t \o l) = Len(t) + Len(l)
          BY <4>1, <4>2, ConcatProperties
      <4>4. Len(t \o l) # 0
          BY <4>1, <4>2, <4>3
      <4>5. t \o l # <<>>
          BY <4>4, EmptySeq
      <4> QED
          BY <4>5 DEF t, l, id
    <3>3. UNCHANGED <<fermee, parti>>
        BY <2>2 DEF ClientEcrit
    <3> QED
        BY <3>1, <3>2, <3>3 DEF Lisible, TypeInv
  <2> QED
      BY <2>1, <2>2
<1>3. \A s \in Places : clients[s].fd # Aucun => clients[s].fd \in Clients
    BY Occupee
<1>4. a_servir \subseteq Places
    BY DEF TypeInv
<1> QED
    BY <1>1, <1>2, <1>3, <1>4 DEF ServirInv, Libre

LEMMA ServirTour ==
    ASSUME TypeInv, ServirInv, NoLineForgotten, TourSeul
    PROVE  ServirInv'
<1> USE DEF cote_client, tour
<1>1. UNCHANGED <<clients, cote_client, transit>>
    BY TypeTour
<1>2. CASE FinAccepter \/ AccepterEchoue
    BY <1>1, <1>2 DEF FinAccepter, AccepterEchoue, ServirInv, Libre, Lisible
<1>3. CASE FinTick \/ Interrompu \/ FinServir
    BY <1>3 DEF FinTick, Interrompu, FinServir, ServirInv
<1>4. CASE Arreter
    BY <1>4 DEF Arreter, ServirInv
<1>5. CASE \E prets \in SUBSET Places : Poll(prets)
  <2>1. PICK prets \in SUBSET Places : Poll(prets)
      BY <1>5
  <2>2. pc = "poll" /\ a_servir' = Signales(prets)
      BY <2>1 DEF Poll
  <2>3. ASSUME NEW s \in a_servir'
        PROVE  ~Libre(s) /\ (clients[s].output = <<>> => /\ Lisible(clients[s].fd)
                                                         /\ ~ContientFin(clients[s].input))
    <3>1. s \in Places /\ ~Libre(s)
          /\ IF clients[s].output # <<>> THEN s \in prets \/ parti[clients[s].fd]
                                         ELSE Lisible(clients[s].fd)
        BY <2>2, <2>3 DEF Signales
    <3> QED
        BY <2>2, <3>1 DEF NoLineForgotten
  <2> QED
      BY <1>1, <2>3 DEF ServirInv, Libre, Lisible
<1> QED
    BY <1>2, <1>3, <1>4, <1>5 DEF TourSeul

LEMMA ServirAccepter ==
    ASSUME TypeInv, ServirInv, NEW c \in Clients, Accepter(c)
    PROVE  ServirInv'
<1>1. pc = "accepter" /\ UNCHANGED <<cote_client, transit, a_servir>>
    BY DEF Accepter, tour
<1>2. \A s \in a_servir : clients'[s] = clients[s]
  <2>1. CASE \E s \in Places : Libre(s)
    <3>1. clients' = [clients EXCEPT ![PremiereLibre].fd = c]
        BY <2>1 DEF Accepter, PremiereLibre
    <3>2. PremiereLibre \notin a_servir
        BY <1>1, <2>1, PremiereLibreTrouvee DEF ServirInv
    <3> QED
        BY <3>1, <3>2 DEF TypeInv
  <2>2. CASE ~\E s \in Places : Libre(s)
      BY <2>2 DEF Accepter
  <2> QED
      BY <2>1, <2>2
<1> QED
    BY <1>1, <1>2 DEF ServirInv, Libre, Lisible, cote_client

LEMMA ServirServir ==
    ASSUME TypeInv, ServirInv, NEW s \in Places, Lire(s) \/ Ecrire(s) \/ Perdu(s)
    PROVE  ServirInv'
<1>1. /\ pc = "servir" /\ s \in a_servir /\ ~Libre(s)
      /\ a_servir' = a_servir \ {s} /\ UNCHANGED cote_client
    BY DEF Lire, Ecrire, Perdu, AServir, Servi, ServirInv
<1>2. /\ clients[s].fd \in Clients
      /\ \A t \in Places : t # s => clients[t].fd # clients[s].fd
    BY <1>1, Occupee DEF TypeInv, Distinctes, Libre
<1>3. \A t \in Places : t # s => clients'[t] = clients[t]
    BY DEF Lire, Ecrire, Perdu, ARaccrocher, Poser, TypeInv
<1>4. \A d \in Clients : d # clients[s].fd => transit'[d] = transit[d]
    BY DEF Lire, Ecrire, Perdu, ARaccrocher, Poser, TypeInv
<1>5. ASSUME NEW t \in a_servir'
      PROVE  ~Libre(t)' /\ (clients'[t].output = <<>> => /\ Lisible(clients[t].fd)'
                                                         /\ ~ContientFin(clients'[t].input))
  <2>1. t \in Places /\ t # s /\ t \in a_servir
      BY <1>1, <1>5 DEF TypeInv
  <2>2. ~Libre(t) /\ (clients[t].output = <<>> => /\ Lisible(clients[t].fd)
                                                  /\ ~ContientFin(clients[t].input))
      BY <1>1, <2>1 DEF ServirInv
  <2>3. clients'[t] = clients[t] /\ clients[t].fd # clients[s].fd /\ clients[t].fd \in Clients
      BY <1>2, <1>3, <2>1, <2>2, Occupee DEF Libre
  <2>4. transit'[clients[t].fd] = transit[clients[t].fd]
      BY <1>4, <2>3
  <2>5. ~Libre(t)'
      BY <2>2, <2>3 DEF Libre
  <2>6. UNCHANGED <<fermee, parti>>
      BY <1>1 DEF cote_client
  <2>7. Lisible(clients[t].fd) => Lisible(clients[t].fd)'
      BY <2>3, <2>4, <2>6 DEF Lisible
  <2> QED
      BY <2>2, <2>3, <2>5, <2>7
<1> QED
    BY <1>5 DEF ServirInv

LEMMA ServirNext ==
    ASSUME TypeInv, ServirInv, NoLineForgotten, [Next]_vars
    PROVE  ServirInv'
<1>1. CASE UNCHANGED vars
    BY <1>1 DEF vars, cote_client, tour, ServirInv, Libre, Lisible
<1>2. CASE Diffuser \/ Traiter \/ Fermer
    BY <1>2 DEF Diffuser, Traiter, Fermer, tour, ServirInv
<1>3. CASE Next
    BY <1>2, <1>3, LesPas, ServirClients, ServirTour, ServirAccepter, ServirServir
<1> QED
    BY <1>1, <1>3

LEMMA LignesNext ==
    ASSUME TypeInv, NoLineForgotten, [Next]_vars
    PROVE  NoLineForgotten'
<1> USE DEF tour, serveur
<1>1. CASE UNCHANGED vars
    BY <1>1 DEF vars, NoLineForgotten
<1>2. CASE Traiter
  <2>1. clients' = Traites
      BY <1>2 DEF Traiter, Traites, Poser
  <2>2. ASSUME NEW s \in Places, Traites[s].output = <<>>
        PROVE  ~ContientFin(Traites[s].input)
    <3>1. CASE ATraiter(clients[s])
      <4>1. Traites[s] = Traite(clients[s])
          BY <3>1 DEF Traites
      <4>2. Traite(clients[s]).output # <<>>
          BY <3>1, Occupee, TraiteOK
      <4> QED
          BY <2>2, <4>1, <4>2
    <3>2. CASE ~ATraiter(clients[s])
      <4>1. Traites[s] = clients[s]
          BY <3>2 DEF Traites
      <4> QED
          BY <2>2, <3>2, <4>1 DEF ATraiter
    <3> QED
        BY <3>1, <3>2
  <2> QED
      BY <2>1, <2>2 DEF NoLineForgotten
<1>3. CASE \E c \in Clients : \/ ClientConnecte(c) \/ ClientEcrit(c) \/ ClientFinit(c)
                              \/ ClientPart(c)
  <2>1. UNCHANGED <<clients, pc>>
      BY <1>3 DEF ClientConnecte, ClientEcrit, ClientFinit, ClientPart
  <2> QED
      BY <2>1 DEF NoLineForgotten
<1>4. CASE TourSeul
  <2>1. UNCHANGED clients
      BY <1>4, TypeTour
  <2>2. CASE Arreter
      BY <2>1, <2>2 DEF Arreter, NoLineForgotten
  <2>3. CASE ~Arreter
    <3>1. pc' # "poll"
        BY <1>4, <2>3 DEF TourSeul, FinTick, Interrompu, FinAccepter, AccepterEchoue,
                          FinServir, Poll
    <3> QED
        BY <3>1 DEF NoLineForgotten
  <2> QED
      BY <2>2, <2>3
<1>5. CASE Diffuser \/ Fermer
    BY <1>5 DEF Diffuser, Fermer, NoLineForgotten
<1>6. CASE \E c \in Clients : Accepter(c)
    BY <1>6 DEF Accepter, NoLineForgotten
<1>7. CASE \E s \in Places : Lire(s) \/ Ecrire(s) \/ Perdu(s)
    BY <1>7 DEF Lire, Ecrire, Perdu, AServir, Servi, NoLineForgotten
<1> QED
    BY <1>1, <1>2, <1>3, <1>4, <1>5, <1>6, <1>7, LesPas

-----------------------------------------------------------------------------
(* The lines of a client and the answers to them                           *)

\* What one client sees of the server, from the place it has.
OrdrePlace(s) ==
    EnOrdre(clients[s].input \o transit[clients[s].fd], NbRep(FluxDe(s)),
            lignes[clients[s].fd])
OrdreAttend(c) == recu[c] = <<>> /\ EnOrdre(transit[c], 0, lignes[c])

LEMMA OrdreInvDit ==
    OrdreInv <=> /\ \A s \in Places : ~Libre(s) => OrdrePlace(s)
                 /\ \A c \in Clients : etat[c] \in {"absent", "file"} => OrdreAttend(c)
BY DEF OrdreInv, OrdrePlace, OrdreAttend

LEMMA OrdreInit == Init => OrdreInv
<1> SUFFICES ASSUME Init
             PROVE  OrdreInv
    OBVIOUS
<1>1. \A s \in Places : Libre(s)
    BY VideOK DEF Init, Libre
<1>2. \A c \in Clients : OrdreAttend(c)
    BY RienEnAttente DEF Init, OrdreAttend
<1> QED
    BY <1>1, <1>2, OrdreInvDit

\* Nothing of what a client sees has changed.
LEMMA OrdreStable ==
    ASSUME OrdreInv, UNCHANGED <<clients, transit, recu, lignes>>,
           \A c \in Clients : etat'[c] \in {"absent", "file"} => etat[c] \in {"absent", "file"}
    PROVE  OrdreInv'
BY DEF OrdreInv, Libre, FluxDe

LEMMA OrdreClients ==
    ASSUME TypeInv, OrdreInv, NEW c \in Clients,
           ClientConnecte(c) \/ ClientEcrit(c) \/ ClientFinit(c) \/ ClientPart(c)
    PROVE  OrdreInv'
<1> USE DEF cote_client, tour, serveur
<1>1. CASE ClientConnecte(c)
  <2>1. \A d \in Clients : etat'[d] \in {"absent", "file"} => etat[d] \in {"absent", "file"}
      BY <1>1 DEF ClientConnecte, TypeInv
  <2>2. UNCHANGED <<clients, transit, recu, lignes>>
      BY <1>1 DEF ClientConnecte
  <2> QED
      BY <2>1, <2>2, OrdreStable
<1>2. CASE ClientFinit(c) \/ ClientPart(c)
  <2>1. UNCHANGED <<clients, transit, recu, lignes, etat>>
      BY <1>2 DEF ClientFinit, ClientPart
  <2> QED
      BY <2>1, OrdreStable
<1>3. CASE ClientEcrit(c)
  <2>1. PICK n \in Longueurs, o \in Ordres :
           /\ lignes' = [lignes EXCEPT ![c] = Append(@, o)]
           /\ transit' = [transit EXCEPT ![c] = @ \o Ligne(n, o, Len(lignes[c]) + 1)]
      BY <1>3 DEF ClientEcrit
  <2> DEFINE li == Ligne(n, o, Len(lignes[c]) + 1)
  <2>2. UNCHANGED <<clients, recu, etat>>
      BY <1>3 DEF ClientEcrit
  <2>3. /\ lignes[c] \in Seq(Ordres) /\ transit[c] \in Seq(Element) /\ n \in Nat
        /\ Len(lignes[c]) + 1 \in Nat
      BY LenProperties, IpcAssumption DEF TypeInv
  <2>4. /\ lignes'[c] = Append(lignes[c], o) /\ transit'[c] = transit[c] \o li
        /\ \A d \in Clients : d # c => lignes'[d] = lignes[d] /\ transit'[d] = transit[d]
    <3> HIDE DEF li
    <3> QED
        BY <2>1 DEF TypeInv, li
  <2>5. li \in Seq(Element)
    <3> DEFINE id == Len(lignes[c]) + 1
    <3>1. id \in Nat
        BY <2>3
    <3> HIDE DEF id
    <3>2. Ligne(n, o, id) \in Seq(Element)
        BY <2>3, <3>1, UneLigne
    <3> QED
        BY <3>2 DEF id
  <2>6. ASSUME NEW s \in Places, ~Libre(s)
        PROVE  OrdrePlace(s)'
    <3>1. OrdrePlace(s) /\ clients'[s] = clients[s] /\ FluxDe(s)' = FluxDe(s)
        BY <2>2, <2>6, OrdreInvDit DEF FluxDe
    <3> DEFINE d == clients[s].fd
               b == clients[s].input
               r == NbRep(FluxDe(s))
    <3>2. d \in Clients /\ b \in Seq(Element)
        BY <2>6, Occupee DEF Libre, Place
    <3>3. CASE d = c
      <4>1. EnOrdre(b \o transit[c], r, lignes[c])
          BY <3>1, <3>3 DEF OrdrePlace
      <4>2. b \o transit[c] \in Seq(Element)
        <5> HIDE DEF b
        <5> QED
            BY <2>3, <3>2, ConcatProperties
      <4>3. EnOrdre((b \o transit[c]) \o li, r, Append(lignes[c], o))
        <5> HIDE DEF b, r
        <5> QED
            BY <2>3, <4>1, <4>2, OrdreEcrit
      <4>4. (b \o transit[c]) \o li = b \o (transit[c] \o li)
        <5> DEFINE w == transit[c]
        <5>1. w \in Seq(Element)
            BY <2>3
        <5> HIDE DEF b, li, w
        <5>2. (b \o w) \o li = b \o (w \o li)
            BY <2>5, <3>2, <5>1, ConcatAssociative
        <5> QED
            BY <5>2 DEF w
      <4>5. EnOrdre(b \o transit'[c], r, lignes'[c])
        <5> HIDE DEF b, r, li
        <5> QED
            BY <2>4, <4>3, <4>4
      <4>6. NbRep(FluxDe(s)') = r
          BY <3>1
      <4> QED
        <5> HIDE DEF li
        <5> QED
            BY <3>1, <3>3, <4>5, <4>6 DEF OrdrePlace
    <3>4. CASE d # c
      <4>1. lignes'[d] = lignes[d] /\ transit'[d] = transit[d]
        <5> HIDE DEF d, li
        <5> QED
            BY <2>4, <3>2, <3>4
      <4> QED
          BY <3>1, <4>1 DEF OrdrePlace
    <3> QED
        BY <3>3, <3>4
  <2>7. ASSUME NEW d \in Clients, etat[d] \in {"absent", "file"}
        PROVE  OrdreAttend(d)'
    <3>1. recu[d] = <<>> /\ recu'[d] = recu[d] /\ EnOrdre(transit[d], 0, lignes[d])
        BY <2>2, <2>7, OrdreInvDit DEF OrdreAttend
    <3>2. CASE d = c
      <4>1. EnOrdre(transit[c] \o li, 0, Append(lignes[c], o))
          BY <2>3, <3>1, <3>2, OrdreEcrit
      <4> HIDE DEF li
      <4> QED
          BY <2>4, <3>1, <3>2, <4>1 DEF OrdreAttend
    <3>3. CASE d # c
      <4> HIDE DEF li
      <4> QED
          BY <2>4, <3>1, <3>3 DEF OrdreAttend
    <3> QED
        BY <3>2, <3>3
  <2> QED
    <3>1. \A s \in Places : ~Libre(s)' => ~Libre(s)
        BY <2>2 DEF Libre
    <3> QED
        BY <2>2, <2>6, <2>7, <3>1 DEF OrdreInv, OrdrePlace, OrdreAttend
<1> QED
    BY <1>1, <1>2, <1>3

\* A place that has kept its connection and its input, and whose flow goes on.
LEMMA FluxSuit ==
    ASSUME TypeInv, NEW s \in Places, NEW n \in Place, PlaceOK(n), n.fd = clients[s].fd,
           n.fd \in Clients, NEW m \in Entete,
           Reste(n) = Reste(clients[s]) \o Promesse!Message(m)
    PROVE  /\ recu[n.fd] \o Reste(n) = FluxDe(s) \o Promesse!Message(m)
           /\ FluxDe(s) \in Seq(Piece)
<1> DEFINE r == recu[n.fd]
           x == Reste(clients[s])
           y == Promesse!Message(m)
<1>1. r \in Seq(Piece) /\ x \in Seq(Piece) /\ y \in Seq(Piece)
    BY Occupee, ResteOK, DeuxMorceaux DEF TypeInv
<1>2. FluxDe(s) = r \o x
    BY DEF FluxDe
<1>3. Reste(n) = x \o y
    OBVIOUS
<1> HIDE DEF r, x, y
<1>4. r \o x \in Seq(Piece) /\ (r \o x) \o y = r \o (x \o y)
    BY <1>1, ConcatProperties, ConcatAssociative
<1> QED
    BY <1>2, <1>3, <1>4 DEF r, y

LEMMA OrdreDiffuser ==
    ASSUME TypeInv, OrdreInv, Diffuser
    PROVE  OrdreInv'
<1>1. /\ clients' = Avertis /\ UNCHANGED <<transit, recu, lignes>>
      /\ \A c \in Clients : etat'[c] \in {"absent", "file"} => etat[c] \in {"absent", "file"}
    BY DEF Diffuser, Avertis, Poser, cote_client
<1> DEFINE m == Promesse!Evenement(evenements + 1)
<1>2. m \in Entete /\ m.pour = {}
  <2>1. evenements + 1 \in Nat
      BY IpcAssumption DEF TypeInv
  <2> QED
      BY <2>1, Entetes
<1>3. ASSUME NEW s \in Places, ~Libre(s)'
      PROVE  OrdrePlace(s)'
  <2>1. clients'[s] = Avertis[s] /\ Avertis[s].fd # Aucun
      BY <1>1, <1>3 DEF Libre
  <2>2. clients[s] \in Place /\ PlaceOK(clients[s])
      BY Occupee
  <2>3. CASE clients[s].subscribed
    <3> DEFINE n == Ajouter(clients[s], m)
    <3>1. clients'[s] = n
        BY <2>1, <2>3 DEF Avertis
    <3>2. clients[s].fd # Aucun /\ clients[s].fd \in Clients
        BY <2>3, Occupee
    <3>3. n # Vide
        BY <2>1, <3>1, VideOK
    <3> HIDE DEF m
    <3>4. /\ n \in Place /\ PlaceOK(n) /\ n.fd = clients[s].fd /\ n.input = clients[s].input
          /\ Reste(n) = Reste(clients[s]) \o Promesse!Message(m)
        BY <1>2, <2>2, <3>2, <3>3, AjouterOK
    <3> HIDE DEF n
    <3>5. /\ recu[n.fd] \o Reste(n) = FluxDe(s) \o Promesse!Message(m)
          /\ FluxDe(s) \in Seq(Piece)
        BY <1>2, <3>2, <3>4, FluxSuit
    <3>6. NbRep(recu[n.fd] \o Reste(n)) = NbRep(FluxDe(s))
        BY <1>2, <3>5, FluxMessage
    <3>7. FluxDe(s)' = recu[n.fd] \o Reste(n)
        BY <1>1, <3>1 DEF FluxDe
    <3>8. OrdrePlace(s)
        BY <3>2, OrdreInvDit DEF Libre
    <3>9. NbRep(FluxDe(s))' = NbRep(FluxDe(s))
        BY <3>6, <3>7 DEF NbRep
    <3>10. clients'[s].fd = clients[s].fd /\ clients'[s].input = clients[s].input
        BY <3>1, <3>4
    <3> QED
        BY <1>1, <3>8, <3>9, <3>10 DEF OrdrePlace
  <2>4. CASE ~clients[s].subscribed
    <3>1. clients'[s] = clients[s]
        BY <2>1, <2>4 DEF Avertis
    <3>2. OrdrePlace(s)
        BY <2>1, <3>1, OrdreInvDit DEF Libre
    <3> QED
        BY <1>1, <3>1, <3>2 DEF OrdrePlace, FluxDe
  <2> QED
      BY <2>3, <2>4
<1>4. \A c \in Clients : etat'[c] \in {"absent", "file"} => OrdreAttend(c)'
    BY <1>1, OrdreInvDit DEF OrdreAttend
<1> QED
    BY <1>3, <1>4 DEF OrdreInv, OrdrePlace, OrdreAttend

\* Each line treated is the next one of its client, and its answer goes out with its
\* number: what process_buffered_message does to one place.
LEMMA UnTraite ==
    ASSUME TypeInv, OrdreInv, NEW s \in Places, ATraiter(clients[s])
    PROVE  LET d == clients[s].fd
               n == Traite(clients[s])
               rep == NbRep(FluxDe(s))
               m == Promesse!Reponse(d, rep + 1)
           IN  /\ d \in Clients /\ etat[d] = "ouvert" /\ rep \in Nat
               /\ n.fd = d /\ n # Vide
               /\ rep < Len(lignes[d])
               /\ n.subscribed = (clients[s].subscribed \/ lignes[d][rep + 1] = "subscribe")
               /\ recu[d] \o Reste(n) = FluxDe(s) \o Promesse!Message(m)
               /\ NbRep(recu[d] \o Reste(n)) = rep + 1
               /\ EnOrdre(n.input \o transit[d], rep + 1, lignes[d])
<1> DEFINE d == clients[s].fd
           cl == clients[s]
           b == cl.input
           i == PremiereFin(b)
           n == Traite(cl)
           rep == NbRep(FluxDe(s))
           m == Promesse!Reponse(d, rep + 1)
<1>1. /\ cl \in Place /\ PlaceOK(cl) /\ cl.fd # Aucun /\ d \in Clients /\ ATraiter(cl)
      /\ etat[d] = "ouvert"
    BY Occupee
<1>2. /\ b \in Seq(Element) /\ transit[d] \in Seq(Element) /\ lignes[d] \in Seq(Ordres)
      /\ ContientFin(b)
    BY <1>1 DEF Place, TypeInv, ATraiter
<1>3. EnOrdre(b \o transit[d], rep, lignes[d])
    BY <1>1, OrdreInvDit DEF OrdrePlace, Libre
<1>4. /\ rep < Len(lignes[d])
      /\ b[i][1] = lignes[d][rep + 1] /\ b[i][2] = rep + 1
      /\ EnOrdre(SubSeq(b, i + 1, Len(b)) \o transit[d], rep + 1, lignes[d])
  <2> HIDE DEF b, d, rep
  <2> QED
      BY <1>2, <1>3, OrdreTraite
<1>5. /\ n \in Place /\ PlaceOK(n) /\ n.fd = d
      /\ n.subscribed = (cl.subscribed \/ b[i][1] = "subscribe")
      /\ n.input = SubSeq(b, i + 1, Len(b))
      /\ Reste(n) = Reste(cl) \o Promesse!Message(Promesse!Reponse(d, b[i][2]))
  <2>1. d = cl.fd
      OBVIOUS
  <2> HIDE DEF cl, d
  <2> QED
      BY <1>1, <2>1, TraiteOK
<1>6. recu[d] \o Reste(cl) \in Seq(Piece)
  <2> DEFINE x == recu[d]
             y == Reste(cl)
  <2>1. x \in Seq(Piece) /\ y \in Seq(Piece)
      BY <1>1, ResteOK DEF TypeInv
  <2> HIDE DEF x, y
  <2>2. x \o y \in Seq(Piece)
      BY <2>1, ConcatProperties
  <2> QED
      BY <2>2 DEF x, y
<1>7. FluxDe(s) \in Seq(Piece)
    BY <1>6 DEF FluxDe
<1> HIDE DEF m, n, i
<1>8. rep \in Nat
  <2>1. Promesse!Evenement(0) \in Entete
      BY Entetes
  <2> QED
      BY <1>7, <2>1, FluxMessage
<1>9. m \in Entete /\ m.pour # {}
  <2>1. rep + 1 \in Nat
      BY <1>8
  <2> HIDE DEF d, rep
  <2> QED
      BY <1>1, <2>1, Entetes DEF m
<1>10. Reste(n) = Reste(cl) \o Promesse!Message(m)
    BY <1>4, <1>5 DEF m
<1>11. recu[d] \o Reste(n) = FluxDe(s) \o Promesse!Message(m)
  <2>1. recu[n.fd] \o Reste(n) = FluxDe(s) \o Promesse!Message(m)
      BY <1>1, <1>5, <1>9, <1>10, FluxSuit
  <2> QED
      BY <1>5, <2>1
<1>12. NbRep(recu[d] \o Reste(n)) = rep + 1
    BY <1>7, <1>9, <1>11, FluxMessage
<1>13. n # Vide
    BY <1>1, <1>5, VideOK
<1>14. n.subscribed = (cl.subscribed \/ lignes[d][rep + 1] = "subscribe")
    BY <1>4, <1>5
<1>15. EnOrdre(n.input \o transit[d], rep + 1, lignes[d])
    BY <1>4, <1>5
<1> QED
    BY <1>1, <1>4, <1>5, <1>8, <1>11, <1>12, <1>13, <1>14, <1>15 DEF m, n

LEMMA OrdreTraiter ==
    ASSUME TypeInv, OrdreInv, Traiter
    PROVE  OrdreInv'
<1>1. /\ clients' = Traites /\ UNCHANGED <<transit, recu, lignes>>
      /\ \A c \in Clients : etat'[c] \in {"absent", "file"} => etat[c] \in {"absent", "file"}
    BY DEF Traiter, Traites, Poser, cote_client
<1>2. ASSUME NEW s \in Places, ~Libre(s)'
      PROVE  OrdrePlace(s)'
  <2>1. clients'[s] = Traites[s] /\ Traites[s].fd # Aucun
      BY <1>1, <1>2 DEF Libre
  <2>2. CASE ATraiter(clients[s])
    <3> DEFINE n == Traite(clients[s])
               d == clients[s].fd
    <3>1. clients'[s] = n
        BY <2>1, <2>2 DEF Traites
    <3>2. /\ n.fd = d /\ NbRep(recu[d] \o Reste(n)) = NbRep(FluxDe(s)) + 1
          /\ EnOrdre(n.input \o transit[d], NbRep(FluxDe(s)) + 1, lignes[d])
        BY <2>2, UnTraite
    <3> HIDE DEF n, d
    <3>3. FluxDe(s)' = recu[d] \o Reste(n)
        BY <1>1, <3>1, <3>2 DEF FluxDe
    <3>4. NbRep(FluxDe(s))' = NbRep(recu[d] \o Reste(n))
        BY <3>3 DEF NbRep
    <3> QED
        BY <1>1, <3>1, <3>2, <3>4 DEF OrdrePlace
  <2>3. CASE ~ATraiter(clients[s])
    <3>1. clients'[s] = clients[s]
        BY <2>1, <2>3 DEF Traites
    <3>2. OrdrePlace(s)
        BY <2>1, <3>1, OrdreInvDit DEF Libre
    <3> QED
        BY <1>1, <3>1, <3>2 DEF OrdrePlace, FluxDe
  <2> QED
      BY <2>2, <2>3
<1>3. \A c \in Clients : etat'[c] \in {"absent", "file"} => OrdreAttend(c)'
    BY <1>1, OrdreInvDit DEF OrdreAttend
<1> QED
    BY <1>2, <1>3 DEF OrdreInv, OrdrePlace, OrdreAttend

LEMMA OrdreFermer ==
    ASSUME TypeInv, OrdreInv, Fermer
    PROVE  OrdreInv'
<1>1. \A s \in Places : Libre(s)'
    BY VideOK DEF Fermer, Libre
<1>2. /\ UNCHANGED <<transit, recu, lignes>>
      /\ \A c \in Clients : etat'[c] \in {"absent", "file"} => etat[c] \in {"absent", "file"}
    BY DEF Fermer, cote_client
<1> QED
    BY <1>1, <1>2 DEF OrdreInv

\* A new client: its place is empty, and what it has sent already waits for it.
LEMMA OrdreAccepter ==
    ASSUME TypeInv, OrdreInv, NEW c \in Clients, Accepter(c)
    PROVE  OrdreInv'
<1>1. etat[c] = "file" /\ UNCHANGED <<transit, recu, lignes>>
    BY DEF Accepter, cote_client
<1>2. CASE \E s \in Places : Libre(s)
  <2>1. /\ clients' = [clients EXCEPT ![PremiereLibre].fd = c]
        /\ etat' = [etat EXCEPT ![c] = "ouvert"]
      BY <1>2 DEF Accepter, PremiereLibre
  <2>2. PICK s \in Places : s = PremiereLibre /\ clients[s].fd = Aucun
      BY <1>2, PremiereLibreTrouvee DEF Libre
  <2>3. clients[s] = Vide /\ clients[s] \in Place
      BY <2>2, Occupee DEF PlaceOK
  <2>4. /\ clients'[s] = [Vide EXCEPT !.fd = c]
        /\ \A t \in Places : t # s => clients'[t] = clients[t]
      BY <2>1, <2>2, <2>3 DEF TypeInv
  <2>5. /\ clients'[s].fd = c /\ clients'[s].input = Vide.input
        /\ clients'[s].output = Vide.output
        /\ clients'[s].output_offset = Vide.output_offset
      BY <2>4 DEF Vide
  <2>6. OrdreAttend(c)
      BY <1>1, OrdreInvDit
  <2>7. Reste(Vide) = <<>>
    <3>1. Vide \in Place
        BY <2>3
    <3> QED
        BY <3>1, VideOK, ResteOK
  <2>8. Reste(clients'[s]) = <<>>
      BY <2>5, <2>7 DEF Reste
  <2>9. FluxDe(s)' = <<>> /\ clients'[s].input = <<>>
    <3>1. recu'[clients'[s].fd] = <<>>
        BY <1>1, <2>5, <2>6 DEF OrdreAttend
    <3>2. <<>> \o <<>> = <<>>
        BY EmptySeq, ConcatEmptySeq
    <3> QED
        BY <2>5, <2>8, <3>1, <3>2, VideOK DEF FluxDe
  <2>10. OrdrePlace(s)'
    <3>1. transit[c] \in Seq(Element)
        BY DEF TypeInv
    <3>2. <<>> \o transit[c] = transit[c]
        BY <3>1, ConcatEmptySeq
    <3>3. NbRep(FluxDe(s))' = 0
        BY <2>9, AucuneReponse DEF NbRep
    <3> QED
        BY <1>1, <2>5, <2>6, <2>9, <3>2, <3>3 DEF OrdrePlace, OrdreAttend
  <2>11. ASSUME NEW t \in Places, ~Libre(t)'
         PROVE  OrdrePlace(t)'
    <3>1. CASE t = s
        BY <2>10, <3>1
    <3>2. CASE t # s
      <4>1. clients'[t] = clients[t]
          BY <2>4, <3>2
      <4>2. OrdrePlace(t)
          BY <2>11, <4>1, OrdreInvDit DEF Libre
      <4> QED
          BY <1>1, <4>1, <4>2 DEF OrdrePlace, FluxDe
    <3> QED
        BY <3>1, <3>2
  <2>12. \A d \in Clients : etat'[d] \in {"absent", "file"} => OrdreAttend(d)'
      BY <1>1, <2>1, OrdreInvDit DEF OrdreAttend, TypeInv
  <2> QED
      BY <2>11, <2>12 DEF OrdreInv, OrdrePlace, OrdreAttend
<1>3. CASE ~\E s \in Places : Libre(s)
  <2>1. etat' = [etat EXCEPT ![c] = "clos"] /\ UNCHANGED clients
      BY <1>3 DEF Accepter
  <2>2. \A d \in Clients : etat'[d] \in {"absent", "file"} => etat[d] \in {"absent", "file"}
      BY <2>1 DEF TypeInv
  <2> QED
      BY <1>1, <2>1, <2>2, OrdreStable
<1> QED
    BY <1>2, <1>3

\* Serving one place changes nothing of what the others see.
LEMMA AutresPlaces ==
    ASSUME TypeInv, ServirInv, NEW s \in Places, Lire(s) \/ Ecrire(s) \/ Perdu(s)
    PROVE  /\ ~Libre(s) /\ clients[s].fd \in Clients /\ UNCHANGED lignes
           /\ \A t \in Places : t # s => clients'[t] = clients[t]
           /\ \A t \in Places : t # s => clients[t].fd # clients[s].fd
           /\ \A d \in Clients : d # clients[s].fd => /\ transit'[d] = transit[d]
                                                      /\ recu'[d] = recu[d]
           /\ \A c \in Clients : etat'[c] \in {"absent", "file"} =>
                                    etat[c] \in {"absent", "file"} /\ c # clients[s].fd
<1>1. ~Libre(s)
    BY DEF Lire, Ecrire, Perdu, AServir, ServirInv
<1>2. clients[s].fd \in Clients /\ etat[clients[s].fd] = "ouvert"
    BY <1>1, Occupee DEF Libre
<1>3. \A t \in Places : t # s => clients[t].fd # clients[s].fd
    BY <1>1 DEF TypeInv, Distinctes, Libre
<1>4. CASE Perdu(s) \/ (Lire(s) /\ ARaccrocher(s))
  <2>1. UNCHANGED <<transit, recu, lignes>> /\ Poser([clients EXCEPT ![s] = Vide])
      BY <1>4 DEF Perdu, Lire, ARaccrocher, cote_client
  <2>2. \A c \in Clients : etat'[c] \in {"absent", "file"} => etat[c] \in {"absent", "file"}
      BY <2>1 DEF Poser
  <2>3. \A t \in Places : t # s => clients'[t] = clients[t]
      BY <2>1 DEF Poser, TypeInv
  <2> QED
      BY <1>1, <1>2, <1>3, <2>1, <2>2, <2>3
<1>5. CASE Lire(s) /\ ~ARaccrocher(s)
  <2>1. UNCHANGED <<etat, recu, lignes>>
      BY <1>5 DEF Lire, cote_client
  <2>2. /\ \A t \in Places : t # s => clients'[t] = clients[t]
        /\ \A d \in Clients : d # clients[s].fd => transit'[d] = transit[d]
      BY <1>5 DEF Lire, TypeInv
  <2> QED
      BY <1>1, <1>2, <1>3, <2>1, <2>2
<1>6. CASE Ecrire(s)
  <2>1. UNCHANGED <<etat, transit, lignes>>
      BY <1>6 DEF Ecrire, cote_client
  <2>2. /\ \A t \in Places : t # s => clients'[t] = clients[t]
        /\ \A d \in Clients : d # clients[s].fd => recu'[d] = recu[d]
      BY <1>6 DEF Ecrire, TypeInv
  <2> QED
      BY <1>1, <1>2, <1>3, <2>1, <2>2
<1> QED
    BY <1>4, <1>5, <1>6

\* read_client: the client is closed, or its bytes pass from the socket to the buffer.
LEMMA LirePlace ==
    ASSUME TypeInv, ServirInv, NEW s \in Places, Lire(s)
    PROVE  \/ /\ ARaccrocher(s)
              /\ Len(clients[s].input) >= MessageMax \/ transit[clients[s].fd] = <<>>
           \/ /\ UNCHANGED <<etat, recu>> /\ clients'[s].fd = clients[s].fd
              /\ clients'[s].subscribed = clients[s].subscribed
              /\ Reste(clients'[s]) = Reste(clients[s])
              /\ clients'[s].input \o transit'[clients[s].fd]
                    = clients[s].input \o transit[clients[s].fd]
<1> DEFINE cl == clients[s]
           b == cl.input
           t == transit[cl.fd]
<1>1. PICK n : n = Plus_petit(Plus_petit(ReadSize, Place_libre(cl)), Len(t))
    OBVIOUS
<1>2. ~Libre(s) /\ AServir(s) /\ cl.output = <<>> /\ cl.fd \in Clients
    BY AutresPlaces DEF Lire
<1>3. CASE Len(b) >= MessageMax \/ t = <<>>
    BY <1>3 DEF Lire
<1>4. CASE ~(Len(b) >= MessageMax \/ t = <<>>)
  <2> DEFINE x == b \o SubSeq(t, 1, n)
             p == [cl EXCEPT !.input = x]
             y == SubSeq(t, n + 1, Len(t))
  <2>1. /\ clients' = [clients EXCEPT ![s].input = @ \o SubSeq(t, 1, n)]
        /\ transit' = [transit EXCEPT ![cl.fd] = SubSeq(@, n + 1, Len(@))]
        /\ UNCHANGED <<etat, recu>>
      BY <1>1, <1>4 DEF Lire
  <2>2. n \in 1..Len(t) /\ Len(x) <= MessageMax /\ x \in Seq(Element)
      BY <1>1, <1>2, <1>4, LuOK
  <2>3. b \in Seq(Element) /\ t \in Seq(Element)
      BY <1>2, Occupee DEF Place, TypeInv
  <2>4. clients'[s] = p
      BY <2>1 DEF TypeInv
  <2>5. transit'[cl.fd] = y
      BY <1>2, <2>1 DEF TypeInv
  <2>6. n \in 0..Len(t)
      BY <2>2, <2>3, LenProperties
  <2>7. x \o y = b \o t
    <3> HIDE DEF b, t
    <3> QED
        BY <2>3, <2>6, MorceauLu
  <2>8. cl \in Place /\ PlaceOK(cl) /\ cl.fd # Aucun
      BY <1>2, Occupee DEF Libre
  <2>9. /\ p.input = x /\ p.fd = cl.fd /\ p.subscribed = cl.subscribed
        /\ Reste(p) = Reste(cl)
    <3> HIDE DEF x, cl
    <3> QED
        BY <2>2, <2>8, TamponOK
  <2> HIDE DEF p, x, y, t, b
  <2>10. clients'[s].input \o transit'[cl.fd] = b \o t
      BY <2>4, <2>5, <2>7, <2>9
  <2>11. /\ UNCHANGED <<etat, recu>> /\ clients'[s].fd = cl.fd
         /\ clients'[s].subscribed = cl.subscribed /\ Reste(clients'[s]) = Reste(cl)
      BY <2>1, <2>4, <2>9
  <2> QED
      BY <2>10, <2>11 DEF b, t
<1> QED
    BY <1>3, <1>4

\* write_client: what the client has received grows by what leaves its place.
LEMMA EcrirePlace ==
    ASSUME TypeInv, ServirInv, NEW s \in Places, Ecrire(s)
    PROVE  /\ UNCHANGED <<etat, transit>> /\ clients'[s].fd = clients[s].fd
           /\ clients'[s].subscribed = clients[s].subscribed
           /\ clients'[s].input = clients[s].input
           /\ FluxDe(s)' = FluxDe(s)
<1> DEFINE cl == clients[s]
           r == recu[cl.fd]
<1>1. ~Libre(s) /\ cl.fd \in Clients
    BY AutresPlaces
<1>2. cl \in Place /\ PlaceOK(cl) /\ cl.output # <<>>
    BY Occupee DEF Ecrire
<1>3. UNCHANGED <<etat, transit>>
    BY DEF Ecrire
<1>4. PICK k \in 1..Len(Reste(cl)) :
         /\ recu' = [recu EXCEPT ![cl.fd] = @ \o SubSeq(Reste(cl), 1, k)]
         /\ clients' = [clients EXCEPT ![s] = Envoye(@, k)]
    BY DEF Ecrire
<1> DEFINE n == Envoye(cl, k)
           x == SubSeq(Reste(cl), 1, k)
<1>5. /\ n.fd = cl.fd /\ n.subscribed = cl.subscribed /\ n.input = cl.input
      /\ x \in Seq(Piece) /\ Reste(n) \in Seq(Piece) /\ x \o Reste(n) = Reste(cl)
  <2> HIDE DEF cl
  <2> QED
      BY <1>2, EnvoyeOK
<1>6. clients'[s] = n
    BY <1>4 DEF TypeInv
<1>7. recu'[cl.fd] = r \o x
  <2> HIDE DEF x
  <2>1. recu' = [recu EXCEPT ![cl.fd] = @ \o x]
      BY <1>4 DEF x
  <2> QED
      BY <1>1, <2>1 DEF TypeInv
<1>8. r \in Seq(Piece)
    BY <1>1 DEF TypeInv
<1>9. (r \o x) \o Reste(n) = r \o (x \o Reste(n))
  <2> DEFINE z == Reste(n)
  <2>1. z \in Seq(Piece) /\ x \in Seq(Piece)
      BY <1>5
  <2> HIDE DEF x, r, z
  <2>2. (r \o x) \o z = r \o (x \o z)
      BY <1>8, <2>1, ConcatAssociative
  <2> QED
      BY <2>2 DEF z
<1> HIDE DEF n, x
<1>10. recu'[n.fd] \o Reste(n) = recu[cl.fd] \o Reste(cl)
    BY <1>5, <1>7, <1>9
<1>11. FluxDe(s)' = FluxDe(s)
    BY <1>6, <1>10 DEF FluxDe
<1> QED
    BY <1>3, <1>5, <1>6, <1>11

LEMMA OrdreServir ==
    ASSUME TypeInv, ServirInv, OrdreInv, NEW s \in Places, Lire(s) \/ Ecrire(s) \/ Perdu(s)
    PROVE  OrdreInv'
<1>1. /\ ~Libre(s) /\ clients[s].fd \in Clients /\ UNCHANGED lignes
      /\ \A t \in Places : t # s => clients'[t] = clients[t]
      /\ \A t \in Places : t # s => clients[t].fd # clients[s].fd
      /\ \A d \in Clients : d # clients[s].fd => transit'[d] = transit[d] /\ recu'[d] = recu[d]
      /\ \A c \in Clients : etat'[c] \in {"absent", "file"} =>
                               etat[c] \in {"absent", "file"} /\ c # clients[s].fd
    BY AutresPlaces
<1>2. ASSUME NEW c \in Clients, etat'[c] \in {"absent", "file"}
      PROVE  OrdreAttend(c)'
  <2>1. OrdreAttend(c) /\ c # clients[s].fd
      BY <1>1, <1>2, OrdreInvDit
  <2>2. transit'[c] = transit[c] /\ recu'[c] = recu[c] /\ lignes' = lignes
      BY <1>1, <2>1
  <2> QED
      BY <2>1, <2>2 DEF OrdreAttend
<1>3. ASSUME NEW t \in Places, t # s, ~Libre(t)'
      PROVE  OrdrePlace(t)'
  <2>1. clients'[t] = clients[t] /\ clients[t].fd # clients[s].fd
      BY <1>1, <1>3
  <2>2. ~Libre(t)
      BY <1>3, <2>1 DEF Libre
  <2>3. OrdrePlace(t) /\ clients[t].fd \in Clients
      BY <2>2, Occupee, OrdreInvDit DEF Libre
  <2>4. transit'[clients[t].fd] = transit[clients[t].fd]
        /\ recu'[clients[t].fd] = recu[clients[t].fd] /\ lignes' = lignes
      BY <1>1, <2>1, <2>3
  <2> QED
      BY <2>1, <2>3, <2>4 DEF OrdrePlace, FluxDe
<1>4. ASSUME ~Libre(s)'
      PROVE  OrdrePlace(s)'
  <2>1. OrdrePlace(s)
      BY <1>1, OrdreInvDit
  <2>2. ~ARaccrocher(s)
      BY <1>4, VideOK DEF ARaccrocher, Poser, Libre, TypeInv
  <2>3. CASE Lire(s)
    <3>1. /\ recu' = recu /\ clients'[s].fd = clients[s].fd
          /\ Reste(clients'[s]) = Reste(clients[s])
          /\ clients'[s].input \o transit'[clients[s].fd]
                = clients[s].input \o transit[clients[s].fd]
        BY <2>2, <2>3, LirePlace
    <3>2. FluxDe(s)' = FluxDe(s)
        BY <3>1 DEF FluxDe
    <3>3. NbRep(FluxDe(s))' = NbRep(FluxDe(s))
        BY <3>2 DEF NbRep
    <3> QED
        BY <1>1, <2>1, <3>1, <3>3 DEF OrdrePlace
  <2>4. CASE Ecrire(s)
    <3>1. /\ transit' = transit /\ clients'[s].fd = clients[s].fd
          /\ clients'[s].input = clients[s].input /\ FluxDe(s)' = FluxDe(s)
        BY <2>4, EcrirePlace
    <3>2. NbRep(FluxDe(s))' = NbRep(FluxDe(s))
        BY <3>1 DEF NbRep
    <3> QED
        BY <1>1, <2>1, <3>1, <3>2 DEF OrdrePlace
  <2> QED
      BY <2>2, <2>3, <2>4 DEF Perdu
<1> QED
    BY <1>2, <1>3, <1>4 DEF OrdreInv, OrdrePlace, OrdreAttend

LEMMA OrdreNext ==
    ASSUME TypeInv, ServirInv, OrdreInv, [Next]_vars
    PROVE  OrdreInv'
<1>1. CASE UNCHANGED vars
    BY <1>1, OrdreStable DEF vars, cote_client
<1>2. CASE TourSeul
    BY <1>2, TypeTour, OrdreStable DEF cote_client
<1>3. CASE Next
    BY <1>2, <1>3, LesPas, OrdreClients, OrdreDiffuser, OrdreTraiter, OrdreFermer,
       OrdreAccepter, OrdreServir
<1> QED
    BY <1>1, <1>3

-----------------------------------------------------------------------------
(* The invariants                                                          *)

LEMMA TypeInvDit == TypeInv => TypeOK
<1> SUFFICES ASSUME TypeInv
             PROVE  TypeOK
    OBVIOUS
<1>1. \A s \in Places : /\ clients[s].fd \in Clients \union {Aucun}
                        /\ Libre(s) => clients[s] = Vide
                        /\ Len(clients[s].input) <= MessageMax
                        /\ Len(clients[s].output) <= PendingMax
                        /\ clients[s].output # <<>> =>
                              clients[s].output_offset < Len(clients[s].output)
    BY Occupee DEF PlaceOK, Place, Libre
<1> QED
    BY <1>1 DEF TypeInv, TypeOK, Distinctes, Ouvertes, Libre

LEMMA Inductif ==
    /\ Init => IInv
    /\ IInv /\ [Next]_vars => IInv'
<1>1. Init => NoLineForgotten /\ ServirInv
    BY DEF Init, NoLineForgotten, ServirInv
<1> QED
    BY <1>1, TypeInit, OrdreInit, TypeNext, OrdreNext, ServirNext, LignesNext DEF IInv

LEMMA InvariantInductif == Spec => []IInv
BY Inductif, PTL DEF Spec

\* The values of the variables, the limits of the buffers and the table of clients:
\* no queue exceeds its limit and two places never hold the same connection.
THEOREM TypeCorrect == Spec => []TypeOK
<1>1. IInv => TypeOK
    BY TypeInvDit DEF IInv
<1> QED
    BY <1>1, InvariantInductif, PTL

\* The server never goes to sleep in poll on a line it could treat.
THEOREM NoLineForgottenHolds == Spec => []NoLineForgotten
<1>1. IInv => NoLineForgotten
    BY DEF IInv
<1> QED
    BY <1>1, InvariantInductif, PTL

-----------------------------------------------------------------------------
(* Closing a client                                                        *)

\* The place of an open connection.
LEMMA AUnePlace ==
    ASSUME TypeInv, NEW c \in Clients, etat[c] = "ouvert"
    PROVE  \E s \in Places : clients[s].fd = c /\ ~Libre(s) /\ PlaceDe(c) = s
<1>1. c \in Fds(clients)
    BY DEF TypeInv, Ouvertes
<1>2. PICK s \in Places : clients[s].fd = c /\ c # Aucun
    BY <1>1 DEF Fds
<1>3. ~Libre(s) /\ PlaceDe(clients[s].fd) = s
    BY <1>2, Occupee DEF Libre
<1> QED
    BY <1>2, <1>3

\* An open client has the flow of its place, another one what it has received.
LEMMA FluxVaut ==
    ASSUME TypeInv
    PROVE  /\ \A c \in Clients, s \in Places :
                 clients[s].fd = c => etat[c] = "ouvert" /\ Flux(c) = FluxDe(s)
           /\ \A c \in Clients : etat[c] # "ouvert" => Flux(c) = recu[c]
<1>1. ASSUME NEW c \in Clients, NEW s \in Places, clients[s].fd = c
      PROVE  etat[c] = "ouvert" /\ Flux(c) = FluxDe(s)
  <2>1. c # Aucun
      BY IpcAssumption
  <2>2. etat[c] = "ouvert" /\ PlaceDe(c) = s
      BY <1>1, <2>1, Occupee
  <2> QED
      BY <1>1, <2>2 DEF Flux, FluxDe
<1>2. \A c \in Clients : etat[c] # "ouvert" => Flux(c) = recu[c]
    BY DEF Flux
<1> QED
    BY <1>1, <1>2

LEMMA ReponduesVaut ==
    ASSUME NEW c \in Clients
    PROVE  Promesse!Repondues(c) = NbRep(Flux(c))
<1>1. [d \in Clients |-> Flux(d)][c] = Flux(c)
    OBVIOUS
<1> QED
    BY <1>1 DEF Promesse!Repondues, NbRep, Promesse!Cardinality, Cardinality

\* A place closed by read_client while its client is there.
LEMMA CauseLire ==
    ASSUME IInv, NEW s \in Places, Lire(s), ~parti[clients[s].fd], ARaccrocher(s)
    PROVE  LET c == clients[s].fd
           IN  \/ fermee[c] /\ transit[c] = <<>> /\ clients[s].output = <<>>
                     /\ Promesse!Repondues(c) = Len(lignes[c])
               \/ LigneTropLongue(clients[s])
<1> DEFINE c == clients[s].fd
           b == clients[s].input
<1>1. TypeInv /\ OrdreInv /\ ServirInv
    BY DEF IInv
<1>2. ~Libre(s) /\ c \in Clients
    BY <1>1, AutresPlaces
<1>3. /\ pc = "servir" /\ s \in a_servir /\ clients[s].output = <<>>
    BY DEF Lire, AServir
<1>4. Lisible(c) /\ ~ContientFin(b)
    BY <1>1, <1>3 DEF ServirInv
<1>5. CASE Len(b) >= MessageMax
  <2>1. Len(b) <= MessageMax /\ b \in Seq(Element)
      BY <1>1, Occupee DEF PlaceOK, Place
  <2>2. Len(b) = MessageMax
      BY <1>5, <2>1, LenProperties, IpcAssumption
  <2> QED
      BY <1>4, <2>2 DEF LigneTropLongue
<1>6. CASE transit[c] = <<>>
  <2>1. fermee[c]
      BY <1>4, <1>6 DEF Lisible
  <2>2. EnOrdre(b \o transit[c], NbRep(FluxDe(s)), lignes[c])
      BY <1>1, <1>2, OrdreInvDit DEF OrdrePlace
  <2>3. b \in Seq(Element) /\ lignes[c] \in Seq(Ordres)
      BY <1>1, <1>2, Occupee DEF Place, TypeInv
  <2>4. b \o transit[c] = b
      BY <1>6, <2>3, ConcatEmptySeq
  <2>5. NbRep(FluxDe(s)) = Len(lignes[c])
    <3> HIDE DEF b, c
    <3> QED
        BY <1>4, <2>2, <2>3, <2>4, ToutRepondu
  <2>6. Flux(c) = FluxDe(s)
      BY <1>1, <1>2, FluxVaut
  <2>7. Promesse!Repondues(c) = NbRep(Flux(c))
      BY <1>2, ReponduesVaut
  <2> QED
      BY <1>3, <1>6, <2>1, <2>5, <2>6, <2>7
<1>7. Len(b) >= MessageMax \/ transit[c] = <<>>
  <2> SUFFICES ASSUME ~(Len(b) >= MessageMax \/ transit[c] = <<>>)
               PROVE  FALSE
      OBVIOUS
  <2>1. clients'[s].fd = c
      BY <1>1, LirePlace
  <2>2. clients'[s] = Vide
      BY <1>1 DEF ARaccrocher, Poser, TypeInv
  <2> QED
      BY <1>2, <2>1, <2>2, VideOK DEF Libre
<1> QED
    BY <1>5, <1>6, <1>7

\* One step that closes an open client that has not left, on a server that goes on.
LEMMA Cause ==
    ASSUME IInv, TypeInv', Next, NEW c \in Clients,
           etat[c] = "ouvert", etat'[c] = "clos", ~parti[c], running
    PROVE  LET cl == clients[PlaceDe(c)]
           IN  \/ fermee[c] /\ transit[c] = <<>> /\ cl.output = <<>>
                    /\ Promesse!Repondues(c) = Len(lignes[c])
               \/ LigneTropLongue(cl)
               \/ Retard(cl)
<1>1. TypeInv /\ ServirInv
    BY DEF IInv
<1>2. PICK s \in Places : clients[s].fd = c /\ ~Libre(s) /\ PlaceDe(c) = s
    BY <1>1, AUnePlace
<1>3. clients'[s].fd # c
  <2>1. c \notin Fds(clients')
      BY DEF TypeInv, Ouvertes
  <2>2. c # Aucun
      BY IpcAssumption
  <2> QED
      BY <2>1, <2>2 DEF Fds
<1>4. ~(\E d \in Clients : \/ ClientConnecte(d) \/ ClientEcrit(d) \/ ClientFinit(d)
                           \/ ClientPart(d))
    BY <1>2, <1>3 DEF ClientConnecte, ClientEcrit, ClientFinit, ClientPart, serveur
<1>5. ~TourSeul
    BY <1>1, <1>2, <1>3, TypeTour
<1>6. ~Fermer
    BY DEF Fermer
<1>7. ~\E d \in Clients : Accepter(d)
  <2> SUFFICES ASSUME NEW d \in Clients, Accepter(d)
               PROVE  FALSE
      OBVIOUS
  <2>1. etat[d] = "file" /\ d # c
      BY DEF Accepter
  <2>2. etat'[c] = etat[c]
      BY <1>1, <2>1 DEF Accepter, TypeInv
  <2> QED
      BY <2>2
<1>8. ~Traiter
  <2> SUFFICES ASSUME Traiter
               PROVE  FALSE
      OBVIOUS
  <2>1. clients' = Traites
      BY DEF Traiter, Traites, Poser
  <2> QED
      BY <1>1, <1>2, <1>3, <2>1, TraitesOK
<1>9. CASE Diffuser
  <2>1. clients'[s] = Avertis[s]
      BY <1>9 DEF Diffuser, Avertis, Poser
  <2>2. clients[s].subscribed
      BY <1>2, <1>3, <2>1 DEF Avertis
  <2>3. clients'[s] = Ajouter(clients[s], Promesse!Evenement(evenements + 1))
      BY <2>1, <2>2 DEF Avertis
  <2>4. Promesse!Evenement(evenements + 1) \in Entete
    <3>1. evenements + 1 \in Nat
        BY <1>1, IpcAssumption DEF TypeInv
    <3> QED
        BY <3>1, Entetes
  <2>5. clients[s] \in Place /\ PlaceOK(clients[s]) /\ clients[s].fd # Aucun
      BY <1>1, <1>2, Occupee DEF Libre
  <2>6. Len(clients[s].output) + 2 > PendingMax
    <3> DEFINE m == Promesse!Evenement(evenements + 1)
    <3>1. clients'[s] = Ajouter(clients[s], m) /\ m \in Entete
        BY <2>3, <2>4
    <3> HIDE DEF m
    <3> QED
        BY <1>2, <1>3, <2>5, <3>1, AjouterOK
  <2> QED
      BY <1>2, <2>2, <2>6 DEF Retard
<1>10. CASE \E t \in Places : Lire(t) \/ Ecrire(t) \/ Perdu(t)
  <2>1. PICK t \in Places : Lire(t) \/ Ecrire(t) \/ Perdu(t)
      BY <1>10
  <2>2. t = s
      BY <1>1, <1>2, <1>3, <2>1, AutresPlaces
  <2>3. ~Perdu(s)
      BY <1>2 DEF Perdu
  <2>4. ~Ecrire(s)
      BY DEF Ecrire
  <2>5. Lire(s)
      BY <2>1, <2>2, <2>3, <2>4
  <2>6. ARaccrocher(s)
      BY <1>1, <1>2, <1>3, <2>5, LirePlace
  <2> QED
      BY <1>2, <2>5, <2>6, CauseLire
<1> QED
    BY <1>4, <1>5, <1>6, <1>7, <1>8, <1>9, <1>10, LesPas

\* A server that goes on closes a client that has not left for three reasons only:
\* all its lines are answered and it has ended its sending, its line fills the
\* buffer, or it is too late for an event.
THEOREM ClosedForCauseHolds == Spec => ClosedForCause
<1> DEFINE A(c) ==
         etat[c] = "ouvert" /\ etat'[c] = "clos" /\ ~parti[c] /\ running =>
            LET cl == clients[PlaceDe(c)]
            IN  \/ fermee[c] /\ transit[c] = <<>> /\ cl.output = <<>>
                     /\ Promesse!Repondues(c) = Len(lignes[c])
                \/ LigneTropLongue(cl)
                \/ Retard(cl)
<1>1. IInv /\ IInv' /\ [Next]_vars => [\A c \in Clients : A(c)]_vars
  <2> SUFFICES ASSUME IInv, IInv', Next, NEW c \in Clients,
                      etat[c] = "ouvert", etat'[c] = "clos", ~parti[c], running
               PROVE  LET cl == clients[PlaceDe(c)]
                      IN  \/ fermee[c] /\ transit[c] = <<>> /\ cl.output = <<>>
                               /\ Promesse!Repondues(c) = Len(lignes[c])
                          \/ LigneTropLongue(cl)
                          \/ Retard(cl)
      OBVIOUS
  <2>1. TypeInv'
      BY DEF IInv
  <2> QED
      BY <2>1, Cause
<1> QED
    BY <1>1, InvariantInductif, PTL DEF Spec, ClosedForCause

-----------------------------------------------------------------------------
(* The server implements Dialogue                                          *)

\* The state of Dialogue that a state of the server stands for.
Closes(e)  == {c \in Clients : e[c] = "clos"}
Abonnes(f) == {f[s].fd : s \in {t \in Places : f[t].subscribed}}
LesFlux    == [c \in Clients |-> Flux(c)]

\* What has been sent is a beginning of the flow.
LEMMA Debut ==
    ASSUME NEW r \in Seq(Piece), NEW x \in Seq(Piece)
    PROVE  \E k \in 0..Len(r \o x) : r = SubSeq(r \o x, 1, k)
<1>1. r \o x \in Seq(Piece) /\ Len(r \o x) = Len(r) + Len(x)
      /\ Len(r) \in Nat /\ Len(x) \in Nat
    BY ConcatProperties, LenProperties
<1>2. Len(r) \in 0..Len(r \o x)
    BY <1>1
<1>3. CASE Len(r) = 0
  <2>1. r = <<>>
      BY <1>3, EmptySeq
  <2>2. SubSeq(r \o x, 1, 0) = <<>>
      BY SubSeqEmpty
  <2> QED
      BY <1>2, <1>3, <2>1, <2>2
<1>4. CASE Len(r) # 0
  <2>1. 1 \in 1..Len(r) /\ Len(r) \in 1..Len(r)
      BY <1>1, <1>4
  <2>2. SubSeq(r \o x, 1, Len(r)) = SubSeq(r, 1, Len(r))
      BY <2>1, SubSeqOfConcat1
  <2>3. SubSeq(r, 1, Len(r)) = r
      BY SubSeqFull
  <2> QED
      BY <1>2, <2>2, <2>3
<1> QED
    BY <1>3, <1>4

LEMMA FluxType ==
    ASSUME TypeInv, NEW c \in Clients
    PROVE  /\ Flux(c) \in Seq(Piece)
           /\ \E k \in 0..Len(Flux(c)) : recu[c] = SubSeq(Flux(c), 1, k)
           /\ \E k \in 0..Len(Flux(c)) : Flux(c) = SubSeq(Flux(c), 1, k)
<1>1. recu[c] \in Seq(Piece)
    BY DEF TypeInv
<1>2. \E x \in Seq(Piece) : Flux(c) = recu[c] \o x
  <2>1. CASE etat[c] = "ouvert"
    <3>1. PICK s \in Places : clients[s].fd = c
        BY <2>1, AUnePlace
    <3>2. Flux(c) = recu[c] \o Reste(clients[s])
        BY <3>1, FluxVaut DEF FluxDe
    <3>3. Reste(clients[s]) \in Seq(Piece)
        BY Occupee, ResteOK
    <3> QED
        BY <3>2, <3>3
  <2>2. CASE etat[c] # "ouvert"
    <3>1. Flux(c) = recu[c]
        BY <2>2, FluxVaut
    <3>2. recu[c] \o <<>> = recu[c]
        BY <1>1, ConcatEmptySeq
    <3> QED
        BY <3>1, <3>2, EmptySeq
  <2> QED
      BY <2>1, <2>2
<1>3. PICK x \in Seq(Piece) : Flux(c) = recu[c] \o x
    BY <1>2
<1>4. Flux(c) \in Seq(Piece)
    BY <1>1, <1>3, ConcatProperties
<1>5. \E k \in 0..Len(Flux(c)) : recu[c] = SubSeq(Flux(c), 1, k)
  <2>1. \E k \in 0..Len(recu[c] \o x) : recu[c] = SubSeq(recu[c] \o x, 1, k)
      BY <1>1, Debut
  <2> QED
      BY <1>3, <2>1
<1>6. Len(Flux(c)) \in 0..Len(Flux(c)) /\ SubSeq(Flux(c), 1, Len(Flux(c))) = Flux(c)
  <2> DEFINE f == Flux(c)
  <2>1. f \in Seq(Piece)
      BY <1>4
  <2> HIDE DEF f
  <2>2. Len(f) \in Nat /\ SubSeq(f, 1, Len(f)) = f
      BY <2>1, LenProperties, SubSeqFull
  <2>3. Len(f) \in 0..Len(f)
      BY <2>2
  <2> QED
      BY <2>2, <2>3 DEF f
<1> QED
    BY <1>4, <1>5, <1>6

\* The flows after a step.
LEMMA FluxVautApres ==
    ASSUME TypeInv'
    PROVE  /\ \A c \in Clients, s \in Places :
                 clients'[s].fd = c =>
                    Flux(c)' = recu'[c] \o Reste(clients'[s])
           /\ \A c \in Clients : etat'[c] # "ouvert" => Flux(c)' = recu'[c]
<1>1. ASSUME NEW c \in Clients, NEW s \in Places, clients'[s].fd = c
      PROVE  Flux(c)' = recu'[c] \o Reste(clients'[s])
  <2>1. c # Aucun
      BY IpcAssumption
  <2>2. etat'[c] = "ouvert"
      BY <1>1, <2>1 DEF TypeInv, Fds, Ouvertes
  <2>3. \A t \in Places : clients'[t].fd = c => t = s
      BY <1>1, <2>1 DEF TypeInv, Distinctes
  <2>4. PlaceDe(c)' = s
      BY <1>1, <2>3 DEF PlaceDe
  <2> QED
      BY <2>2, <2>4 DEF Flux
<1>2. \A c \in Clients : etat'[c] # "ouvert" => Flux(c)' = recu'[c]
    BY DEF Flux
<1> QED
    BY <1>1, <1>2

LEMMA DialogueDit ==
    /\ \A cs : Promesse!Ouvrir(cs) <=>
          /\ cs \intersect (Ouvertes(etat) \union Closes(etat)) = {}
          /\ Ouvertes(etat') = Ouvertes(etat) \union cs
          /\ Closes(etat') = Closes(etat) /\ Abonnes(clients') = Abonnes(clients)
          /\ LesFlux' = LesFlux /\ lignes' = lignes /\ evenements' = evenements
    /\ \A cs : Promesse!Clore(cs) <=>
          /\ Ouvertes(etat') = Ouvertes(etat) \ cs
          /\ Closes(etat') = Closes(etat) \union cs
          /\ Abonnes(clients') = Abonnes(clients) \ cs
          /\ \A c \in Clients :
                IF c \in cs THEN \E k \in 0..Len(Flux(c)) : Flux(c)' = SubSeq(Flux(c), 1, k)
                            ELSE Flux(c)' = Flux(c)
          /\ lignes' = lignes /\ evenements' = evenements
BY DEF Promesse!Ouvrir, Promesse!Clore, Promesse!Tronque, Ouvertes, Closes, Abonnes, LesFlux

\* Nothing that Dialogue sees changes.
LEMMA Rien ==
    ASSUME TypeInv, TypeInv',
           Ouvertes(etat') = Ouvertes(etat), Closes(etat') = Closes(etat),
           UNCHANGED <<lignes, evenements>>,
           \A c \in Clients : etat[c] # "ouvert" => recu'[c] = recu[c],
           \A s \in Places : /\ clients'[s].fd = clients[s].fd
                             /\ clients'[s].subscribed = clients[s].subscribed
                             /\ clients[s].fd # Aucun => FluxDe(s)' = FluxDe(s)
    PROVE  UNCHANGED Promesse!dialogue
<1>1. \A c \in Clients : Flux(c)' = Flux(c)
  <2> TAKE c \in Clients
  <2>1. CASE etat[c] = "ouvert"
    <3>1. PICK s \in Places : clients[s].fd = c /\ ~Libre(s)
        BY <2>1, AUnePlace
    <3>2. Flux(c) = FluxDe(s) /\ FluxDe(s)' = FluxDe(s)
        BY <3>1, FluxVaut DEF Libre
    <3>3. Flux(c)' = FluxDe(s)'
        BY <3>1, FluxVautApres DEF FluxDe
    <3> QED
        BY <3>2, <3>3
  <2>2. CASE etat[c] # "ouvert"
    <3>1. etat'[c] # "ouvert"
        BY <2>2 DEF Ouvertes
    <3> QED
        BY <2>2, <3>1, FluxVaut, FluxVautApres
  <2> QED
      BY <2>1, <2>2
<1>2. LesFlux' = LesFlux
    BY <1>1 DEF LesFlux
<1>3. Abonnes(clients') = Abonnes(clients)
    BY DEF Abonnes
<1> QED
    BY <1>2, <1>3 DEF Promesse!dialogue, Ouvertes, Closes, Abonnes, LesFlux

\* The same, when the server has not touched anything.
LEMMA RienServeur ==
    ASSUME TypeInv, TypeInv',
           Ouvertes(etat') = Ouvertes(etat), Closes(etat') = Closes(etat),
           UNCHANGED <<lignes, evenements, recu, clients>>
    PROVE  UNCHANGED Promesse!dialogue
<1>1. \A s \in Places : /\ clients'[s].fd = clients[s].fd
                        /\ clients'[s].subscribed = clients[s].subscribed
                        /\ FluxDe(s)' = FluxDe(s)
    BY DEF FluxDe
<1> QED
    BY <1>1, Rien

\* The connections that some clients lose: Clore.
LEMMA Fermees ==
    ASSUME TypeInv, TypeInv', NEW cs \in SUBSET Clients,
           Ouvertes(etat') = Ouvertes(etat) \ cs,
           Closes(etat') = Closes(etat) \union cs,
           UNCHANGED <<lignes, evenements, recu>>,
           \A s \in Places : clients[s].fd \notin cs => clients'[s] = clients[s],
           \A s \in Places : clients[s].fd \in cs => clients'[s] = Vide
    PROVE  Promesse!Clore(cs)
<1>1. ASSUME NEW c \in Clients, c \notin cs
      PROVE  Flux(c)' = Flux(c)
  <2>1. CASE etat[c] = "ouvert"
    <3>1. PICK s \in Places : clients[s].fd = c
        BY <2>1, AUnePlace
    <3>2. clients'[s] = clients[s]
        BY <1>1, <3>1
    <3>3. Flux(c) = recu[c] \o Reste(clients[s])
        BY <3>1, FluxVaut DEF FluxDe
    <3>4. Flux(c)' = recu'[c] \o Reste(clients'[s])
        BY <3>1, <3>2, FluxVautApres
    <3> QED
        BY <3>2, <3>3, <3>4
  <2>2. CASE etat[c] # "ouvert"
    <3>1. etat'[c] # "ouvert"
        BY <2>2 DEF Ouvertes
    <3> QED
        BY <2>2, <3>1, FluxVaut, FluxVautApres
  <2> QED
      BY <2>1, <2>2
<1>2. ASSUME NEW c \in cs
      PROVE  \E k \in 0..Len(Flux(c)) : Flux(c)' = SubSeq(Flux(c), 1, k)
  <2>1. c \in Clients /\ etat'[c] # "ouvert"
      BY DEF Ouvertes
  <2>2. Flux(c)' = recu[c]
      BY <2>1, FluxVautApres
  <2> QED
      BY <2>1, <2>2, FluxType
<1>3. Abonnes(clients') = Abonnes(clients) \ cs
  <2>1. ~Vide.subscribed /\ Vide.fd = Aucun
      BY DEF Vide
  <2> QED
      BY <2>1 DEF Abonnes
<1> QED
    BY <1>1, <1>2, <1>3, DialogueDit

\* A client asks for something: Demander.
LEMMA PasClients ==
    ASSUME TypeInv, TypeInv', NEW c \in Clients,
           ClientConnecte(c) \/ ClientEcrit(c) \/ ClientFinit(c) \/ ClientPart(c)
    PROVE  Promesse!Demander(c) \/ UNCHANGED Promesse!dialogue
<1> USE DEF cote_client, serveur
<1>1. CASE ClientConnecte(c)
  <2>1. /\ Ouvertes(etat') = Ouvertes(etat) /\ Closes(etat') = Closes(etat)
        /\ UNCHANGED <<lignes, evenements, recu, clients>>
      BY <1>1 DEF ClientConnecte, Ouvertes, Closes, TypeInv
  <2> QED
      BY <2>1, RienServeur
<1>2. CASE ClientFinit(c) \/ ClientPart(c)
  <2>1. UNCHANGED <<lignes, evenements, recu, clients, etat>>
      BY <1>2 DEF ClientFinit, ClientPart
  <2> QED
      BY <2>1, RienServeur
<1>3. CASE ClientEcrit(c)
  <2>1. UNCHANGED <<evenements, recu, clients, etat>>
      BY <1>3 DEF ClientEcrit
  <2>2. \E o \in Ordres : lignes' = [lignes EXCEPT ![c] = Append(@, o)]
      BY <1>3 DEF ClientEcrit
  <2>3. LesFlux' = LesFlux
      BY <2>1 DEF LesFlux, Flux, PlaceDe
  <2> QED
      BY <2>1, <2>2, <2>3 DEF Promesse!Demander, LesFlux
<1> QED
    BY <1>1, <1>2, <1>3

LEMMA PasTour ==
    ASSUME TypeInv, TypeInv', TourSeul
    PROVE  UNCHANGED Promesse!dialogue
<1>1. UNCHANGED <<lignes, evenements, recu, clients, etat>>
    BY TypeTour DEF cote_client
<1> QED
    BY <1>1, RienServeur

\* The end of the server: every connection is closed.
LEMMA PasFermer ==
    ASSUME TypeInv, TypeInv', Fermer
    PROVE  \E cs \in SUBSET Clients : Promesse!Clore(cs)
<1> DEFINE perdus == {c \in Clients : etat[c] \in {"file", "ouvert"}}
<1>0. PICK cs : cs = perdus
    OBVIOUS
<1>1. /\ clients' = [s \in Places |-> Vide]
      /\ etat' = [c \in Clients |-> IF etat[c] = "absent" THEN "absent" ELSE "clos"]
      /\ UNCHANGED <<lignes, evenements, recu>>
    BY DEF Fermer, cote_client
<1>2. /\ Ouvertes(etat') = Ouvertes(etat) \ cs
      /\ Closes(etat') = Closes(etat) \union cs
    BY <1>0, <1>1 DEF Ouvertes, Closes, TypeInv
<1>3. ASSUME NEW s \in Places, clients[s].fd \notin cs
      PROVE  clients[s] = Vide
  <2>1. clients[s].fd = Aucun
      BY <1>0, <1>3, Occupee
  <2> QED
      BY <2>1, Occupee DEF PlaceOK
<1>4. cs \in SUBSET Clients
    BY <1>0
<1>5. /\ \A s \in Places : clients[s].fd \notin cs => clients'[s] = clients[s]
      /\ \A s \in Places : clients[s].fd \in cs => clients'[s] = Vide
    BY <1>1, <1>3
<1>6. Promesse!Clore(cs)
    BY <1>1, <1>2, <1>4, <1>5, Fermees
<1> QED
    BY <1>4, <1>6

\* A client is accepted, or refused.
LEMMA PasAccepter ==
    ASSUME TypeInv, TypeInv', OrdreInv, NEW c \in Clients, Accepter(c)
    PROVE  Promesse!Ouvrir({c}) \/ Promesse!Clore({c})
<1>1. etat[c] = "file" /\ UNCHANGED <<lignes, evenements, recu>>
    BY DEF Accepter, cote_client
<1>2. CASE \E s \in Places : Libre(s)
  <2>1. /\ clients' = [clients EXCEPT ![PremiereLibre].fd = c]
        /\ etat' = [etat EXCEPT ![c] = "ouvert"]
      BY <1>2 DEF Accepter, PremiereLibre
  <2>2. PICK s \in Places : s = PremiereLibre /\ clients[s].fd = Aucun
      BY <1>2, PremiereLibreTrouvee DEF Libre
  <2>3. clients[s] = Vide /\ clients[s] \in Place
      BY <2>2, Occupee DEF PlaceOK
  <2>4. /\ clients'[s].fd = c /\ ~clients'[s].subscribed /\ Reste(clients'[s]) = Reste(Vide)
        /\ \A t \in Places : t # s => clients'[t] = clients[t]
    <3>1. /\ clients'[s] = [Vide EXCEPT !.fd = c]
          /\ \A t \in Places : t # s => clients'[t] = clients[t]
        BY <2>1, <2>2, <2>3 DEF TypeInv
    <3>2. /\ clients'[s].fd = c /\ ~clients'[s].subscribed
          /\ clients'[s].output = Vide.output
          /\ clients'[s].output_offset = Vide.output_offset
        BY <3>1 DEF Vide
    <3> QED
        BY <3>1, <3>2 DEF Reste
  <2>5. Reste(Vide) = <<>>
      BY <2>3, VideOK, ResteOK
  <2>6. /\ {c} \intersect (Ouvertes(etat) \union Closes(etat)) = {}
        /\ Ouvertes(etat') = Ouvertes(etat) \union {c}
        /\ Closes(etat') = Closes(etat)
      BY <1>1, <2>1 DEF Ouvertes, Closes, TypeInv
  <2>7. Abonnes(clients') = Abonnes(clients)
    <3>1. ~clients[s].subscribed
        BY <2>3 DEF Vide
    <3> QED
        BY <2>4, <3>1 DEF Abonnes
  <2>8. \A d \in Clients : Flux(d)' = Flux(d)
    <3> TAKE d \in Clients
    <3>1. CASE d = c
      <4>1. Flux(c) = recu[c] /\ recu[c] = <<>>
          BY <1>1, FluxVaut, OrdreInvDit DEF OrdreAttend
      <4>2. Flux(c)' = recu'[c] \o Reste(clients'[s])
          BY <2>4, FluxVautApres
      <4>3. <<>> \o <<>> = <<>>
          BY EmptySeq, ConcatEmptySeq
      <4> QED
          BY <1>1, <2>4, <2>5, <3>1, <4>1, <4>2, <4>3
    <3>2. CASE d # c /\ etat[d] = "ouvert"
      <4>1. PICK t \in Places : clients[t].fd = d /\ ~Libre(t)
          BY <3>2, AUnePlace
      <4>2. clients'[t] = clients[t]
          BY <2>2, <2>4, <4>1 DEF Libre
      <4>3. Flux(d) = recu[d] \o Reste(clients[t])
          BY <4>1, FluxVaut DEF FluxDe
      <4>4. Flux(d)' = recu'[d] \o Reste(clients'[t])
          BY <4>1, <4>2, FluxVautApres
      <4> QED
          BY <1>1, <4>2, <4>3, <4>4
    <3>3. CASE d # c /\ etat[d] # "ouvert"
      <4>1. etat'[d] # "ouvert"
          BY <2>1, <3>3 DEF TypeInv
      <4> QED
          BY <1>1, <3>3, <4>1, FluxVaut, FluxVautApres
    <3> QED
        BY <3>1, <3>2, <3>3
  <2>9. LesFlux' = LesFlux
      BY <2>8 DEF LesFlux
  <2> QED
      BY <1>1, <2>6, <2>7, <2>9, DialogueDit
<1>3. CASE ~\E s \in Places : Libre(s)
  <2>1. etat' = [etat EXCEPT ![c] = "clos"] /\ UNCHANGED clients
      BY <1>3 DEF Accepter
  <2>2. Ouvertes(etat') = Ouvertes(etat) \ {c} /\ Closes(etat') = Closes(etat) \union {c}
      BY <1>1, <2>1 DEF Ouvertes, Closes, TypeInv
  <2>3. \A s \in Places : clients[s].fd # c
      BY <1>1, FluxVaut
  <2>4. Promesse!Clore({c})
      BY <1>1, <2>1, <2>2, <2>3, Fermees
  <2> QED
      BY <2>4
<1> QED
    BY <1>2, <1>3

\* process_buffered_message answers one line of several clients: Repondre.
LEMMA PasTraiter ==
    ASSUME TypeInv, TypeInv', OrdreInv, Traiter
    PROVE  \E cs \in SUBSET Clients : Promesse!Repondre(cs)
<1> DEFINE traitees == {t \in Places : ATraiter(clients[t])}
           cs == {clients[s].fd : s \in traitees}
           rep(c) == NbRep(Flux(c))
<1>1. clients' = Traites /\ UNCHANGED <<lignes, evenements, recu>>
    BY DEF Traiter, Traites, Poser, cote_client
<1>2. \A s \in Places : Traites[s].fd = clients[s].fd
    BY TraitesOK
<1>3. etat' = etat
  <2>1. etat' = [c \in Clients |-> IF etat[c] = "ouvert" /\ c \notin Fds(Traites)
                                   THEN "clos" ELSE etat[c]]
      BY DEF Traiter, Traites, Poser
  <2>2. Fds(Traites) = Fds(clients)
      BY <1>2 DEF Fds
  <2> QED
      BY <2>1, <2>2 DEF TypeInv, Ouvertes
<1>4. ASSUME NEW s \in traitees, NEW c, c = clients[s].fd
      PROVE  /\ c \in Clients /\ c \in Ouvertes(etat)
             /\ rep(c) < Len(lignes[c])
             /\ clients'[s].subscribed
                   = (clients[s].subscribed \/ lignes[c][rep(c) + 1] = "subscribe")
             /\ Flux(c)' = Flux(c) \o Promesse!Message(Promesse!Reponse(c, rep(c) + 1))
  <2>1. s \in Places /\ ATraiter(clients[s])
      OBVIOUS
  <2>2. clients'[s] = Traite(clients[s])
      BY <1>1, <2>1 DEF Traites
  <2> DEFINE n == Traite(clients[s])
             k == NbRep(FluxDe(s))
  <2>3. /\ c \in Clients /\ etat[c] = "ouvert" /\ n.fd = c
        /\ k < Len(lignes[c])
        /\ n.subscribed = (clients[s].subscribed \/ lignes[c][k + 1] = "subscribe")
        /\ recu[c] \o Reste(n) = FluxDe(s) \o Promesse!Message(Promesse!Reponse(c, k + 1))
      BY <1>4, <2>1, UnTraite
  <2> HIDE DEF n
  <2>4. clients'[s] = n
      BY <2>2 DEF n
  <2>5. Flux(c) = FluxDe(s)
      BY <1>4, <2>1, <2>3, FluxVaut
  <2>6. Flux(c)' = recu'[c] \o Reste(clients'[s])
      BY <2>1, <2>3, <2>4, FluxVautApres
  <2>7. c \in Ouvertes(etat)
      BY <2>3 DEF Ouvertes
  <2>8. Flux(c)' = Flux(c) \o Promesse!Message(Promesse!Reponse(c, rep(c) + 1))
      BY <1>1, <2>3, <2>4, <2>5, <2>6
  <2>9. /\ rep(c) < Len(lignes[c])
        /\ n.subscribed = (clients[s].subscribed \/ lignes[c][rep(c) + 1] = "subscribe")
      BY <2>3, <2>5
  <2> QED
      BY <2>3, <2>4, <2>7, <2>8, <2>9
<1>5. \A s \in Places \ traitees : clients'[s] = clients[s]
    BY <1>1 DEF Traites
<1>6. ASSUME NEW c \in Clients, c \notin cs
      PROVE  Flux(c)' = Flux(c)
  <2>1. CASE etat[c] = "ouvert"
    <3>1. PICK s \in Places : clients[s].fd = c
        BY <2>1, AUnePlace
    <3>2. clients'[s] = clients[s]
        BY <1>5, <1>6, <3>1
    <3>3. Flux(c) = recu[c] \o Reste(clients[s])
        BY <3>1, FluxVaut DEF FluxDe
    <3>4. Flux(c)' = recu'[c] \o Reste(clients'[s])
        BY <3>1, <3>2, FluxVautApres
    <3> QED
        BY <1>1, <3>2, <3>3, <3>4
  <2>2. CASE etat[c] # "ouvert"
      BY <1>1, <1>3, <2>2, FluxVaut, FluxVautApres
  <2> QED
      BY <2>1, <2>2
<1>7. cs \subseteq Ouvertes(etat) /\ \A c \in cs : rep(c) < Len(lignes[c])
  <2> HIDE DEF traitees, rep
  <2> QED
      BY <1>4
<1>8. \A c \in Clients :
         Flux(c)' = IF c \in cs
                    THEN Flux(c) \o Promesse!Message(Promesse!Reponse(c, rep(c) + 1))
                    ELSE Flux(c)
  <2>1. \A c \in cs :
           Flux(c)' = Flux(c) \o Promesse!Message(Promesse!Reponse(c, rep(c) + 1))
    <3> TAKE c \in cs
    <3>1. PICK s \in traitees : c = clients[s].fd
      <4> HIDE DEF traitees
      <4> QED
          OBVIOUS
    <3> HIDE DEF traitees, rep
    <3> QED
        BY <1>4, <3>1
  <2> HIDE DEF cs, rep
  <2> QED
      BY <1>6, <2>1
<1>9. Abonnes(clients') = Abonnes(clients) \union
                            {c \in cs : lignes[c][rep(c) + 1] = "subscribe"}
  <2>1. ASSUME NEW c \in Abonnes(clients')
        PROVE  c \in Abonnes(clients) \/ (c \in cs /\ lignes[c][rep(c) + 1] = "subscribe")
    <3>1. PICK s \in Places : clients'[s].subscribed /\ clients'[s].fd = c
        BY <2>1 DEF Abonnes
    <3>2. clients[s].fd = c
        BY <1>1, <1>2, <3>1
    <3>3. CASE s \in traitees
      <4>1. clients[s].subscribed \/ lignes[c][rep(c) + 1] = "subscribe"
        <5> HIDE DEF traitees, rep
        <5> QED
            BY <1>4, <3>1, <3>2, <3>3
      <4>2. c \in cs
        <5> HIDE DEF traitees
        <5> QED
            BY <3>2, <3>3
      <4> QED
          BY <3>2, <4>1, <4>2 DEF Abonnes
    <3>4. CASE s \notin traitees
        BY <1>5, <3>1, <3>2, <3>4 DEF Abonnes
    <3> QED
        BY <3>3, <3>4
  <2>2. ASSUME NEW c \in Abonnes(clients)
        PROVE  c \in Abonnes(clients')
    <3>1. PICK s \in Places : clients[s].subscribed /\ clients[s].fd = c
        BY <2>2 DEF Abonnes
    <3>2. clients'[s].fd = c
        BY <1>1, <1>2, <3>1
    <3>3. clients'[s].subscribed
      <4>1. CASE s \in traitees
        <5> HIDE DEF traitees, rep
        <5> QED
            BY <1>4, <3>1, <4>1
      <4>2. CASE s \notin traitees
          BY <1>5, <3>1, <4>2
      <4> QED
          BY <4>1, <4>2
    <3> QED
        BY <3>2, <3>3 DEF Abonnes
  <2>3. ASSUME NEW c \in cs, lignes[c][rep(c) + 1] = "subscribe"
        PROVE  c \in Abonnes(clients')
    <3>1. PICK s \in traitees : clients[s].fd = c
      <4> HIDE DEF traitees
      <4> QED
          OBVIOUS
    <3>2. clients'[s].fd = c /\ s \in Places
        BY <1>1, <1>2, <3>1
    <3>3. clients'[s].subscribed
      <4> HIDE DEF traitees, rep
      <4> QED
          BY <1>4, <2>3, <3>1
    <3> QED
        BY <3>2, <3>3 DEF Abonnes
  <2> HIDE DEF cs, rep
  <2> QED
      BY <2>1, <2>2, <2>3
<1>10. cs \subseteq Clients
    BY <1>7 DEF Ouvertes
<1> HIDE DEF cs
<1>11. PICK ds \in SUBSET Clients : ds = cs
    BY <1>10
<1>12. Promesse!Repondre(ds)
  <2>1. \A c \in cs : Promesse!Repondues(c) = rep(c)
      BY <1>10, ReponduesVaut
  <2> HIDE DEF rep
  <2>2. \A c \in ds : Promesse!Repondues(c) < Len(lignes[c])
      BY <1>7, <1>11, <2>1
  <2>3. [c \in Clients |-> Flux(c)]'
           = [c \in Clients |-> IF c \in ds
                THEN [d \in Clients |-> Flux(d)][c]
                        \o Promesse!Message(Promesse!Reponse(c, Promesse!Repondues(c) + 1))
                ELSE [d \in Clients |-> Flux(d)][c]]
      BY <1>8, <1>11, <2>1
  <2>4. Abonnes(clients') = Abonnes(clients) \union
            {c \in ds : lignes[c][Promesse!Repondues(c) + 1] = "subscribe"}
      BY <1>9, <1>11, <2>1
  <2> QED
      BY <1>1, <1>3, <1>7, <1>11, <2>2, <2>3, <2>4
      DEF Promesse!Repondre, Ouvertes, Abonnes
<1> QED
    BY <1>12

\* ipc_server_broadcast: the event reaches every subscriber, or closes it.
LEMMA PasDiffuser ==
    ASSUME TypeInv, TypeInv', Diffuser
    PROVE  \E cs \in SUBSET Clients : Promesse!Diffuser(cs)
<1>0. PICK cs : cs = {clients[s].fd : s \in {t \in Places : /\ clients[t].subscribed
                                                            /\ Avertis[t] = Vide}}
    OBVIOUS
<1>1. PICK m : m = Promesse!Evenement(evenements + 1)
    OBVIOUS
<1>2. /\ clients' = Avertis /\ UNCHANGED <<lignes, recu>> /\ evenements' = evenements + 1
      /\ etat' = [c \in Clients |-> IF etat[c] = "ouvert" /\ c \notin Fds(Avertis)
                                    THEN "clos" ELSE etat[c]]
    BY DEF Diffuser, Avertis, Poser, cote_client
<1>3. m \in Entete
  <2>1. evenements + 1 \in Nat
      BY IpcAssumption DEF TypeInv
  <2> QED
      BY <1>1, <2>1, Entetes
<1>4. ASSUME NEW s \in Places, clients[s].subscribed
      PROVE  /\ clients[s].fd \in Clients /\ etat[clients[s].fd] = "ouvert"
             /\ \/ clients'[s] = Vide
                \/ /\ clients'[s].fd = clients[s].fd /\ clients'[s].subscribed
                   /\ clients'[s] # Vide
                   /\ Reste(clients'[s]) = Reste(clients[s]) \o Promesse!Message(m)
  <2>1. clients[s] \in Place /\ PlaceOK(clients[s]) /\ clients[s].fd # Aucun
        /\ clients[s].fd \in Clients /\ etat[clients[s].fd] = "ouvert"
      BY <1>4, Occupee
  <2>2. clients'[s] = Ajouter(clients[s], m)
      BY <1>1, <1>2, <1>4 DEF Avertis
  <2>3. \/ Ajouter(clients[s], m) = Vide
        \/ /\ Ajouter(clients[s], m).fd = clients[s].fd
           /\ Ajouter(clients[s], m).subscribed = clients[s].subscribed
           /\ Reste(Ajouter(clients[s], m)) = Reste(clients[s]) \o Promesse!Message(m)
      BY <1>3, <2>1, AjouterOK
  <2>4. clients'[s].fd = clients[s].fd => clients'[s] # Vide
      BY <2>1, VideOK
  <2> QED
      BY <1>4, <2>1, <2>2, <2>3, <2>4
<1>5. \A s \in Places : ~clients[s].subscribed => clients'[s] = clients[s]
    BY <1>2 DEF Avertis
<1>6. cs \subseteq Abonnes(clients) /\ cs \subseteq Ouvertes(etat)
      /\ Abonnes(clients) \subseteq Ouvertes(etat)
    BY <1>0, <1>4 DEF Abonnes, Ouvertes
<1>7. \A s, t \in Places : clients[s].fd = clients[t].fd /\ clients[s].subscribed => s = t
    BY <1>4, IpcAssumption DEF TypeInv, Distinctes
<1>8. \A s \in Places : clients[s].fd \in cs <=> clients[s].subscribed /\ clients'[s] = Vide
    BY <1>0, <1>2, <1>7
<1>9. ASSUME NEW s \in Places
      PROVE  clients'[s].fd = IF clients[s].fd \in cs THEN Aucun ELSE clients[s].fd
    BY <1>4, <1>5, <1>8, VideOK
<1>10. \A s \in Places : clients'[s].subscribed <=> /\ clients[s].subscribed
                                                    /\ clients[s].fd \notin cs
  <2>1. ~Vide.subscribed
      BY DEF Vide
  <2> QED
      BY <1>4, <1>5, <1>8, <2>1
<1>11. Fds(clients') = Fds(clients) \ cs
    BY <1>6, <1>9, IpcAssumption DEF Fds, Ouvertes
<1>12. /\ Ouvertes(etat') = Ouvertes(etat) \ cs
       /\ Closes(etat') = Closes(etat) \union cs
  <2>1. Ouvertes(etat') = Ouvertes(etat) \ cs
      BY <1>11 DEF TypeInv
  <2>2. \A c \in Clients : etat[c] # "ouvert" => etat'[c] = etat[c]
      BY <1>2
  <2>3. \A c \in Clients : etat[c] = "ouvert" => etat'[c] \in {"ouvert", "clos"}
      BY <1>2
  <2> QED
      BY <1>6, <2>1, <2>2, <2>3 DEF Ouvertes, Closes
<1>13. Abonnes(clients') = Abonnes(clients) \ cs
    BY <1>9, <1>10 DEF Abonnes
<1>14. ASSUME NEW c \in cs
       PROVE  \E k \in 0..Len(Flux(c)) : Flux(c)' = SubSeq(Flux(c), 1, k)
  <2>1. c \in Clients /\ etat'[c] # "ouvert"
      BY <1>6, <1>12 DEF Ouvertes
  <2>2. Flux(c)' = recu[c]
      BY <1>2, <2>1, FluxVautApres
  <2> QED
      BY <2>1, <2>2, FluxType
<1>15. ASSUME NEW c \in Clients, c \notin cs
       PROVE  Flux(c)' = IF c \in Abonnes(clients) THEN Flux(c) \o Promesse!Message(m)
                                                   ELSE Flux(c)
  <2>1. CASE etat[c] = "ouvert"
    <3>1. PICK s \in Places : clients[s].fd = c
        BY <2>1, AUnePlace
    <3>2. clients'[s].fd = c
        BY <1>9, <1>15, <3>1
    <3>3. Flux(c) = FluxDe(s) /\ Flux(c) = recu[c] \o Reste(clients[s])
        BY <3>1, FluxVaut DEF FluxDe
    <3>4. Flux(c)' = recu[c] \o Reste(clients'[s])
        BY <1>2, <3>2, FluxVautApres
    <3>5. CASE clients[s].subscribed
      <4>1. Reste(clients'[s]) = Reste(clients[s]) \o Promesse!Message(m)
          BY <1>4, <1>8, <1>15, <3>1, <3>5
      <4> DEFINE n == clients'[s]
      <4>2. n \in Place /\ PlaceOK(n) /\ n.fd = clients[s].fd /\ n.fd \in Clients
          BY <3>1, <3>2 DEF TypeInv
      <4> HIDE DEF n
      <4>3. Reste(n) = Reste(clients[s]) \o Promesse!Message(m)
          BY <4>1 DEF n
      <4>4. recu[n.fd] \o Reste(n) = FluxDe(s) \o Promesse!Message(m)
          BY <1>3, <4>2, <4>3, FluxSuit
      <4>5. Flux(c)' = Flux(c) \o Promesse!Message(m)
          BY <3>1, <3>3, <3>4, <4>2, <4>4 DEF n
      <4>6. c \in Abonnes(clients)
          BY <3>1, <3>5 DEF Abonnes
      <4> QED
          BY <4>5, <4>6
    <3>6. CASE ~clients[s].subscribed
      <4>1. clients'[s] = clients[s]
          BY <1>5, <3>6
      <4>2. c \notin Abonnes(clients)
          BY <1>7, <3>1, <3>6 DEF Abonnes
      <4> QED
          BY <3>3, <3>4, <4>1, <4>2
    <3> QED
        BY <3>5, <3>6
  <2>2. CASE etat[c] # "ouvert"
    <3>1. etat'[c] # "ouvert" /\ c \notin Abonnes(clients)
        BY <1>6, <1>12, <2>2 DEF Ouvertes
    <3> QED
        BY <1>2, <2>2, <3>1, FluxVaut, FluxVautApres
  <2> QED
      BY <2>1, <2>2
<1>16. cs \in SUBSET Clients
    BY <1>6 DEF Ouvertes
<1>17. Promesse!Diffuser(cs)
  <2>1. \A c \in Clients :
           IF c \in cs
           THEN \E k \in 0..Len([d \in Clients |-> Flux(d)][c]) :
                   [d \in Clients |-> Flux(d)]'[c] = SubSeq([d \in Clients |-> Flux(d)][c], 1, k)
           ELSE [d \in Clients |-> Flux(d)]'[c]
                   = IF c \in Abonnes(clients)
                     THEN [d \in Clients |-> Flux(d)][c]
                            \o Promesse!Message(Promesse!Evenement(evenements + 1))
                     ELSE [d \in Clients |-> Flux(d)][c]
      BY <1>1, <1>14, <1>15
  <2> QED
      BY <1>2, <1>6, <1>12, <1>13, <2>1
      DEF Promesse!Diffuser, Ouvertes, Closes, Abonnes
<1> QED
    BY <1>16, <1>17

\* A place is served: its client is closed, or nothing that Dialogue sees changes.
LEMMA PasServir ==
    ASSUME TypeInv, TypeInv', ServirInv, NEW s \in Places, Lire(s) \/ Ecrire(s) \/ Perdu(s)
    PROVE  (\E cs \in SUBSET Clients : Promesse!Clore(cs)) \/ UNCHANGED Promesse!dialogue
<1>1. /\ ~Libre(s) /\ clients[s].fd \in Clients /\ UNCHANGED lignes
      /\ \A t \in Places : t # s => clients'[t] = clients[t]
      /\ \A t \in Places : t # s => clients[t].fd # clients[s].fd
      /\ \A d \in Clients : d # clients[s].fd => transit'[d] = transit[d] /\ recu'[d] = recu[d]
    BY AutresPlaces
<1>2. UNCHANGED evenements
    BY DEF Lire, Ecrire, Perdu, Servi
<1>3. CASE ARaccrocher(s)
  <2>1. PICK c \in Clients : c = clients[s].fd
      BY <1>1
  <2>2. /\ clients'[s] = Vide /\ UNCHANGED recu
        /\ etat' = [d \in Clients |-> IF etat[d] = "ouvert" /\ d \notin Fds(clients')
                                      THEN "clos" ELSE etat[d]]
      BY <1>3 DEF ARaccrocher, Poser, TypeInv
  <2>3. Fds(clients') = Fds(clients) \ {c}
      BY <1>1, <2>1, <2>2, VideOK DEF Fds
  <2>4. Ouvertes(etat') = Ouvertes(etat) \ {c}
      BY <2>3 DEF TypeInv
  <2>5. etat[c] = "ouvert"
      BY <2>1, FluxVaut
  <2>6. Closes(etat') = Closes(etat) \union {c}
    <3>1. \A d \in Clients : etat[d] = "ouvert" <=> d \in Fds(clients)
        BY DEF TypeInv, Ouvertes
    <3> QED
        BY <2>2, <2>3, <2>5, <3>1 DEF Closes
  <2>7. /\ \A t \in Places : clients[t].fd \notin {c} => clients'[t] = clients[t]
        /\ \A t \in Places : clients[t].fd \in {c} => clients'[t] = Vide
      BY <1>1, <2>1, <2>2
  <2>8. Promesse!Clore({c})
      BY <1>1, <1>2, <2>2, <2>4, <2>6, <2>7, Fermees
  <2> QED
      BY <2>8
<1>4. CASE ~ARaccrocher(s)
  <2>1. /\ etat' = etat /\ clients'[s].fd = clients[s].fd
        /\ clients'[s].subscribed = clients[s].subscribed /\ FluxDe(s)' = FluxDe(s)
    <3>1. CASE Lire(s)
      <4>1. /\ UNCHANGED <<etat, recu>> /\ clients'[s].fd = clients[s].fd
            /\ clients'[s].subscribed = clients[s].subscribed
            /\ Reste(clients'[s]) = Reste(clients[s])
          BY <1>4, <3>1, LirePlace
      <4>2. FluxDe(s)' = FluxDe(s)
          BY <4>1 DEF FluxDe
      <4> QED
          BY <4>1, <4>2
    <3>2. CASE Ecrire(s)
        BY <3>2, EcrirePlace
    <3>3. ~Perdu(s)
        BY <1>4 DEF Perdu
    <3> QED
        BY <3>1, <3>2, <3>3
  <2>2. ASSUME NEW t \in Places
        PROVE  /\ clients'[t].fd = clients[t].fd
               /\ clients'[t].subscribed = clients[t].subscribed
               /\ clients[t].fd # Aucun => FluxDe(t)' = FluxDe(t)
    <3>1. CASE t = s
        BY <2>1, <3>1
    <3>2. CASE t # s
      <4>1. clients'[t] = clients[t] /\ clients[t].fd # clients[s].fd
          BY <1>1, <3>2
      <4>2. clients[t].fd # Aucun => recu'[clients[t].fd] = recu[clients[t].fd]
          BY <1>1, <4>1, Occupee
      <4> QED
          BY <4>1, <4>2 DEF FluxDe
    <3> QED
        BY <3>1, <3>2
  <2>3. \A c \in Clients : etat[c] # "ouvert" => recu'[c] = recu[c]
    <3>1. etat[clients[s].fd] = "ouvert"
        BY <1>1, FluxVaut
    <3> QED
        BY <1>1, <3>1
  <2>4. UNCHANGED Promesse!dialogue
      BY <1>1, <1>2, <2>1, <2>2, <2>3, Rien
  <2> QED
      BY <2>4
<1> QED
    BY <1>3, <1>4

LEMMA DialogueInit == Init => Promesse!DInit
<1> SUFFICES ASSUME Init
             PROVE  Promesse!DInit
    OBVIOUS
<1>1. Abonnes(clients) = {}
  <2>1. ~Vide.subscribed
      BY DEF Vide
  <2> QED
      BY <2>1 DEF Init, Abonnes
<1>2. [c \in Clients |-> Flux(c)] = [c \in Clients |-> <<>>]
    BY DEF Init, Flux
<1>3. Ouvertes(etat) = {} /\ Closes(etat) = {}
    BY DEF Init, Ouvertes, Closes
<1> QED
    BY <1>1, <1>2, <1>3 DEF Init, Promesse!DInit, Ouvertes, Closes, Abonnes

LEMMA DialogueNext ==
    ASSUME IInv, TypeInv', [Next]_vars
    PROVE  [Promesse!DNext]_(Promesse!dialogue)
<1>1. TypeInv /\ OrdreInv /\ ServirInv
    BY DEF IInv
<1>2. CASE UNCHANGED vars
  <2>1. UNCHANGED <<lignes, evenements, recu, clients, etat>>
      BY <1>2 DEF vars, cote_client
  <2> QED
      BY <1>1, <2>1, RienServeur
<1>3. CASE \E c \in Clients : \/ ClientConnecte(c) \/ ClientEcrit(c) \/ ClientFinit(c)
                              \/ ClientPart(c)
  <2>1. (\E c \in Clients : Promesse!Demander(c)) \/ UNCHANGED Promesse!dialogue
      BY <1>1, <1>3, PasClients
  <2> QED
      BY <2>1 DEF Promesse!DNext
<1>4. CASE TourSeul
    BY <1>1, <1>4, PasTour
<1>5. CASE Diffuser
  <2>1. \E cs \in SUBSET Clients : Promesse!Diffuser(cs)
      BY <1>1, <1>5, PasDiffuser
  <2> QED
      BY <2>1 DEF Promesse!DNext
<1>6. CASE Traiter
  <2>1. \E cs \in SUBSET Clients : Promesse!Repondre(cs)
      BY <1>1, <1>6, PasTraiter
  <2> QED
      BY <2>1 DEF Promesse!DNext
<1>7. CASE Fermer
  <2>1. \E cs \in SUBSET Clients : Promesse!Clore(cs)
      BY <1>1, <1>7, PasFermer
  <2> QED
      BY <2>1 DEF Promesse!DNext
<1>8. CASE \E c \in Clients : Accepter(c)
  <2>1. PICK c \in Clients : Accepter(c)
      BY <1>8
  <2>2. Promesse!Ouvrir({c}) \/ Promesse!Clore({c})
      BY <1>1, <2>1, PasAccepter
  <2>3. {c} \in SUBSET Clients
      OBVIOUS
  <2> QED
      BY <2>2, <2>3 DEF Promesse!DNext
<1>9. CASE \E s \in Places : Lire(s) \/ Ecrire(s) \/ Perdu(s)
  <2>1. (\E cs \in SUBSET Clients : Promesse!Clore(cs)) \/ UNCHANGED Promesse!dialogue
      BY <1>1, <1>9, PasServir
  <2> QED
      BY <2>1 DEF Promesse!DNext
<1> QED
    BY <1>2, <1>3, <1>4, <1>5, <1>6, <1>7, <1>8, <1>9, LesPas

\* The server implements Dialogue: each client gets its own answers, whole, once and
\* in order, and every event from its subscription on, until it is closed.
THEOREM ImplementsHolds == Spec => Implements
<1>1. IInv /\ IInv' /\ [Next]_vars => [Promesse!DNext]_(Promesse!dialogue)
    BY DialogueNext DEF IInv
<1> QED
    BY <1>1, DialogueInit, InvariantInductif, PTL DEF Spec, Implements, Promesse!DSpec
-----------------------------------------------------------------------------
(* What a client finds in its flow                                         *)

\* A flow and a beginning of it.
LEMMA Commence ==
    ASSUME NEW f \in Seq(Piece), NEW h \in Seq(Piece), Len(h) <= Len(f),
           \A i \in 1..Len(h) : h[i] = f[i]
    PROVE  /\ Len(f) \in Nat /\ Len(h) \in Nat
           /\ DOMAIN f = 1..Len(f) /\ DOMAIN h = 1..Len(h)
           /\ \A i \in 1..Len(h) : SubSeq(h, 1, i) = SubSeq(f, 1, i)
           /\ Promesse!Fins(h) = Promesse!Fins(f) \intersect 1..Len(h)
           /\ Promesse!FinsEvt(h) = Promesse!FinsEvt(f) \intersect 1..Len(h)
<1>1. /\ Len(f) \in Nat /\ Len(h) \in Nat
      /\ DOMAIN f = 1..Len(f) /\ DOMAIN h = 1..Len(h)
    BY LenProperties
<1>2. ASSUME NEW i \in 1..Len(h)
      PROVE  SubSeq(h, 1, i) = SubSeq(f, 1, i)
  <2> DEFINE a == SubSeq(h, 1, i)
             b == SubSeq(f, 1, i)
  <2>1. \A j \in 1..i : h[j] \in Piece /\ f[j] \in Piece
      BY <1>1, ElementOfSeq
  <2>2. a \in Seq(Piece) /\ Len(a) = i /\ \A j \in 1..i : a[j] = h[j]
      BY <1>1, <2>1, SubSeqProperties
  <2>3. b \in Seq(Piece) /\ Len(b) = i /\ \A j \in 1..i : b[j] = f[j]
      BY <1>1, <2>1, SubSeqProperties
  <2>4. \A j \in 1..i : h[j] = f[j]
      BY <1>1
  <2> HIDE DEF a, b
  <2>5. a = b
      BY <2>2, <2>3, <2>4, SeqEqual
  <2> QED
      BY <2>5 DEF a, b
<1>3. \A i \in DOMAIN h : i \in DOMAIN f /\ h[i] = f[i]
    BY <1>1
<1>4. \A i \in DOMAIN f : i \in 1..Len(h) <=> i \in DOMAIN h
    BY <1>1
<1>5. Promesse!Fins(h) = Promesse!Fins(f) \intersect 1..Len(h)
    BY <1>1, <1>3, <1>4 DEF Promesse!Fins
<1>6. Promesse!FinsEvt(h) = Promesse!FinsEvt(f) \intersect 1..Len(h)
    BY <1>1, <1>3, <1>4 DEF Promesse!FinsEvt
<1> QED
    BY <1>1, <1>2, <1>5, <1>6

\* What is true of a flow is true of what has arrived of it.
LEMMA SainCoupe ==
    ASSUME NEW c \in Clients, NEW f \in Seq(Piece), NEW h \in Seq(Piece), Len(h) <= Len(f),
           \A i \in 1..Len(h) : h[i] = f[i], Promesse!Sain(c, f)
    PROVE  Promesse!Sain(c, h)
<1>1. /\ Len(f) \in Nat /\ Len(h) \in Nat
      /\ \A i \in 1..Len(h) : SubSeq(h, 1, i) = SubSeq(f, 1, i)
      /\ Promesse!Fins(h) = Promesse!Fins(f) \intersect 1..Len(h)
      /\ Promesse!FinsEvt(h) = Promesse!FinsEvt(f) \intersect 1..Len(h)
    BY Commence
<1>2. ASSUME NEW i \in 1..Len(h), h[i][2] = "fin"
      PROVE  i > 1 /\ h[i - 1] = <<h[i][1], "texte">>
  <2>1. i \in 1..Len(f) /\ h[i] = f[i]
      BY <1>1
  <2>2. i > 1 /\ f[i - 1] = <<f[i][1], "texte">>
      BY <1>2, <2>1 DEF Promesse!Sain
  <2>3. i - 1 \in 1..Len(h)
      BY <1>1, <2>2
  <2> QED
      BY <2>1, <2>2, <2>3
<1>3. ASSUME NEW i \in 1..(Len(h) - 1), h[i][2] = "texte"
      PROVE  h[i + 1] = <<h[i][1], "fin">>
  <2>1. i \in 1..Len(h) /\ i + 1 \in 1..Len(h) /\ i \in 1..(Len(f) - 1)
      BY <1>1
  <2>2. h[i] = f[i] /\ h[i + 1] = f[i + 1]
      BY <2>1
  <2>3. f[i + 1] = <<f[i][1], "fin">>
      BY <1>3, <2>1, <2>2 DEF Promesse!Sain
  <2> QED
      BY <2>2, <2>3
<1>4. ASSUME NEW i \in Promesse!Fins(h)
      PROVE  h[i][1] = Promesse!Reponse(c, Promesse!Cardinality(Promesse!Fins(SubSeq(h, 1, i))))
  <2>1. i \in Promesse!Fins(f) /\ h[i] = f[i] /\ SubSeq(h, 1, i) = SubSeq(f, 1, i)
      BY <1>1
  <2>2. f[i][1] = Promesse!Reponse(c, Promesse!Cardinality(Promesse!Fins(SubSeq(f, 1, i))))
      BY <2>1 DEF Promesse!Sain
  <2> QED
      BY <2>1, <2>2
<1>5. ASSUME NEW i \in Promesse!FinsEvt(h), NEW j \in Promesse!FinsEvt(h), i < j,
             \A k \in Promesse!FinsEvt(h) : k <= i \/ j <= k
      PROVE  h[j][1].n = h[i][1].n + 1
  <2>1. /\ i \in Promesse!FinsEvt(f) /\ j \in Promesse!FinsEvt(f)
        /\ h[i] = f[i] /\ h[j] = f[j] /\ i \in Nat /\ j \in Nat /\ j <= Len(h)
      BY <1>1
  <2>2. Promesse!FinsEvt(f) \subseteq 1..Len(f)
      BY LenProperties DEF Promesse!FinsEvt
  <2>3. ASSUME NEW k \in Promesse!FinsEvt(f)
        PROVE  k <= i \/ j <= k
    <3>1. CASE k \in 1..Len(h)
        BY <1>1, <1>5, <3>1
    <3>2. CASE k \notin 1..Len(h)
        BY <1>1, <2>1, <2>2, <3>2
    <3> QED
        BY <3>1, <3>2
  <2>4. f[j][1].n = f[i][1].n + 1
      BY <1>5, <2>1, <2>3 DEF Promesse!Sain
  <2> QED
      BY <2>1, <2>4
<1> QED
    BY <1>2, <1>3, <1>4, <1>5 DEF Promesse!Sain

LEMMA SainDebut ==
    ASSUME NEW c \in Clients, NEW f \in Seq(Piece), NEW k \in 0..Len(f), Promesse!Sain(c, f)
    PROVE  Promesse!Sain(c, SubSeq(f, 1, k))
<1>1. PICK h : h = SubSeq(f, 1, k)
    OBVIOUS
<1>2. \A i \in 1..k : f[i] \in Piece
    BY LenProperties, ElementOfSeq
<1>3. h \in Seq(Piece) /\ Len(h) = k /\ \A i \in 1..k : h[i] = f[i]
  <2>1. CASE k = 0
    <3>1. h = <<>>
        BY <1>1, <2>1, SubSeqEmpty
    <3> QED
        BY <2>1, <3>1
  <2>2. CASE k # 0
      BY <1>1, <1>2, <2>2, LenProperties, SubSeqProperties
  <2> QED
      BY <2>1, <2>2
<1>4. Len(h) <= Len(f) /\ \A i \in 1..Len(h) : h[i] = f[i]
    BY <1>3, LenProperties
<1>5. Promesse!Sain(c, h)
    BY <1>3, <1>4, SainCoupe
<1> QED
    BY <1>1, <1>5

\* A flow is said by its last event and by its last piece.
Entier(f) == f = <<>> \/ f[Len(f)][2] = "fin"
JusquA(f, n) ==
    \A i \in Promesse!FinsEvt(f) :
        (\A k \in Promesse!FinsEvt(f) : k <= i) => f[i][1].n = n

\* The pieces of a flow and of a message that follows it.
LEMMA Suivi ==
    ASSUME NEW f \in Seq(Piece), NEW m \in Entete, NEW g, g = f \o Promesse!Message(m)
    PROVE  /\ g \in Seq(Piece) /\ Len(f) \in Nat /\ Len(g) = Len(f) + 2
           /\ \A i \in 1..Len(f) : g[i] = f[i]
           /\ g[Len(f) + 1] = <<m, "texte">> /\ g[Len(f) + 2] = <<m, "fin">>
<1> DEFINE mm == Promesse!Message(m)
<1>1. mm \in Seq(Piece) /\ Len(mm) = 2 /\ mm[1] = <<m, "texte">> /\ mm[2] = <<m, "fin">>
    BY DeuxMorceaux
<1>2. g = f \o mm /\ Len(f) \in Nat
    BY LenProperties
<1> HIDE DEF mm
<1>3. /\ g \in Seq(Piece) /\ Len(g) = Len(f) + 2
      /\ \A i \in 1..(Len(f) + 2) : g[i] = IF i <= Len(f) THEN f[i] ELSE mm[i - Len(f)]
  <2>1. /\ f \o mm \in Seq(Piece) /\ Len(f \o mm) = Len(f) + Len(mm)
        /\ \A i \in 1..(Len(f) + Len(mm)) :
              (f \o mm)[i] = IF i <= Len(f) THEN f[i] ELSE mm[i - Len(f)]
      BY <1>1, ConcatProperties
  <2> QED
      BY <1>1, <1>2, <2>1
<1>4. \A i \in 1..Len(f) : g[i] = f[i]
    BY <1>2, <1>3
<1>5. /\ Len(f) + 1 \in 1..(Len(f) + 2) /\ ~(Len(f) + 1 <= Len(f)) /\ Len(f) + 1 - Len(f) = 1
      /\ Len(f) + 2 \in 1..(Len(f) + 2) /\ ~(Len(f) + 2 <= Len(f)) /\ Len(f) + 2 - Len(f) = 2
    BY <1>2
<1>6. g[Len(f) + 1] = mm[1] /\ g[Len(f) + 2] = mm[2]
    BY <1>3, <1>5
<1> QED
    BY <1>1, <1>2, <1>3, <1>4, <1>6

\* A whole flow and the next answer, or the next event.
LEMMA SainAjoute ==
    ASSUME NEW c \in Clients, NEW f \in Seq(Piece), Promesse!Sain(c, f), Entier(f),
           NEW m \in Entete, NEW g, g = f \o Promesse!Message(m),
           m.pour # {} => m = Promesse!Reponse(c, NbRep(f) + 1),
           NEW n \in Nat, JusquA(f, n), m.pour = {} => m.n = n + 1
    PROVE  /\ g \in Seq(Piece) /\ Promesse!Sain(c, g) /\ Entier(g)
           /\ m.pour # {} => Promesse!FinsEvt(g) = Promesse!FinsEvt(f) /\ JusquA(g, n)
           /\ m.pour = {} => JusquA(g, n + 1)
<1> DEFINE d == Len(f) + 2
<1>1. /\ g \in Seq(Piece) /\ Len(f) \in Nat /\ Len(g) = d
      /\ \A i \in 1..Len(f) : g[i] = f[i]
      /\ g[Len(f) + 1] = <<m, "texte">> /\ g[d] = <<m, "fin">>
  <2>1. f \in Seq(Piece) /\ m \in Entete /\ g = f \o Promesse!Message(m)
      OBVIOUS
  <2>2. /\ g \in Seq(Piece) /\ Len(f) \in Nat /\ Len(g) = Len(f) + 2
        /\ \A i \in 1..Len(f) : g[i] = f[i]
        /\ g[Len(f) + 1] = <<m, "texte">> /\ g[Len(f) + 2] = <<m, "fin">>
      BY ONLY <2>1, Suivi
  <2> QED
      BY ONLY <2>2 DEF d
<1>2. /\ DOMAIN f = 1..Len(f) /\ DOMAIN g = 1..d
      /\ \A i \in 1..Len(f) : SubSeq(f, 1, i) = SubSeq(g, 1, i)
      /\ Promesse!Fins(f) = Promesse!Fins(g) \intersect 1..Len(f)
      /\ Promesse!FinsEvt(f) = Promesse!FinsEvt(g) \intersect 1..Len(f)
  <2>1. Len(f) <= Len(g)
      BY <1>1
  <2>2. /\ DOMAIN g = 1..Len(g) /\ DOMAIN f = 1..Len(f)
        /\ \A i \in 1..Len(f) : SubSeq(f, 1, i) = SubSeq(g, 1, i)
        /\ Promesse!Fins(f) = Promesse!Fins(g) \intersect 1..Len(f)
        /\ Promesse!FinsEvt(f) = Promesse!FinsEvt(g) \intersect 1..Len(f)
    <3>1. f \in Seq(Piece) /\ g \in Seq(Piece) /\ \A i \in 1..Len(f) : f[i] = g[i]
        BY <1>1
    <3> QED
        BY ONLY <2>1, <3>1, Commence
  <2> QED
      BY <1>1, <2>2
<1>3. \A i \in 1..d : i \in 1..Len(f) \/ i = Len(f) + 1 \/ i = d
    BY <1>1
<1>4. Len(f) + 1 \notin Promesse!Fins(g) /\ Len(f) + 1 \notin Promesse!FinsEvt(g)
  <2>1. g[Len(f) + 1][2] = "texte"
      BY <1>1
  <2> QED
      BY <2>1 DEF Promesse!Fins, Promesse!FinsEvt
<1>5. d \in Promesse!Fins(g) <=> m.pour # {}
  <2>1. g[d][2] = "fin" /\ g[d][1] = m /\ d \in DOMAIN g
      BY <1>1, <1>2
  <2> QED
      BY <2>1 DEF Promesse!Fins
<1>6. d \in Promesse!FinsEvt(g) <=> m.pour = {}
  <2>1. g[d][2] = "fin" /\ g[d][1] = m /\ d \in DOMAIN g
      BY <1>1, <1>2
  <2> QED
      BY <2>1 DEF Promesse!FinsEvt
<1>7. /\ Promesse!Fins(g) \subseteq 1..d /\ Promesse!FinsEvt(g) \subseteq 1..d
      /\ \A i \in Promesse!Fins(g) : i \in Promesse!Fins(f) \/ i = d
      /\ \A i \in Promesse!FinsEvt(g) : i \in Promesse!FinsEvt(f) \/ i = d
  <2>1. Promesse!Fins(g) \subseteq 1..d /\ Promesse!FinsEvt(g) \subseteq 1..d
      BY <1>2 DEF Promesse!Fins, Promesse!FinsEvt
  <2> QED
      BY <1>2, <1>3, <1>4, <2>1
<1> HIDE DEF d
<1>8. d = Len(f) + 2 /\ d \in Nat
    BY <1>1 DEF d
\* texts and ends alternate
<1>9. ASSUME NEW i \in 1..Len(g), g[i][2] = "fin"
      PROVE  i > 1 /\ g[i - 1] = <<g[i][1], "texte">>
  <2>1. CASE i \in 1..Len(f)
    <3>1. f[i][2] = "fin" /\ g[i] = f[i]
        BY <1>1, <1>9, <2>1
    <3>2. i > 1 /\ f[i - 1] = <<f[i][1], "texte">>
        BY <2>1, <3>1 DEF Promesse!Sain
    <3>3. i - 1 \in 1..Len(f)
        BY <1>1, <2>1, <3>2
    <3> QED
        BY <1>1, <3>1, <3>2, <3>3
  <2>2. CASE i = Len(f) + 1
      BY <1>1, <1>9, <2>2
  <2>3. CASE i = d
    <3>1. i > 1 /\ i - 1 = Len(f) + 1
        BY <1>1, <1>8, <2>3
    <3> QED
        BY <1>1, <2>3, <3>1
  <2> QED
      BY <1>1, <1>3, <1>8, <2>1, <2>2, <2>3
<1>10. ASSUME NEW i \in 1..(Len(g) - 1), g[i][2] = "texte"
       PROVE  g[i + 1] = <<g[i][1], "fin">>
  <2>1. CASE i < Len(f)
    <3>1. i \in 1..(Len(f) - 1) /\ i \in 1..Len(f) /\ i + 1 \in 1..Len(f)
        BY <1>1, <1>8, <2>1
    <3>2. g[i] = f[i] /\ g[i + 1] = f[i + 1]
        BY <1>1, <3>1
    <3>3. f[i + 1] = <<f[i][1], "fin">>
        BY <1>10, <3>1, <3>2 DEF Promesse!Sain
    <3> QED
        BY <3>2, <3>3
  <2>2. CASE i = Len(f)
    <3>1. i \in 1..Len(f) /\ f # <<>>
      <4>1. Len(f) # 0
          BY <1>1, <2>2
      <4> QED
          BY <1>1, <2>2, <4>1, EmptySeq
    <3>2. g[i][2] = "fin"
        BY <1>1, <2>2, <3>1 DEF Entier
    <3> QED
        BY <1>10, <3>2
  <2>3. CASE i = Len(f) + 1
    <3>1. i + 1 = d
        BY <1>1, <1>8, <2>3
    <3> QED
        BY <1>1, <2>3, <3>1
  <2>4. i < Len(f) \/ i = Len(f) \/ i = Len(f) + 1
      BY <1>1, <1>8
  <2> QED
      BY <2>1, <2>2, <2>3, <2>4
\* answers
<1>11. ASSUME NEW i \in Promesse!Fins(g)
       PROVE  g[i][1] = Promesse!Reponse(c, Promesse!Cardinality(Promesse!Fins(SubSeq(g, 1, i))))
  <2>1. CASE i \in Promesse!Fins(f)
    <3>1. i \in 1..Len(f) /\ g[i] = f[i] /\ SubSeq(f, 1, i) = SubSeq(g, 1, i)
        BY <1>1, <1>2, <2>1
    <3>2. f[i][1] = Promesse!Reponse(c, Promesse!Cardinality(Promesse!Fins(SubSeq(f, 1, i))))
        BY <2>1 DEF Promesse!Sain
    <3> QED
        BY <3>1, <3>2
  <2>2. CASE i = d
    <3>1. m.pour # {}
        BY <1>5, <1>11, <2>2
    <3>2. m = Promesse!Reponse(c, NbRep(f) + 1)
        BY <3>1
    <3>3. NbRep(g) = NbRep(f) + 1
        BY <3>1, FluxMessage
    <3>4. SubSeq(g, 1, d) = g
        BY <1>1, SubSeqFull
    <3>5. NbRep(g) = Promesse!Cardinality(Promesse!Fins(SubSeq(g, 1, i)))
        BY <2>2, <3>4 DEF NbRep, Promesse!Cardinality, Cardinality
    <3>6. g[i] = <<m, "fin">>
        BY <1>1, <2>2
    <3>7. g[i][1] = m
        BY <3>6
    <3> QED
        BY <3>2, <3>3, <3>5, <3>7
  <2> QED
      BY <1>7, <2>1, <2>2
\* events
<1>12. ASSUME NEW i \in Promesse!FinsEvt(g), NEW j \in Promesse!FinsEvt(g), i < j,
              \A k \in Promesse!FinsEvt(g) : k <= i \/ j <= k
       PROVE  g[j][1].n = g[i][1].n + 1
  <2>1. i \in Promesse!FinsEvt(f) /\ i \in 1..Len(f) /\ g[i] = f[i]
      BY <1>1, <1>2, <1>7, <1>8, <1>12
  <2>2. CASE j \in Promesse!FinsEvt(f)
    <3>1. g[j] = f[j]
        BY <1>1, <1>2, <2>2
    <3>2. \A k \in Promesse!FinsEvt(f) : k <= i \/ j <= k
        BY <1>2, <1>12
    <3>3. f[j][1].n = f[i][1].n + 1
        BY <1>12, <2>1, <2>2, <3>2 DEF Promesse!Sain
    <3> QED
        BY <2>1, <3>1, <3>3
  <2>3. CASE j = d
    <3>1. m.pour = {} /\ g[j] = <<m, "fin">>
        BY <1>1, <1>6, <1>12, <2>3
    <3>2. \A k \in Promesse!FinsEvt(f) : k <= i
      <4>1. ASSUME NEW k \in Promesse!FinsEvt(f)
            PROVE  k <= i
        <5>1. k \in 1..Len(f) /\ k \in Promesse!FinsEvt(g)
            BY <1>2
        <5>2. ~(j <= k)
            BY <1>1, <1>8, <2>3, <5>1
        <5> QED
            BY <1>12, <5>1, <5>2
      <4> QED
          BY <4>1
    <3>3. f[i][1].n = n
        BY <2>1, <3>2 DEF JusquA
    <3> QED
        BY <2>1, <3>1, <3>3
  <2> QED
      BY <1>7, <2>2, <2>3
<1>13. Promesse!Sain(c, g)
    BY <1>9, <1>10, <1>11, <1>12 DEF Promesse!Sain
<1>14. Entier(g)
    BY <1>1 DEF Entier
<1>15. ASSUME m.pour # {}
       PROVE  Promesse!FinsEvt(g) = Promesse!FinsEvt(f) /\ JusquA(g, n)
  <2>1. Promesse!FinsEvt(g) = Promesse!FinsEvt(f)
      BY <1>2, <1>6, <1>7, <1>15
  <2>2. \A i \in Promesse!FinsEvt(f) : g[i] = f[i]
      BY <1>1, <1>2
  <2> QED
      BY <2>1, <2>2 DEF JusquA
<1>16. ASSUME m.pour = {}
       PROVE  JusquA(g, n + 1)
  <2>1. d \in Promesse!FinsEvt(g) /\ g[d][1].n = n + 1
      BY <1>1, <1>6, <1>16
  <2>2. ASSUME NEW i \in Promesse!FinsEvt(g), \A k \in Promesse!FinsEvt(g) : k <= i
        PROVE  g[i][1].n = n + 1
    <3>1. i \in 1..d /\ d <= i
        BY <1>7, <2>1, <2>2
    <3>2. i = d
        BY <1>8, <3>1
    <3> QED
        BY <2>1, <3>2
  <2> QED
      BY <2>2 DEF JusquA
<1> QED
    BY <1>1, <1>13, <1>14, <1>15, <1>16


\* What is known of the flow f of the client c when O are open, K closed, A have
\* subscribed and n events have been broadcast.
SuiviDe(c, f, O, K, A, n) ==
    /\ Promesse!Sain(c, f)
    /\ c \notin O \union K => f = <<>>
    /\ c \in A => c \in O
    /\ c \in O => Entier(f)
    /\ c \in A => JusquA(f, n)
    /\ c \in O \ A => Promesse!FinsEvt(f) = {}

LEMMA FlotVide ==
    ASSUME NEW c \in Clients
    PROVE  Promesse!Sain(c, <<>>) /\ Entier(<<>>) /\ Promesse!FinsEvt(<<>>) = {}
<1>1. DOMAIN <<>> = {} /\ Len(<<>>) = 0
    OBVIOUS
<1>2. Promesse!Fins(<<>>) = {} /\ Promesse!FinsEvt(<<>>) = {}
    BY <1>1 DEF Promesse!Fins, Promesse!FinsEvt
<1>3. Promesse!Sain(c, <<>>)
    BY <1>1, <1>2 DEF Promesse!Sain
<1> QED
    BY <1>2, <1>3 DEF Entier

\* An answer, with or without the subscription that it confirms.
LEMMA SuiviRepond ==
    ASSUME NEW c \in Clients, NEW f \in Seq(Piece), NEW O, NEW K, NEW A, NEW n \in Nat,
           SuiviDe(c, f, O, K, A, n), c \in O,
           NEW B, c \in A => c \in B
    PROVE  LET g == f \o Promesse!Message(Promesse!Reponse(c, NbRep(f) + 1))
           IN  SuiviDe(c, g, O, K, B, n)
<1>1. PICK m : m = Promesse!Reponse(c, NbRep(f) + 1)
    OBVIOUS
<1>2. m \in Entete /\ m.pour # {}
  <2>1. NbRep(f) + 1 \in Nat
    <3>1. Promesse!Evenement(0) \in Entete
        BY Entetes
    <3>2. NbRep(f) \in Nat
        BY <3>1, FluxMessage
    <3> QED
        BY <3>2
  <2> QED
      BY <1>1, <2>1, Entetes
<1>3. PICK g : g = f \o Promesse!Message(m)
    OBVIOUS
<1>4. PICK k \in Nat : JusquA(f, k) /\ (c \in A => k = n)
  <2>1. CASE c \in A
      BY <2>1 DEF SuiviDe
  <2>2. CASE c \notin A
    <3>1. JusquA(f, n)
        BY <2>2 DEF SuiviDe, JusquA
    <3> QED
        BY <2>2, <3>1
  <2> QED
      BY <2>1, <2>2
<1>5. Promesse!Sain(c, f) /\ Entier(f)
    BY DEF SuiviDe
<1>6. /\ Promesse!Sain(c, g) /\ Entier(g)
      /\ Promesse!FinsEvt(g) = Promesse!FinsEvt(f) /\ JusquA(g, k)
  <2>1. /\ m.pour # {} => m = Promesse!Reponse(c, NbRep(f) + 1)
        /\ m.pour = {} => m.n = k + 1
      BY <1>1, <1>2
  <2>2. JusquA(f, k) /\ k \in Nat /\ m \in Entete /\ c \in Clients /\ f \in Seq(Piece)
      BY <1>2, <1>4
  <2>3. /\ Promesse!Sain(c, g) /\ Entier(g)
        /\ m.pour # {} => Promesse!FinsEvt(g) = Promesse!FinsEvt(f) /\ JusquA(g, k)
      BY ONLY <1>3, <1>5, <2>1, <2>2, SainAjoute
  <2> QED
      BY <1>2, <2>3
<1>7. c \in B => JusquA(g, n)
  <2>1. CASE c \in A
      BY <1>4, <1>6, <2>1
  <2>2. CASE c \notin A
    <3>1. Promesse!FinsEvt(g) = {}
        BY <1>6, <2>2 DEF SuiviDe
    <3> QED
        BY <3>1 DEF JusquA
  <2> QED
      BY <2>1, <2>2
<1>8. c \in O \ B => Promesse!FinsEvt(g) = {}
    BY <1>6 DEF SuiviDe
<1>9. SuiviDe(c, g, O, K, B, n)
    BY <1>6, <1>7, <1>8 DEF SuiviDe
<1> QED
    BY <1>1, <1>3, <1>9

\* An event, for a client that has subscribed.
LEMMA SuiviDiffuse ==
    ASSUME NEW c \in Clients, NEW f \in Seq(Piece), NEW O, NEW K, NEW A, NEW n \in Nat,
           SuiviDe(c, f, O, K, A, n), c \in A,
           NEW P, NEW Q, NEW B, c \in P, c \in B
    PROVE  SuiviDe(c, f \o Promesse!Message(Promesse!Evenement(n + 1)), P, Q, B, n + 1)
<1>1. PICK m : m = Promesse!Evenement(n + 1)
    OBVIOUS
<1>2. m \in Entete /\ m.pour = {} /\ m.n = n + 1
  <2>1. n + 1 \in Nat
      OBVIOUS
  <2>2. m.n = n + 1
      BY <1>1 DEF Promesse!Evenement
  <2> QED
      BY <1>1, <2>1, <2>2, Entetes
<1>3. PICK g : g = f \o Promesse!Message(m)
    OBVIOUS
<1>4. Promesse!Sain(c, f) /\ Entier(f) /\ JusquA(f, n)
    BY DEF SuiviDe
<1>5. Promesse!Sain(c, g) /\ Entier(g) /\ JusquA(g, n + 1)
    BY <1>2, <1>3, <1>4, SainAjoute
<1>6. SuiviDe(c, g, P, Q, B, n + 1)
    BY <1>5 DEF SuiviDe
<1> QED
    BY <1>1, <1>3, <1>6

\* The end of the connection: a beginning of the flow has arrived.
LEMMA SuiviClot ==
    ASSUME NEW c \in Clients, NEW f \in Seq(Piece), NEW O, NEW K, NEW A, NEW n,
           SuiviDe(c, f, O, K, A, n),
           NEW P, NEW Q, NEW B, NEW m, c \notin P, c \in Q, c \notin B,
           NEW k \in 0..Len(f)
    PROVE  SuiviDe(c, SubSeq(f, 1, k), P, Q, B, m)
<1>1. Promesse!Sain(c, f)
    BY DEF SuiviDe
<1>2. Promesse!Sain(c, SubSeq(f, 1, k))
    BY <1>1, SainDebut
<1> QED
    BY <1>2 DEF SuiviDe


SuiviInv ==
    \A c \in Clients :
        SuiviDe(c, Flux(c), Ouvertes(etat), Closes(etat), Abonnes(clients), evenements)

LEMMA SuiviInit == Init => SuiviInv
<1> SUFFICES ASSUME Init, NEW c \in Clients
             PROVE  SuiviDe(c, Flux(c), Ouvertes(etat), Closes(etat), Abonnes(clients),
                            evenements)
    BY DEF SuiviInv
<1>1. Flux(c) = <<>> /\ c \notin Ouvertes(etat)
    BY DEF Init, Flux, Ouvertes
<1>2. c \notin Abonnes(clients)
  <2>1. ~Vide.subscribed
      BY DEF Vide
  <2> QED
      BY <2>1 DEF Init, Abonnes
<1> QED
    BY <1>1, <1>2, FlotVide DEF SuiviDe

\* The remaining actions of Dialogue.
LEMMA DialogueDit2 ==
    /\ \A cs : Promesse!Repondre(cs) =>
          /\ cs \subseteq Ouvertes(etat)
          /\ \A c \in Clients :
                Flux(c)' = IF c \in cs
                           THEN Flux(c) \o Promesse!Message(Promesse!Reponse(c, NbRep(Flux(c)) + 1))
                           ELSE Flux(c)
          /\ Abonnes(clients) \subseteq Abonnes(clients')
          /\ Abonnes(clients') \subseteq Abonnes(clients) \union cs
          /\ Ouvertes(etat') = Ouvertes(etat) /\ Closes(etat') = Closes(etat)
          /\ evenements' = evenements
    /\ \A cs : Promesse!Diffuser(cs) =>
          /\ evenements' = evenements + 1
          /\ Ouvertes(etat') = Ouvertes(etat) \ cs
          /\ Closes(etat') = Closes(etat) \union cs
          /\ Abonnes(clients') = Abonnes(clients) \ cs
          /\ \A c \in Clients :
                IF c \in cs THEN \E k \in 0..Len(Flux(c)) : Flux(c)' = SubSeq(Flux(c), 1, k)
                ELSE Flux(c)' = IF c \in Abonnes(clients)
                                THEN Flux(c) \o Promesse!Message(Promesse!Evenement(evenements + 1))
                                ELSE Flux(c)
    /\ \A c : Promesse!Demander(c) =>
          /\ Ouvertes(etat') = Ouvertes(etat) /\ Closes(etat') = Closes(etat)
          /\ Abonnes(clients') = Abonnes(clients) /\ evenements' = evenements
          /\ LesFlux' = LesFlux
    /\ UNCHANGED Promesse!dialogue =>
          /\ Ouvertes(etat') = Ouvertes(etat) /\ Closes(etat') = Closes(etat)
          /\ Abonnes(clients') = Abonnes(clients) /\ evenements' = evenements
          /\ LesFlux' = LesFlux
<1>1. \A c \in Clients : Promesse!Repondues(c) = NbRep(Flux(c))
    BY ReponduesVaut
<1>2. ASSUME NEW cs, Promesse!Repondre(cs)
      PROVE  /\ cs \subseteq Ouvertes(etat)
             /\ \A c \in Clients :
                Flux(c)' = IF c \in cs
                           THEN Flux(c) \o Promesse!Message(Promesse!Reponse(c, NbRep(Flux(c)) + 1))
                           ELSE Flux(c)
             /\ Abonnes(clients) \subseteq Abonnes(clients')
             /\ Abonnes(clients') \subseteq Abonnes(clients) \union cs
             /\ Ouvertes(etat') = Ouvertes(etat) /\ Closes(etat') = Closes(etat)
             /\ evenements' = evenements
  <2>1. /\ cs \subseteq Ouvertes(etat)
        /\ [c \in Clients |-> Flux(c)]' =
              [c \in Clients |->
                 IF c \in cs THEN LesFlux[c] \o
                    Promesse!Message(Promesse!Reponse(c, Promesse!Repondues(c) + 1))
                 ELSE LesFlux[c]]
        /\ Abonnes(clients') = Abonnes(clients) \union
              {c \in cs : lignes[c][Promesse!Repondues(c) + 1] = "subscribe"}
        /\ Ouvertes(etat') = Ouvertes(etat) /\ Closes(etat') = Closes(etat)
        /\ evenements' = evenements
      BY <1>2 DEF Promesse!Repondre, Ouvertes, Closes, Abonnes, LesFlux
  <2>2. ASSUME NEW c \in Clients
        PROVE  Flux(c)' = IF c \in cs
                          THEN Flux(c) \o Promesse!Message(Promesse!Reponse(c, NbRep(Flux(c)) + 1))
                          ELSE Flux(c)
    <3>1. LesFlux[c] = Flux(c) /\ [d \in Clients |-> Flux(d)]'[c] = Flux(c)'
        BY DEF LesFlux
    <3> QED
        BY <1>1, <2>1, <3>1
  <2> QED
      BY <2>1, <2>2
<1>3. ASSUME NEW cs, Promesse!Diffuser(cs)
      PROVE  /\ evenements' = evenements + 1
             /\ Ouvertes(etat') = Ouvertes(etat) \ cs
             /\ Closes(etat') = Closes(etat) \union cs
             /\ Abonnes(clients') = Abonnes(clients) \ cs
             /\ \A c \in Clients :
                IF c \in cs THEN \E k \in 0..Len(Flux(c)) : Flux(c)' = SubSeq(Flux(c), 1, k)
                ELSE Flux(c)' = IF c \in Abonnes(clients)
                                THEN Flux(c) \o Promesse!Message(Promesse!Evenement(evenements + 1))
                                ELSE Flux(c)
    BY <1>3 DEF Promesse!Diffuser, Ouvertes, Closes, Abonnes, LesFlux
<1>4. ASSUME NEW c, Promesse!Demander(c)
      PROVE  /\ Ouvertes(etat') = Ouvertes(etat) /\ Closes(etat') = Closes(etat)
             /\ Abonnes(clients') = Abonnes(clients) /\ evenements' = evenements
             /\ LesFlux' = LesFlux
    BY <1>4 DEF Promesse!Demander, Ouvertes, Closes, Abonnes, LesFlux
<1>5. ASSUME UNCHANGED Promesse!dialogue
      PROVE  /\ Ouvertes(etat') = Ouvertes(etat) /\ Closes(etat') = Closes(etat)
             /\ Abonnes(clients') = Abonnes(clients) /\ evenements' = evenements
             /\ LesFlux' = LesFlux
    BY <1>5 DEF Promesse!dialogue, Ouvertes, Closes, Abonnes, LesFlux
<1> QED
    BY <1>2, <1>3, <1>4, <1>5

LEMMA SuiviNext ==
    ASSUME TypeInv, SuiviInv, [Promesse!DNext]_(Promesse!dialogue)
    PROVE  SuiviInv'
<1> DEFINE S(c) == SuiviDe(c, Flux(c), Ouvertes(etat), Closes(etat), Abonnes(clients),
                           evenements)
<1>1. \A c \in Clients : S(c) /\ Flux(c) \in Seq(Piece)
    BY FluxType DEF SuiviInv
<1>2. evenements \in Nat
    BY DEF TypeInv
\* nothing that the flows depend on
<1>3. ASSUME Ouvertes(etat') = Ouvertes(etat), Closes(etat') = Closes(etat),
             Abonnes(clients') = Abonnes(clients), evenements' = evenements,
             LesFlux' = LesFlux, NEW c \in Clients
      PROVE  S(c)'
  <2>1. LesFlux[c] = Flux(c) /\ LesFlux'[c] = Flux(c)'
      BY DEF LesFlux
  <2>2. Flux(c)' = Flux(c)
      BY <1>3, <2>1
  <2>3. S(c)
      BY <1>1
  <2> QED
      BY <1>3, <2>2, <2>3 DEF SuiviDe
<1>4. ASSUME NEW cs, Promesse!Ouvrir(cs), NEW c \in Clients
      PROVE  S(c)'
  <2>1. /\ cs \intersect (Ouvertes(etat) \union Closes(etat)) = {}
        /\ Ouvertes(etat') = Ouvertes(etat) \union cs
        /\ Closes(etat') = Closes(etat) /\ Abonnes(clients') = Abonnes(clients)
        /\ LesFlux' = LesFlux /\ evenements' = evenements
      BY <1>4, DialogueDit
  <2>2. LesFlux[c] = Flux(c) /\ LesFlux'[c] = Flux(c)'
      BY DEF LesFlux
  <2>3. Flux(c)' = Flux(c) /\ S(c)
      BY <1>1, <2>1, <2>2
  <2>4. CASE c \in cs
    <3>1. c \notin Ouvertes(etat) \union Closes(etat)
        BY <2>1, <2>4
    <3>2. Flux(c) = <<>> /\ c \notin Abonnes(clients)
        BY <2>3, <3>1 DEF SuiviDe
    <3> QED
        BY <2>1, <2>3, <3>1, <3>2, FlotVide DEF SuiviDe
  <2>5. CASE c \notin cs
      BY <2>1, <2>3, <2>5 DEF SuiviDe
  <2> QED
      BY <2>4, <2>5
<1>5. ASSUME NEW cs, Promesse!Repondre(cs), NEW c \in Clients
      PROVE  S(c)'
  <2>1. /\ cs \subseteq Ouvertes(etat)
        /\ Flux(c)' = IF c \in cs
                      THEN Flux(c) \o Promesse!Message(Promesse!Reponse(c, NbRep(Flux(c)) + 1))
                      ELSE Flux(c)
        /\ Abonnes(clients) \subseteq Abonnes(clients')
        /\ Abonnes(clients') \subseteq Abonnes(clients) \union cs
        /\ Ouvertes(etat') = Ouvertes(etat) /\ Closes(etat') = Closes(etat)
        /\ evenements' = evenements
      BY <1>5, DialogueDit2
  <2>2. CASE c \in cs
    <3>1. c \in Ouvertes(etat) /\ (c \in Abonnes(clients) => c \in Abonnes(clients'))
        BY <2>1, <2>2
    <3>2. SuiviDe(c, Flux(c) \o Promesse!Message(Promesse!Reponse(c, NbRep(Flux(c)) + 1)),
                  Ouvertes(etat), Closes(etat), Abonnes(clients'), evenements)
        BY <1>1, <1>2, <3>1, SuiviRepond
    <3> QED
        BY <2>1, <2>2, <3>2
  <2>3. CASE c \notin cs
    <3>1. c \in Abonnes(clients') <=> c \in Abonnes(clients)
        BY <2>1, <2>3
    <3>2. S(c)
        BY <1>1
    <3> QED
        BY <2>1, <2>3, <3>1, <3>2 DEF SuiviDe
  <2> QED
      BY <2>2, <2>3
\* a connection that ends
<1>6. ASSUME NEW cs, NEW c \in Clients, c \in cs,
             Ouvertes(etat') = Ouvertes(etat) \ cs,
             Closes(etat') = Closes(etat) \union cs,
             Abonnes(clients') = Abonnes(clients) \ cs,
             \E k \in 0..Len(Flux(c)) : Flux(c)' = SubSeq(Flux(c), 1, k)
      PROVE  S(c)'
  <2>1. PICK k \in 0..Len(Flux(c)) : Flux(c)' = SubSeq(Flux(c), 1, k)
      BY <1>6
  <2>2. c \notin Ouvertes(etat') /\ c \in Closes(etat') /\ c \notin Abonnes(clients')
      BY <1>6
  <2>3. SuiviDe(c, SubSeq(Flux(c), 1, k), Ouvertes(etat'), Closes(etat'), Abonnes(clients'),
                evenements')
      BY <1>1, <2>2, SuiviClot
  <2> QED
      BY <2>1, <2>3
<1>7. ASSUME NEW cs, Promesse!Clore(cs), NEW c \in Clients
      PROVE  S(c)'
  <2>1. /\ Ouvertes(etat') = Ouvertes(etat) \ cs
        /\ Closes(etat') = Closes(etat) \union cs
        /\ Abonnes(clients') = Abonnes(clients) \ cs
        /\ IF c \in cs THEN \E k \in 0..Len(Flux(c)) : Flux(c)' = SubSeq(Flux(c), 1, k)
                       ELSE Flux(c)' = Flux(c)
        /\ evenements' = evenements
      BY <1>7, DialogueDit
  <2>2. CASE c \in cs
      BY <1>6, <2>1, <2>2
  <2>3. CASE c \notin cs
    <3>1. S(c)
        BY <1>1
    <3> QED
        BY <2>1, <2>3, <3>1 DEF SuiviDe
  <2> QED
      BY <2>2, <2>3
<1>8. ASSUME NEW cs, Promesse!Diffuser(cs), NEW c \in Clients
      PROVE  S(c)'
  <2>1. /\ evenements' = evenements + 1
        /\ Ouvertes(etat') = Ouvertes(etat) \ cs
        /\ Closes(etat') = Closes(etat) \union cs
        /\ Abonnes(clients') = Abonnes(clients) \ cs
        /\ IF c \in cs THEN \E k \in 0..Len(Flux(c)) : Flux(c)' = SubSeq(Flux(c), 1, k)
           ELSE Flux(c)' = IF c \in Abonnes(clients)
                           THEN Flux(c) \o Promesse!Message(Promesse!Evenement(evenements + 1))
                           ELSE Flux(c)
      BY <1>8, DialogueDit2
  <2>2. CASE c \in cs
      BY <1>6, <2>1, <2>2
  <2>3. CASE c \notin cs /\ c \in Abonnes(clients)
    <3>1. c \in Ouvertes(etat)
        BY <1>1, <2>3 DEF SuiviDe
    <3>2. c \in Ouvertes(etat') /\ c \in Abonnes(clients')
        BY <2>1, <2>3, <3>1
    <3>3. SuiviDe(c, Flux(c) \o Promesse!Message(Promesse!Evenement(evenements + 1)),
                  Ouvertes(etat'), Closes(etat'), Abonnes(clients'), evenements + 1)
        BY <1>1, <1>2, <2>3, <3>2, SuiviDiffuse
    <3> QED
        BY <2>1, <2>3, <3>3
  <2>4. CASE c \notin cs /\ c \notin Abonnes(clients)
    <3>1. S(c)
        BY <1>1
    <3>2. c \notin Abonnes(clients') /\ Flux(c)' = Flux(c)
        BY <2>1, <2>4
    <3> QED
        BY <2>1, <2>4, <3>1, <3>2 DEF SuiviDe
  <2> QED
      BY <2>2, <2>3, <2>4
<1>9. \A c \in Clients : S(c)'
  <2>1. CASE \E cs \in SUBSET Clients : \/ Promesse!Ouvrir(cs) \/ Promesse!Repondre(cs)
                                        \/ Promesse!Clore(cs) \/ Promesse!Diffuser(cs)
      BY <1>4, <1>5, <1>7, <1>8, <2>1
  <2>2. CASE (\E c \in Clients : Promesse!Demander(c)) \/ UNCHANGED Promesse!dialogue
    <3>1. /\ Ouvertes(etat') = Ouvertes(etat) /\ Closes(etat') = Closes(etat)
          /\ Abonnes(clients') = Abonnes(clients) /\ evenements' = evenements
          /\ LesFlux' = LesFlux
        BY <2>2, DialogueDit2
    <3> QED
        BY <1>3, <3>1
  <2> QED
      BY <2>1, <2>2 DEF Promesse!DNext
<1> QED
    BY <1>9 DEF SuiviInv

\* What a client has read is a beginning of its flow.
LEMMA SuiviDonne ==
    ASSUME TypeInv, SuiviInv
    PROVE  ReceivedIsSound
<1>1. ASSUME NEW c \in Clients
      PROVE  Promesse!Sain(c, recu[c])
  <2>1. PICK k \in 0..Len(Flux(c)) : recu[c] = SubSeq(Flux(c), 1, k)
      BY FluxType
  <2>2. Flux(c) \in Seq(Piece) /\ Promesse!Sain(c, Flux(c))
      BY FluxType DEF SuiviInv, SuiviDe
  <2>3. Promesse!Sain(c, SubSeq(Flux(c), 1, k))
      BY <2>2, SainDebut
  <2> QED
      BY <2>1, <2>3
<1> QED
    BY <1>1 DEF ReceivedIsSound

\* What a client has read is whole messages and a beginning of one: its own answers
\* numbered 1, 2, 3... and events without a gap, however the reads, the writes and the
\* broadcasts interleave (write_client, client_append, ipc_server_broadcast).
THEOREM ReceivedSound == Spec => []ReceivedIsSound
<1>1. Init => SuiviInv
    BY SuiviInit
<1>2. IInv /\ IInv' /\ SuiviInv /\ [Next]_vars => SuiviInv'
  <2> SUFFICES ASSUME IInv, IInv', SuiviInv, [Next]_vars
               PROVE  SuiviInv'
      OBVIOUS
  <2>1. TypeInv /\ TypeInv'
      BY DEF IInv
  <2>2. [Promesse!DNext]_(Promesse!dialogue)
      BY <2>1, DialogueNext
  <2> QED
      BY <2>1, <2>2, SuiviNext
<1>3. IInv /\ SuiviInv => ReceivedIsSound
    BY SuiviDonne DEF IInv
<1> QED
    BY <1>1, <1>2, <1>3, InvariantInductif, PTL DEF Spec
=============================================================================
