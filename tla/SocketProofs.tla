---------------------------- MODULE SocketProofs ----------------------------
(***************************************************************************)
(* Proofs about SocketLifecycle, for any set of starts of the service.     *)
(* What is promised of the path rests on where each process may be when    *)
(* the path names a file, a socket in use, or the socket of a lone service.*)
(***************************************************************************)
EXTENDS SocketLifecycle, TLAPS

AvantLien == {"neuf", "bind", "lstat", "connect", "unlink", "rebind"}

\* A process owns the path as soon as it is bound, and listens once it has said so.
OwnInv == \A p \in Services :
    /\ etape[p] \in {"chmod", "listen", "sigaction", "boucle", "retirer"} => p \in owns_socket
    /\ etape[p] \in AvantLien => p \notin owns_socket
    /\ etape[p] \in {"sigaction", "boucle"} => p \in ecoutent

\* While the path names an ordinary file, no process is on its way to remove it.
FileInv == chemin = Fichier =>
    \A p \in Services :
        /\ p \notin owns_socket
        /\ etape[p] \in {"neuf", "bind", "lstat", "close"} \union Finies

\* While q is in use, a process that came later is not on its way to remove it.
NewInv == \A p, q \in Services :
    chemin = q /\ q \in ecoutent /\ p # q /\ p \notin anciens[q] =>
        /\ etape[p] \in {"neuf", "bind", "lstat", "connect", "close"} \union Finies
        /\ etape[p] = "close" => p \notin owns_socket

\* A process that has always been alone finds the path as it last saw it.
AloneInv == \A p \in Services \ accompagnes :
    /\ p \in Vivants => Vivants = {p}
    /\ etape[p] \in {"lstat", "connect", "unlink"} => chemin # Rien
    /\ etape[p] \in {"connect", "unlink"} => chemin # Fichier
    /\ etape[p] = "rebind" => chemin = Rien
    /\ etape[p] \in {"chmod", "listen", "sigaction", "boucle"} => chemin = p
    /\ etape[p] = "close" /\ p \notin owns_socket => chemin = Fichier
    /\ etape[p] = "echec" => chemin = Fichier

IInv == TypeOK /\ OwnInv /\ FileInv /\ NewInv /\ AloneInv /\ OnlyAKillLeavesASocket

\* Each step keeps the values of the variables.
LEMMA TypeStep == TypeOK /\ OwnInv /\ [Next]_vars => TypeOK'
<1> SUFFICES ASSUME TypeOK, OwnInv, [Next]_vars PROVE TypeOK'
    OBVIOUS
<1> USE SocketAssumption DEF TypeOK, Etapes, Finies, Vivants, Aller, OwnInv, AvantLien
<1>1. CASE UNCHANGED vars
    BY <1>1 DEF vars
<1>2. ASSUME NEW p \in Services,
             Demarrer(p) \/ Initialiser(p) \/ Terminer(p) \/ Mourir(p)
      PROVE  TypeOK'
  <2>1. CASE Demarrer(p)
        BY <2>1 DEF Demarrer
  <2>2. CASE Bind(p)
        BY <2>2 DEF Bind, Lie
  <2>3. CASE Lstat(p)
        BY <2>3 DEF Lstat, reste, EstSocket
  <2>4. CASE Connect(p)
        BY <2>4 DEF Connect, reste, Actif
  <2>5. CASE Unlink(p)
        BY <2>5 DEF Unlink
  <2>6. CASE Rebind(p)
        BY <2>6 DEF Rebind, reste, Lie
  <2>7. CASE Chmod(p)
        BY <2>7 DEF Chmod, reste
  <2>8. CASE Listen(p)
        BY <2>8 DEF Listen
  <2>9. CASE Sigaction(p)
        BY <2>9 DEF Sigaction, reste
  <2>10. CASE FinBoucle(p)
        BY <2>10 DEF FinBoucle, reste
  <2>11. CASE Close(p)
        BY <2>11 DEF Close
  <2>12. CASE Retirer(p)
        BY <2>12 DEF Retirer
  <2>13. CASE Mourir(p)
        BY <2>13 DEF Mourir
  <2> QED
      BY <1>2, <2>1, <2>2, <2>3, <2>4, <2>5, <2>6, <2>7,
         <2>8, <2>9, <2>10, <2>11, <2>12, <2>13 DEF Initialiser, Terminer
<1> QED
    BY <1>1, <1>2 DEF Next

\* Each step keeps who owns the path and who listens.
LEMMA OwnStep == TypeOK /\ OwnInv /\ [Next]_vars => OwnInv'
<1> SUFFICES ASSUME TypeOK /\ OwnInv, [Next]_vars PROVE OwnInv'
    OBVIOUS
<1> USE SocketAssumption DEF TypeOK, Etapes, Finies, Vivants, Aller, OwnInv, AvantLien
<1>1. CASE UNCHANGED vars
    BY <1>1 DEF vars
<1>2. ASSUME NEW p \in Services,
             Demarrer(p) \/ Initialiser(p) \/ Terminer(p) \/ Mourir(p)
      PROVE  OwnInv'
  <2>1. CASE Demarrer(p)
        BY <2>1 DEF Demarrer
  <2>2. CASE Bind(p)
        BY <2>2 DEF Bind, Lie
  <2>3. CASE Lstat(p)
        BY <2>3 DEF Lstat, reste, EstSocket
  <2>4. CASE Connect(p)
        BY <2>4 DEF Connect, reste, Actif
  <2>5. CASE Unlink(p)
        BY <2>5 DEF Unlink
  <2>6. CASE Rebind(p)
        BY <2>6 DEF Rebind, reste, Lie
  <2>7. CASE Chmod(p)
        BY <2>7 DEF Chmod, reste
  <2>8. CASE Listen(p)
        BY <2>8 DEF Listen
  <2>9. CASE Sigaction(p)
        BY <2>9 DEF Sigaction, reste
  <2>10. CASE FinBoucle(p)
        BY <2>10 DEF FinBoucle, reste
  <2>11. CASE Close(p)
        BY <2>11 DEF Close
  <2>12. CASE Retirer(p)
        BY <2>12 DEF Retirer
  <2>13. CASE Mourir(p)
        BY <2>13 DEF Mourir
  <2> QED
      BY <1>2, <2>1, <2>2, <2>3, <2>4, <2>5, <2>6, <2>7,
         <2>8, <2>9, <2>10, <2>11, <2>12, <2>13 DEF Initialiser, Terminer
<1> QED
    BY <1>1, <1>2 DEF Next

\* Each step keeps that a process which ends by itself has left the path before.
LEMMA KillStep ==
    TypeOK /\ OwnInv /\ OnlyAKillLeavesASocket /\ [Next]_vars
        => OnlyAKillLeavesASocket'
<1> SUFFICES ASSUME TypeOK /\ OwnInv /\ OnlyAKillLeavesASocket, [Next]_vars
                 PROVE OnlyAKillLeavesASocket'
    OBVIOUS
<1> USE SocketAssumption DEF TypeOK, Etapes, Finies, Vivants, Aller, OwnInv, AvantLien,
                         OnlyAKillLeavesASocket
<1>1. CASE UNCHANGED vars
    BY <1>1 DEF vars
<1>2. ASSUME NEW p \in Services,
             Demarrer(p) \/ Initialiser(p) \/ Terminer(p) \/ Mourir(p)
      PROVE  OnlyAKillLeavesASocket'
  <2>1. CASE Demarrer(p)
        BY <2>1 DEF Demarrer
  <2>2. CASE Bind(p)
        BY <2>2 DEF Bind, Lie
  <2>3. CASE Lstat(p)
        BY <2>3 DEF Lstat, reste, EstSocket
  <2>4. CASE Connect(p)
        BY <2>4 DEF Connect, reste, Actif
  <2>5. CASE Unlink(p)
        BY <2>5 DEF Unlink
  <2>6. CASE Rebind(p)
        BY <2>6 DEF Rebind, reste, Lie
  <2>7. CASE Chmod(p)
        BY <2>7 DEF Chmod, reste
  <2>8. CASE Listen(p)
        BY <2>8 DEF Listen
  <2>9. CASE Sigaction(p)
        BY <2>9 DEF Sigaction, reste
  <2>10. CASE FinBoucle(p)
        BY <2>10 DEF FinBoucle, reste
  <2>11. CASE Close(p)
        BY <2>11 DEF Close
  <2>12. CASE Retirer(p)
        BY <2>12 DEF Retirer
  <2>13. CASE Mourir(p)
        BY <2>13 DEF Mourir
  <2> QED
      BY <1>2, <2>1, <2>2, <2>3, <2>4, <2>5, <2>6, <2>7,
         <2>8, <2>9, <2>10, <2>11, <2>12, <2>13 DEF Initialiser, Terminer
<1> QED
    BY <1>1, <1>2 DEF Next

\* Each step keeps the processes off the way to an ordinary file.
LEMMA FileStep == TypeOK /\ OwnInv /\ FileInv /\ [Next]_vars => FileInv'
<1> SUFFICES ASSUME TypeOK /\ OwnInv /\ FileInv, [Next]_vars PROVE FileInv'
    OBVIOUS
<1> USE SocketAssumption
    DEF TypeOK, Etapes, Finies, Vivants, Aller, OwnInv, AvantLien, FileInv
<1>1. CASE UNCHANGED vars
    BY <1>1 DEF vars
<1>2. ASSUME NEW p \in Services,
             Demarrer(p) \/ Initialiser(p) \/ Terminer(p) \/ Mourir(p)
      PROVE  FileInv'
  <2>1. CASE Demarrer(p)
        BY <2>1 DEF Demarrer
  <2>2. CASE Bind(p)
        BY <2>2 DEF Bind, Lie
  <2>3. CASE Lstat(p)
        BY <2>3 DEF Lstat, reste, EstSocket
  <2>4. CASE Connect(p)
        BY <2>4 DEF Connect, reste, Actif
  <2>5. CASE Unlink(p)
        BY <2>5 DEF Unlink
  <2>6. CASE Rebind(p)
        BY <2>6 DEF Rebind, reste, Lie
  <2>7. CASE Chmod(p)
        BY <2>7 DEF Chmod, reste
  <2>8. CASE Listen(p)
        BY <2>8 DEF Listen
  <2>9. CASE Sigaction(p)
        BY <2>9 DEF Sigaction, reste
  <2>10. CASE FinBoucle(p)
        BY <2>10 DEF FinBoucle, reste
  <2>11. CASE Close(p)
        BY <2>11 DEF Close
  <2>12. CASE Retirer(p)
        BY <2>12 DEF Retirer
  <2>13. CASE Mourir(p)
        BY <2>13 DEF Mourir
  <2> QED
      BY <1>2, <2>1, <2>2, <2>3, <2>4, <2>5, <2>6, <2>7,
         <2>8, <2>9, <2>10, <2>11, <2>12, <2>13 DEF Initialiser, Terminer
<1> QED
    BY <1>1, <1>2 DEF Next

\* Each step keeps newcomers off the way to a socket in use.
LEMMA NewStep == TypeOK /\ OwnInv /\ NewInv /\ [Next]_vars => NewInv'
<1> SUFFICES ASSUME TypeOK /\ OwnInv /\ NewInv, [Next]_vars PROVE NewInv'
    OBVIOUS
<1> USE SocketAssumption
    DEF TypeOK, Etapes, Finies, Vivants, Aller, OwnInv, AvantLien, NewInv
<1>1. CASE UNCHANGED vars
    BY <1>1 DEF vars
<1>2. ASSUME NEW p \in Services,
             Demarrer(p) \/ Initialiser(p) \/ Terminer(p) \/ Mourir(p)
      PROVE  NewInv'
  <2>1. CASE Demarrer(p)
        BY <2>1 DEF Demarrer
  <2>2. CASE Bind(p)
        BY <2>2 DEF Bind, Lie
  <2>3. CASE Lstat(p)
        BY <2>3 DEF Lstat, reste, EstSocket
  <2>4. CASE Connect(p)
        BY <2>4 DEF Connect, reste, Actif
  <2>5. CASE Unlink(p)
        BY <2>5 DEF Unlink
  <2>6. CASE Rebind(p)
        BY <2>6 DEF Rebind, reste, Lie
  <2>7. CASE Chmod(p)
        BY <2>7 DEF Chmod, reste
  <2>8. CASE Listen(p)
        BY <2>8 DEF Listen
  <2>9. CASE Sigaction(p)
        BY <2>9 DEF Sigaction, reste
  <2>10. CASE FinBoucle(p)
        BY <2>10 DEF FinBoucle, reste
  <2>11. CASE Close(p)
        BY <2>11 DEF Close
  <2>12. CASE Retirer(p)
        BY <2>12 DEF Retirer
  <2>13. CASE Mourir(p)
        BY <2>13 DEF Mourir
  <2> QED
      BY <1>2, <2>1, <2>2, <2>3, <2>4, <2>5, <2>6, <2>7,
         <2>8, <2>9, <2>10, <2>11, <2>12, <2>13 DEF Initialiser, Terminer
<1> QED
    BY <1>1, <1>2 DEF Next

\* Each step keeps what a lone process knows of the path.
LEMMA AloneStep == IInv /\ [Next]_vars => AloneInv'
<1> SUFFICES ASSUME IInv, [Next]_vars PROVE AloneInv'
    OBVIOUS
<1> USE SocketAssumption
    DEF TypeOK, Etapes, Finies, Vivants, Aller, IInv, OwnInv, AvantLien, FileInv, AloneInv
<1>1. CASE UNCHANGED vars
    BY <1>1 DEF vars
<1>2. ASSUME NEW p \in Services,
             Demarrer(p) \/ Initialiser(p) \/ Terminer(p) \/ Mourir(p)
      PROVE  AloneInv'
  <2>1. CASE Demarrer(p)
        BY <2>1 DEF Demarrer
  <2>2. CASE Bind(p)
        BY <2>2 DEF Bind, Lie
  <2>3. CASE Lstat(p)
        BY <2>3 DEF Lstat, reste, EstSocket
  <2>4. CASE Connect(p)
        BY <2>4 DEF Connect, reste, Actif
  <2>5. CASE Unlink(p)
        BY <2>5 DEF Unlink
  <2>6. CASE Rebind(p)
        BY <2>6 DEF Rebind, reste, Lie
  <2>7. CASE Chmod(p)
        BY <2>7 DEF Chmod, reste
  <2>8. CASE Listen(p)
        BY <2>8 DEF Listen
  <2>9. CASE Sigaction(p)
        BY <2>9 DEF Sigaction, reste
  <2>10. CASE FinBoucle(p)
        BY <2>10 DEF FinBoucle, reste
  <2>11. CASE Close(p)
        BY <2>11 DEF Close
  <2>12. CASE Retirer(p)
        BY <2>12 DEF Retirer
  <2>13. CASE Mourir(p)
        BY <2>13 DEF Mourir
  <2> QED
      BY <1>2, <2>1, <2>2, <2>3, <2>4, <2>5, <2>6, <2>7,
         <2>8, <2>9, <2>10, <2>11, <2>12, <2>13 DEF Initialiser, Terminer
<1> QED
    BY <1>1, <1>2 DEF Next

-----------------------------------------------------------------------------
LEMMA Inductive == Spec => []IInv
<1>1. Init => IInv
    BY SocketAssumption DEF Init, IInv, TypeOK, OwnInv, AvantLien, FileInv, NewInv, AloneInv,
       OnlyAKillLeavesASocket, Vivants, Etapes, Finies
<1>2. IInv /\ [Next]_vars => IInv'
    BY TypeStep, OwnStep, FileStep, NewStep, AloneStep, KillStep DEF IInv
<1> QED
    BY <1>1, <1>2, PTL DEF Spec

\* What listens is past its listen, and the path names the socket of its owner.
THEOREM SocketTypeCorrect == Spec => []TypeOK
<1>1. IInv => TypeOK
    BY DEF IInv
<1> QED
    BY <1>1, Inductive, PTL

\* A service that is always alone is refused for an ordinary file only, and the
\* path leads to it once it listens, whatever was killed before.
THEOREM LoneServiceServed == Spec => []AloneIsServed
<1>1. IInv => AloneIsServed
    BY DEF IInv, TypeOK, OwnInv, AloneInv, AloneIsServed
<1> QED
    BY <1>1, Inductive, PTL

\* No service that ended by itself leaves its socket at the path.
THEOREM CleanEnds == Spec => []OnlyAKillLeavesASocket
<1>1. IInv => OnlyAKillLeavesASocket
    BY DEF IInv
<1> QED
    BY <1>1, Inductive, PTL

\* No service, however many are started, removes a file that is not a socket.
THEOREM FileKept == Spec => OrdinaryFileKept
<1>1. IInv /\ [Next]_vars => [chemin = Fichier => chemin' = Fichier]_vars
  <2> SUFFICES ASSUME IInv, chemin = Fichier, NEW p \in Services,
                      Demarrer(p) \/ Initialiser(p) \/ Terminer(p) \/ Mourir(p)
               PROVE  chemin' = Fichier
      BY DEF Next, vars
  <2>1. p \notin owns_socket /\ etape[p] \in {"neuf", "bind", "lstat", "close"} \union Finies
      BY DEF IInv, FileInv
  <2>2. CASE Demarrer(p) \/ Mourir(p)
      BY <2>2 DEF Demarrer, Mourir
  <2>3. CASE Initialiser(p)
      BY <2>1, <2>3, SocketAssumption DEF Initialiser, Bind, Lstat, Connect, Unlink, Rebind,
         Chmod, Listen, Sigaction, reste, Finies
  <2>4. CASE Terminer(p)
      BY <2>1, <2>4 DEF Terminer, FinBoucle, Close, Retirer, reste, Finies
  <2> QED
      BY <2>2, <2>3, <2>4
<1> QED
    BY <1>1, Inductive, PTL DEF Spec, OrdinaryFileKept

\* Only a process alive when a socket began to listen can remove it while in use.
THEOREM NewcomersKept == Spec => NewcomersAreHarmless
<1> DEFINE A == \A p, q \in Services :
         chemin = q /\ q \in ecoutent /\ (Unlink(p) \/ Retirer(p)) => p \in anciens[q] \/ p = q
<1>1. IInv => A
    BY DEF IInv, NewInv, Unlink, Retirer, Finies
<1> QED
    BY <1>1, Inductive, PTL DEF Spec, NewcomersAreHarmless
=============================================================================
