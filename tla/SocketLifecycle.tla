-------------------------- MODULE SocketLifecycle ---------------------------
(***************************************************************************)
(* The socket file of the service (src/src/ipc/ipc_server.c:               *)
(* ipc_server_init, socket_is_stale, ipc_server_cleanup), when several     *)
(* processes of the service are started, stopped and killed on one path.   *)
(* Each step is one system call, so anything may happen between two.       *)
(*                                                                         *)
(* A socket is named by the process that bound it, a process being one     *)
(* start of the service.  `Orphelin' is a socket of a process long dead,   *)
(* `Fichier' a file that is not a socket.  Only services write the path;   *)
(* errors of the file system and of socket() are left out.  A signal       *)
(* between sigaction and `stop_requested = 0' is forgotten by the code:    *)
(* it changes nothing here, the loop may end at any time or never.         *)
(***************************************************************************)
EXTENDS Naturals, FiniteSets

CONSTANTS
    Services,                   \* starts of the service
    Rien, Fichier, Orphelin     \* what the path names when no service's socket

ASSUME SocketAssumption ==
    /\ Rien # Fichier /\ Rien # Orphelin /\ Fichier # Orphelin
    /\ {Rien, Fichier, Orphelin} \intersect Services = {}

VARIABLES
    chemin,         \* what socket_path names
    etape,          \* of each process: the next call it makes
    ecoutent,       \* processes whose socket listens
    owns_socket,    \* processes with server->owns_socket
    accompagnes,    \* history: processes that were not alone all their life
    anciens         \* history: processes alive when p began to listen

vars == <<chemin, etape, ecoutent, owns_socket, accompagnes, anciens>>

-----------------------------------------------------------------------------
Finies == {"echec", "fini", "tue"}
Etapes == {"neuf", "bind", "lstat", "connect", "unlink", "rebind", "chmod", "listen",
           "sigaction", "boucle", "close", "retirer"} \union Finies

Vivants == {p \in Services : etape[p] \notin Finies \union {"neuf"}}
EstSocket(x) == x \notin {Rien, Fichier}
Actif(x) == x \in ecoutent          \* connect would succeed

Init ==
    /\ chemin \in {Rien, Fichier, Orphelin}
    /\ etape = [p \in Services |-> "neuf"]
    /\ ecoutent = {} /\ owns_socket = {}
    /\ accompagnes = {}
    /\ anciens = [p \in Services |-> {}]

Aller(p, e) == etape' = [etape EXCEPT ![p] = e]

\* A new process: those alive, and itself if there are some, are not alone.
Demarrer(p) ==
    /\ etape[p] = "neuf"
    /\ Aller(p, "bind")
    /\ accompagnes' = IF Vivants = {} THEN accompagnes
                      ELSE accompagnes \union Vivants \union {p}
    /\ UNCHANGED <<chemin, ecoutent, owns_socket, anciens>>

-----------------------------------------------------------------------------
(* ipc_server_init                                                         *)

\* The bind succeeds on a free path only.
Lie(p) ==
    /\ chemin' = p
    /\ owns_socket' = owns_socket \union {p}
    /\ Aller(p, "chmod")

\* Mutant of Bind: an address in use is not seen.
BindAveugle(p) ==
    /\ etape[p] = "bind"
    /\ IF chemin = Rien THEN Lie(p)
       ELSE Aller(p, "chmod") /\ UNCHANGED <<chemin, owns_socket>>
    /\ UNCHANGED <<ecoutent, accompagnes, anciens>>

Bind(p) ==
    /\ etape[p] = "bind"
    /\ IF chemin = Rien THEN Lie(p)
       ELSE Aller(p, "lstat") /\ UNCHANGED <<chemin, owns_socket>>
    /\ UNCHANGED <<ecoutent, accompagnes, anciens>>

reste == <<chemin, ecoutent, owns_socket, accompagnes, anciens>>

\* Mutant of Lstat: what is at the path is not looked at.
LstatTout(p) ==
    /\ etape[p] = "lstat"
    /\ Aller(p, "connect")
    /\ UNCHANGED reste

\* socket_is_stale: is it a socket...
Lstat(p) ==
    /\ etape[p] = "lstat"
    /\ Aller(p, IF EstSocket(chemin) THEN "connect" ELSE "close")
    /\ UNCHANGED reste

\* Mutant of Connect: any socket is an orphan.
ConnectToujours(p) ==
    /\ etape[p] = "connect"
    /\ Aller(p, IF chemin = Rien THEN "close" ELSE "unlink")
    /\ UNCHANGED reste

\* ... that refuses connections?  So does a bound socket that does not listen yet.
Connect(p) ==
    /\ etape[p] = "connect"
    /\ Aller(p, IF chemin = Rien \/ Actif(chemin) THEN "close" ELSE "unlink")
    /\ UNCHANGED reste

Unlink(p) ==
    /\ etape[p] = "unlink"
    /\ chemin' = Rien
    /\ Aller(p, IF chemin = Rien THEN "close" ELSE "rebind")
    /\ UNCHANGED <<ecoutent, owns_socket, accompagnes, anciens>>

\* Mutant of Rebind: the path is cleared, and the service refused all the same.
RebindOublie(p) ==
    /\ etape[p] = "rebind"
    /\ Aller(p, "close")
    /\ UNCHANGED reste

Rebind(p) ==
    /\ etape[p] = "rebind"
    /\ IF chemin = Rien THEN Lie(p)
       ELSE Aller(p, "close") /\ UNCHANGED <<chemin, owns_socket>>
    /\ UNCHANGED <<ecoutent, accompagnes, anciens>>

\* chmod, by its path: whatever is there, or an error.
Chmod(p) ==
    /\ etape[p] = "chmod"
    /\ Aller(p, IF chemin = Rien THEN "close" ELSE "listen")
    /\ UNCHANGED reste

Listen(p) ==
    /\ etape[p] = "listen"
    /\ Aller(p, "sigaction")
    /\ ecoutent' = ecoutent \union {p}
    /\ anciens' = [anciens EXCEPT ![p] = Vivants]
    /\ UNCHANGED <<chemin, owns_socket, accompagnes>>

\* The handlers of SIGINT and SIGTERM: from here on they end the loop.
Sigaction(p) ==
    /\ etape[p] = "sigaction"
    /\ Aller(p, "boucle")
    /\ UNCHANGED reste

-----------------------------------------------------------------------------
(* Signals, the end of the loop, ipc_server_cleanup                        *)

\* A process that has no handler yet is killed by SIGTERM; SIGKILL, at any time.
Mourir(p) ==
    /\ p \in Vivants
    /\ Aller(p, "tue")
    /\ ecoutent' = ecoutent \ {p}
    /\ UNCHANGED <<chemin, owns_socket, accompagnes, anciens>>

\* The loop ends: a stop was asked for, or poll or accept has failed.
FinBoucle(p) ==
    /\ etape[p] = "boucle"
    /\ Aller(p, "close")
    /\ UNCHANGED reste

\* Mutant of Close: the file is left there.
CloseSansRetirer(p) ==
    /\ etape[p] = "close"
    /\ ecoutent' = ecoutent \ {p}
    /\ Aller(p, IF p \in owns_socket THEN "fini" ELSE "echec")
    /\ UNCHANGED <<chemin, owns_socket, accompagnes, anciens>>

Close(p) ==
    /\ etape[p] = "close"
    /\ ecoutent' = ecoutent \ {p}
    /\ Aller(p, IF p \in owns_socket THEN "retirer" ELSE "echec")
    /\ UNCHANGED <<chemin, owns_socket, accompagnes, anciens>>

\* The path is removed, whatever it names by then.
Retirer(p) ==
    /\ etape[p] = "retirer"
    /\ chemin' = Rien
    /\ owns_socket' = owns_socket \ {p}
    /\ Aller(p, "fini")
    /\ UNCHANGED <<ecoutent, accompagnes, anciens>>

-----------------------------------------------------------------------------
Initialiser(p) ==
    \/ Bind(p) \/ Lstat(p) \/ Connect(p) \/ Unlink(p) \/ Rebind(p)
    \/ Chmod(p) \/ Listen(p) \/ Sigaction(p)

Terminer(p) == FinBoucle(p) \/ Close(p) \/ Retirer(p)

Next == \E p \in Services :
            Demarrer(p) \/ Initialiser(p) \/ Terminer(p) \/ Mourir(p)

Spec == Init /\ [][Next]_vars

-----------------------------------------------------------------------------
\* The values of the variables; what listens is a process past its listen, and
\* the path never names the socket of a process that has not bound it.
TypeOK ==
    /\ chemin \in {Rien, Fichier, Orphelin} \union Services
    /\ etape \in [Services -> Etapes]
    /\ owns_socket \subseteq Services
    /\ ecoutent \subseteq {p \in owns_socket : etape[p] \in {"sigaction", "boucle", "close"}}
    /\ chemin \in Services => chemin \in owns_socket
    /\ accompagnes \subseteq Services
    /\ anciens \in [Services -> SUBSET Services]

\* A file that is not a socket is never removed (README, Troubleshooting).
OrdinaryFileKept == [][chemin = Fichier => chemin' = Fichier]_vars

\* A service started while a socket is in use never removes it: only processes
\* that were alive when that socket began to listen may do so.
NewcomersAreHarmless ==
    [][\A p, q \in Services :
         chemin = q /\ q \in ecoutent /\ (Unlink(p) \/ Retirer(p)) => p \in anciens[q] \/ p = q]_vars

\* A service that is alone from its start always gets its socket, whatever a
\* process that was killed has left, and is reached by the path.
AloneIsServed ==
    \A p \in Services \ accompagnes :
        /\ etape[p] = "echec" => chemin = Fichier
        /\ etape[p] \in {"sigaction", "boucle"} => chemin = p /\ p \in ecoutent

\* Only a kill leaves a socket behind: the path never names the socket of a service
\* that has ended by itself, refused or stopped, even when others came and went.
OnlyAKillLeavesASocket ==
    chemin \in Services => chemin \in Vivants \/ etape[chemin] = "tue"

\* The README's promise: a socket still in use is never removed by another service.
ActiveIsNeverRemoved ==
    [][\A p, q \in Services :
         p # q /\ chemin = q /\ q \in ecoutent => ~Unlink(p) /\ ~Retirer(p)]_vars
=============================================================================
