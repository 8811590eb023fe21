----------------------------- MODULE Entrypoint -----------------------------
(***************************************************************************)
(* entrypoint.sh: with podman beside it in the container, wait for its     *)
(* socket at one place and then at another; then become quay-builder,      *)
(* which takes the place of the runtime from DOCKER_HOST.  podman starts   *)
(* meanwhile, and listens sooner or later at one place, or never.          *)
(***************************************************************************)
EXTENDS Integers

CONSTANTS
  Hosts,      \* places in DOCKER_HOST that are no socket, such as tcp://...
  Unset

ScriptDefault == "/tmp/podman-run-1000/podman/podman.sock"
Fallback      == "/tmp/storage-run-1000/podman/podman.sock"
MainDefault   == "/var/run/docker.sock"
Other         == "/another/podman.sock"

Paths  == {ScriptDefault, Fallback, MainDefault, Other}
Places == Hosts \union Paths

(* DOCKER_HOST: a place with unix:// before it, or without. *)
Value   == [unix : BOOLEAN, place : Places]
Unix(p) == [unix |-> TRUE, place |-> p]

ASSUME UnsetAssumption == Unset \notin Value \union Places

VARIABLES
  EXECUTOR,      \* "kubernetesPodman", "other" for the known ones, or "unknown"
  given,         \* DOCKER_HOST as it came
  DOCKER_HOST,   \* and as the script exports it
  SOCKET_PATH,
  RETRIES,
  pc,            \* "case", "first", "second", "builder", or the end: "exit", "started"
  host,          \* what quay-builder takes for the place of the runtime
  listens,       \* where podman will listen, Unset for nowhere
  sockets,       \* where it does
  waited         \* history: the seconds slept for each path

script == <<DOCKER_HOST, SOCKET_PATH, RETRIES, pc, host, waited>>
vars   == <<EXECUTOR, given, script, listens, sockets>>

MaxRetries == 5

TypeOK ==
  /\ EXECUTOR \in {"kubernetesPodman", "other", "unknown"}
  /\ {given, DOCKER_HOST, host} \subseteq Value \union {Unset}
  /\ SOCKET_PATH \in Places \union {Unset} /\ listens \in Paths \union {Unset}
  /\ RETRIES \in 0..MaxRetries
  /\ pc \in {"case", "first", "second", "builder", "exit", "started"}
  /\ sockets \subseteq {listens} \ {Unset}
  /\ waited \in [Places -> 0 .. 3 * MaxRetries]

Init ==
  /\ EXECUTOR \in {"kubernetesPodman", "other", "unknown"}
  /\ given \in Value \union {Unset}
  /\ DOCKER_HOST = given
  /\ SOCKET_PATH = Unset /\ RETRIES = 0
  /\ pc = "case" /\ host = Unset
  /\ listens \in Paths \union {Unset}
  /\ sockets = {}
  /\ waited = [p \in Places |-> 0]

-----------------------------------------------------------------------------

SocketExists == SOCKET_PATH \in sockets

Exit == pc' = "exit" /\ UNCHANGED <<DOCKER_HOST, SOCKET_PATH, RETRIES, host, waited>>

(* The place that DOCKER_HOST names, less unix://. *)
PlaceOf(v) == IF v = Unset THEN ScriptDefault ELSE v.place

(* The certificates are copied first (setup_kubernetes_podman), or only    *)
(* they are (load_extra_ca); under set -e a failure is the end.            *)
Case ==
  /\ pc = "case"
  /\ \/ /\ EXECUTOR = "kubernetesPodman"
        /\ SOCKET_PATH' = PlaceOf(DOCKER_HOST)
        /\ RETRIES' = MaxRetries
        /\ pc' = "first"
        /\ UNCHANGED <<DOCKER_HOST, host, waited>>
     \/ /\ EXECUTOR = "other"
        /\ pc' = "builder"
        /\ UNCHANGED <<DOCKER_HOST, SOCKET_PATH, RETRIES, host, waited>>
     \/ Exit
  /\ UNCHANGED <<EXECUTOR, given, listens, sockets>>

Sleep ==
  /\ waited' = [waited EXCEPT ![SOCKET_PATH] = @ + 3]
  /\ RETRIES' = RETRIES - 1
  /\ UNCHANGED <<DOCKER_HOST, SOCKET_PATH, pc, host>>

(* Mutants: DOCKER_HOST stays; the retries are used up; one more is given. *)
FallbackUnexported ==
  /\ SOCKET_PATH' = Fallback
  /\ RETRIES' = MaxRetries
  /\ pc' = "second"
  /\ UNCHANGED <<DOCKER_HOST, host, waited>>
FallbackImpatient ==
  /\ DOCKER_HOST' = Unix(Fallback)
  /\ SOCKET_PATH' = Fallback
  /\ pc' = "second"
  /\ UNCHANGED <<RETRIES, host, waited>>
FallbackPatient ==
  /\ DOCKER_HOST' = Unix(Fallback)
  /\ SOCKET_PATH' = Fallback
  /\ RETRIES' = MaxRetries + 1
  /\ pc' = "second"
  /\ UNCHANGED <<host, waited>>

TryFallback ==
  /\ DOCKER_HOST' = Unix(Fallback)
  /\ SOCKET_PATH' = Fallback
  /\ RETRIES' = MaxRetries
  /\ pc' = "second"
  /\ UNCHANGED <<host, waited>>

Found == pc' = "builder" /\ UNCHANGED <<DOCKER_HOST, SOCKET_PATH, RETRIES, host, waited>>

(* The first loop, and the check after it. *)
First ==
  /\ pc = "first"
  /\ \/ SocketExists /\ Found
     \/ ~SocketExists /\ RETRIES > 0 /\ Sleep
     \/ /\ ~SocketExists /\ RETRIES = 0
        /\ IF SOCKET_PATH # Fallback THEN TryFallback ELSE Exit
  /\ UNCHANGED <<EXECUTOR, given, listens, sockets>>

Second ==
  /\ pc = "second"
  /\ \/ SocketExists /\ Found
     \/ ~SocketExists /\ RETRIES > 0 /\ Sleep
     \/ ~SocketExists /\ RETRIES = 0 /\ Exit
  /\ UNCHANGED <<EXECUTOR, given, listens, sockets>>

(* exec quay-builder, and the beginning of its main(). *)
Builder ==
  /\ pc = "builder"
  /\ host' = IF DOCKER_HOST = Unset THEN Unix(MainDefault) ELSE DOCKER_HOST
  /\ pc' = "started"
  /\ UNCHANGED <<EXECUTOR, given, DOCKER_HOST, SOCKET_PATH, RETRIES, listens, sockets, waited>>

(* podman is started by the script. *)
PodmanListens ==
  /\ SOCKET_PATH # Unset /\ listens # Unset
  /\ sockets' = {listens}
  /\ UNCHANGED <<EXECUTOR, given, script, listens>>

Script == Case \/ First \/ Second \/ Builder

Terminated == pc \in {"exit", "started"} /\ UNCHANGED vars

Next == Script \/ PodmanListens \/ Terminated

Spec == Init /\ [][Next]_vars

-----------------------------------------------------------------------------
(* Properties. *)

(* quay-builder is told of a socket that is there, whenever the manager    *)
(* set DOCKER_HOST, also when it was not found at that place, and with the *)
(* unix:// that quay-builder wants if the manager gave it                  *)
(* (entrypoint.sh:24-25, 39-46, main.go:43-45).                            *)
StartsWithItsSocket ==
  pc = "started" /\ EXECUTOR = "kubernetesPodman" /\ given # Unset =>
    host.place \in sockets /\ (given.unix => host.unix)

(* podman has fifteen seconds for each of the two places: the script gives *)
(* up only after as many (entrypoint.sh:27-37, 47-57).                     *)
GivesUpInTime ==
  pc = "exit" /\ SOCKET_PATH # Unset =>
    \A p \in {Fallback, PlaceOf(given)} : waited[p] = 3 * MaxRetries

=============================================================================
