-------------------------- MODULE EntrypointProofs --------------------------
(***************************************************************************)
(* Theorems about the entrypoint script, for any value of DOCKER_HOST: the *)
(* builder starts with the socket it was told of, and the script gives up  *)
(* only after it has waited its time for both places.                      *)
(***************************************************************************)
EXTENDS Entrypoint, TLAPS

(* The place the first loop waits for, and how long a loop has waited.     *)
FirstPlace == PlaceOf(given)
Slept      == 3 * (MaxRetries - RETRIES)

(* A loop has slept for each retry it has spent, for its own place only.   *)
WaitInv ==
  /\ pc = "case" => waited = [p \in Places |-> 0]
  /\ pc = "first" => waited = [p \in Places |-> IF p = FirstPlace THEN Slept ELSE 0]
  /\ pc = "second" => /\ FirstPlace # Fallback
                      /\ waited[FirstPlace] = 3 * MaxRetries
                      /\ waited[Fallback] = Slept

(* What the builder will be told is the place that is waited for, unless   *)
(* the first loop waits for the script's own default.                      *)
PlaceInv ==
  /\ SOCKET_PATH # Unset => EXECUTOR = "kubernetesPodman"
  /\ pc = "case" => SOCKET_PATH = Unset
  /\ pc \in {"case", "first"} => DOCKER_HOST = given
  /\ pc = "first" => SOCKET_PATH = FirstPlace
  /\ pc = "second" => SOCKET_PATH = Fallback /\ DOCKER_HOST = Unix(Fallback)

(* The loops are left for the builder only with a socket.                  *)
FoundInv ==
  pc = "builder" /\ EXECUTOR = "kubernetesPodman" /\ given # Unset =>
    /\ DOCKER_HOST # Unset /\ DOCKER_HOST.place \in sockets
    /\ given.unix => DOCKER_HOST.unix

IInv == TypeOK /\ WaitInv /\ PlaceInv /\ FoundInv /\ StartsWithItsSocket /\ GivesUpInTime

-----------------------------------------------------------------------------

LEMMA PlacesAre ==
  /\ Unset \notin Value /\ Unset \notin Places /\ Paths \subseteq Places
  /\ {ScriptDefault, Fallback, MainDefault} \subseteq Places
  /\ \A p \in Places : /\ Unix(p) \in Value /\ Unix(p) # Unset
                        /\ Unix(p).place = p /\ Unix(p).unix
  /\ \A v \in Value : v.place \in Places
<1>1. Unset \notin Value /\ Unset \notin Places
  BY UnsetAssumption
<1>2. Paths \subseteq Places
  BY DEF Places
<1>3. {ScriptDefault, Fallback, MainDefault} \subseteq Places
  BY <1>2 DEF Paths
<1>4. ASSUME NEW p \in Places
      PROVE  Unix(p) \in Value /\ Unix(p).place = p /\ Unix(p).unix
  BY DEF Unix, Value
<1>5. \A v \in Value : v.place \in Places
  BY DEF Value
<1> QED
  BY <1>1, <1>2, <1>3, <1>4, <1>5

LEMMA InitInv == Init => IInv
  BY PlacesAre DEF Init, IInv, TypeOK, WaitInv, PlaceInv, FoundInv, StartsWithItsSocket,
     GivesUpInTime, MaxRetries, Places, PlaceOf, FirstPlace

(* Which place a loop waits for is settled by what it started with.        *)
LEMMA PlaceFacts ==
  ASSUME IInv
  PROVE  /\ FirstPlace \in Places /\ FirstPlace # Unset
         /\ pc = "first" => SOCKET_PATH = FirstPlace
         /\ pc = "second" => SOCKET_PATH = Fallback
         /\ RETRIES \in 0..5 /\ Slept \in 0..15 /\ Slept = 3 * (5 - RETRIES)
<1>1. FirstPlace \in Places /\ FirstPlace # Unset
  BY PlacesAre DEF IInv, TypeOK, FirstPlace, PlaceOf
<1>2. RETRIES \in 0..5 /\ Slept \in 0..15 /\ Slept = 3 * (5 - RETRIES)
  BY DEF IInv, TypeOK, Slept, MaxRetries
<1> QED
  BY <1>1, <1>2 DEF IInv, PlaceInv

LEMMA CaseInv == ASSUME IInv, Case PROVE IInv'
<1> USE DEF Case, Exit
<1>1. FirstPlace' = FirstPlace /\ FirstPlace \in Places /\ FirstPlace # Unset
  BY PlaceFacts DEF FirstPlace
<1>2. TypeOK'
  <2>1. SOCKET_PATH' \in {SOCKET_PATH, PlaceOf(DOCKER_HOST)}
    OBVIOUS
  <2>2. PlaceOf(DOCKER_HOST) \in Places
    BY PlacesAre DEF IInv, TypeOK, PlaceOf
  <2>3. SOCKET_PATH' \in Places \union {Unset}
    BY <2>1, <2>2 DEF IInv, TypeOK
  <2> QED
    BY <2>3 DEF IInv, TypeOK, MaxRetries
<1>3. PlaceInv'
  BY <1>1 DEF IInv, PlaceInv, FirstPlace
<1>4. WaitInv'
  <2>1. pc' = "first" => Slept' = 0
    BY DEF Slept, MaxRetries
  <2> QED
    BY <1>1, <2>1 DEF IInv, WaitInv
<1>5. FoundInv' /\ StartsWithItsSocket' /\ GivesUpInTime'
  BY DEF IInv, FoundInv, StartsWithItsSocket, GivesUpInTime, PlaceInv
<1> QED
  BY <1>2, <1>3, <1>4, <1>5 DEF IInv

(* Three seconds more for the place that is waited for.                    *)
LEMMA SleepInv ==
  ASSUME IInv, pc \in {"first", "second"}, RETRIES > 0, Sleep,
         UNCHANGED <<EXECUTOR, given, listens, sockets>>
  PROVE  IInv'
<1> USE DEF Sleep
<1>1. /\ FirstPlace' = FirstPlace /\ FirstPlace \in Places
      /\ RETRIES \in 1..5 /\ RETRIES' = RETRIES - 1 /\ RETRIES' \in 0..5
      /\ Slept' = Slept + 3 /\ Slept \in 0..12
  <2>1. RETRIES \in 1..5 /\ RETRIES' = RETRIES - 1
    BY PlaceFacts
  <2>2. Slept' = Slept + 3 /\ Slept \in 0..12
    BY <2>1 DEF Slept, MaxRetries
  <2> QED
    BY <2>1, <2>2, PlaceFacts DEF FirstPlace
<1>2. /\ SOCKET_PATH \in Places /\ waited[SOCKET_PATH] = Slept
      /\ waited \in [Places -> 0..15]
      /\ waited' = [waited EXCEPT ![SOCKET_PATH] = Slept + 3]
  <2>1. SOCKET_PATH \in Places /\ waited[SOCKET_PATH] = Slept
    <3>1. CASE pc = "first"
      BY <1>1, <3>1, PlaceFacts DEF IInv, WaitInv
    <3>2. CASE pc = "second"
      BY <3>2, PlaceFacts, PlacesAre DEF IInv, WaitInv
    <3> QED
      BY <3>1, <3>2
  <2>2. waited \in [Places -> 0..15]
    BY DEF IInv, TypeOK, MaxRetries
  <2> QED
    BY <2>1, <2>2
<1>3. TypeOK'
  BY <1>1, <1>2 DEF IInv, TypeOK, MaxRetries
<1>4. PlaceInv'
  BY <1>1 DEF IInv, PlaceInv
<1>5. WaitInv'
  <2>1. CASE pc = "first"
    <3>1. waited' = [p \in Places |-> IF p = FirstPlace THEN Slept' ELSE 0]
      BY <1>1, <1>2, <2>1, PlaceFacts DEF IInv, WaitInv
    <3> QED
      BY <1>1, <2>1, <3>1 DEF WaitInv
  <2>2. CASE pc = "second"
    BY <1>1, <1>2, <2>2, PlaceFacts, PlacesAre DEF IInv, WaitInv
  <2> QED
    BY <2>1, <2>2
<1>6. FoundInv' /\ StartsWithItsSocket' /\ GivesUpInTime'
  BY DEF FoundInv, StartsWithItsSocket, GivesUpInTime
<1> QED
  BY <1>3, <1>4, <1>5, <1>6 DEF IInv

LEMMA FoundKeeps ==
  ASSUME IInv, pc \in {"first", "second"}, SocketExists, Found,
         UNCHANGED <<EXECUTOR, given, listens, sockets>>
  PROVE  IInv'
<1> USE DEF Found
<1>1. TypeOK'
  BY DEF IInv, TypeOK
<1>2. PlaceInv' /\ WaitInv'
  BY DEF IInv, PlaceInv, WaitInv
<1>3. given # Unset => /\ DOCKER_HOST # Unset /\ DOCKER_HOST.place = SOCKET_PATH
                       /\ given.unix => DOCKER_HOST.unix
  BY PlacesAre DEF IInv, PlaceInv, FirstPlace, PlaceOf
<1>4. FoundInv' /\ StartsWithItsSocket' /\ GivesUpInTime'
  BY <1>3 DEF FoundInv, StartsWithItsSocket, GivesUpInTime, SocketExists
<1> QED
  BY <1>1, <1>2, <1>4 DEF IInv

(* The first place's time is up. *)
LEMMA FallbackInv ==
  ASSUME IInv, pc = "first", RETRIES = 0, SOCKET_PATH # Fallback, TryFallback,
         UNCHANGED <<EXECUTOR, given, listens, sockets>>
  PROVE  IInv'
<1> USE DEF TryFallback
<1>1. /\ FirstPlace' = FirstPlace /\ FirstPlace \in Places /\ FirstPlace # Fallback
      /\ Slept = 15 /\ Slept' = 0
  BY PlaceFacts DEF FirstPlace, Slept, MaxRetries
<1>2. TypeOK'
  BY PlacesAre DEF IInv, TypeOK, MaxRetries
<1>3. PlaceInv'
  BY PlaceFacts DEF IInv, PlaceInv
<1>4. WaitInv'
  BY <1>1, PlacesAre DEF IInv, WaitInv, MaxRetries
<1>5. FoundInv' /\ StartsWithItsSocket' /\ GivesUpInTime'
  BY DEF FoundInv, StartsWithItsSocket, GivesUpInTime
<1> QED
  BY <1>2, <1>3, <1>4, <1>5 DEF IInv

(* Both places had their time, or they are one. *)
LEMMA GiveUpInv ==
  ASSUME IInv, RETRIES = 0, pc \in {"first", "second"}, SOCKET_PATH = Fallback, Exit,
         UNCHANGED <<EXECUTOR, given, listens, sockets>>
  PROVE  IInv'
<1> USE DEF Exit
<1>1. TypeOK'
  BY DEF IInv, TypeOK
<1>2. PlaceInv' /\ WaitInv'
  BY DEF IInv, PlaceInv, WaitInv
<1>3. Slept = 15
  BY DEF Slept, MaxRetries
<1>4. waited[FirstPlace] = 3 * MaxRetries /\ waited[Fallback] = 3 * MaxRetries
  BY <1>3, PlaceFacts, PlacesAre DEF IInv, WaitInv, MaxRetries
<1>5. FoundInv' /\ StartsWithItsSocket' /\ GivesUpInTime'
  BY <1>4 DEF FoundInv, StartsWithItsSocket, GivesUpInTime, FirstPlace
<1> QED
  BY <1>1, <1>2, <1>5 DEF IInv

LEMMA BuilderInv == ASSUME IInv, Builder PROVE IInv'
<1> USE DEF Builder
<1>1. TypeOK'
  BY PlacesAre DEF IInv, TypeOK
<1>2. PlaceInv' /\ WaitInv'
  BY DEF IInv, PlaceInv, WaitInv
<1>3. FoundInv' /\ StartsWithItsSocket' /\ GivesUpInTime'
  BY DEF IInv, TypeOK, FoundInv, StartsWithItsSocket, GivesUpInTime
<1> QED
  BY <1>1, <1>2, <1>3 DEF IInv

(* A socket that appears takes none away. *)
LEMMA ListensInv == ASSUME IInv, PodmanListens PROVE IInv'
<1> USE DEF PodmanListens, script
<1>1. sockets \subseteq sockets'
  BY DEF IInv, TypeOK
<1>2. TypeOK'
  BY DEF IInv, TypeOK
<1>3. PlaceInv' /\ WaitInv'
  BY DEF IInv, PlaceInv, WaitInv, FirstPlace, Slept
<1>4. FoundInv' /\ StartsWithItsSocket' /\ GivesUpInTime'
  BY <1>1 DEF IInv, FoundInv, StartsWithItsSocket, GivesUpInTime
<1> QED
  BY <1>2, <1>3, <1>4 DEF IInv

LEMMA NextInv == IInv /\ [Next]_vars => IInv'
<1> SUFFICES ASSUME IInv, [Next]_vars PROVE IInv'
  OBVIOUS
<1>1. CASE First
  <2>1. pc = "first" /\ UNCHANGED <<EXECUTOR, given, listens, sockets>>
    BY <1>1 DEF First
  <2>2. CASE SocketExists /\ Found
    BY <2>1, <2>2, FoundKeeps
  <2>3. CASE RETRIES > 0 /\ Sleep
    BY <2>1, <2>3, SleepInv
  <2>4. CASE RETRIES = 0 /\ SOCKET_PATH # Fallback /\ TryFallback
    BY <2>1, <2>4, FallbackInv
  <2>5. CASE RETRIES = 0 /\ SOCKET_PATH = Fallback /\ Exit
    BY <2>1, <2>5, GiveUpInv
  <2> QED
    BY <1>1, <2>2, <2>3, <2>4, <2>5, Zenon DEF First
<1>2. CASE Second
  <2>1. pc = "second" /\ UNCHANGED <<EXECUTOR, given, listens, sockets>>
    BY <1>2 DEF Second
  <2>2. CASE SocketExists /\ Found
    BY <2>1, <2>2, FoundKeeps
  <2>3. CASE RETRIES > 0 /\ Sleep
    BY <2>1, <2>3, SleepInv
  <2>4. CASE RETRIES = 0 /\ Exit
    BY <2>1, <2>4, PlaceFacts, GiveUpInv
  <2> QED
    BY <1>2, <2>2, <2>3, <2>4, Zenon DEF Second
<1>3. CASE UNCHANGED vars
  BY <1>3 DEF vars, script, IInv, TypeOK, WaitInv, PlaceInv, FoundInv, StartsWithItsSocket,
     GivesUpInTime, FirstPlace, Slept
<1> QED
  BY <1>1, <1>2, <1>3, CaseInv, BuilderInv, ListensInv DEF Next, Script, Terminated

(* Each loop has slept for every retry it has spent, for the place it      *)
(* waits for, and is left for the builder only with a socket               *)
(* (entrypoint.sh:22-57).                                                  *)
THEOREM Invariance == Spec => []IInv
  BY InitInv, NextInv, PTL DEF Spec

(* The types of the script's variables, the time for a place included: at  *)
(* most fifteen seconds (entrypoint.sh:27, 47).                            *)
THEOREM TypeCorrect == Spec => []TypeOK
<1>1. IInv => TypeOK
  BY DEF IInv
<1> QED
  BY <1>1, Invariance, PTL

(* The builder is told of a socket that is there (entrypoint.sh:39-46,     *)
(* cmd/quay-builder/main.go:43-45).                                        *)
THEOREM SocketIsThere == Spec => []StartsWithItsSocket
<1>1. IInv => StartsWithItsSocket
  BY DEF IInv
<1> QED
  BY <1>1, Invariance, PTL

(* Each place has had its fifteen seconds when the script gives up         *)
(* (entrypoint.sh:27-37, 47-57).                                           *)
THEOREM BothPlacesWaitedFor == Spec => []GivesUpInTime
<1>1. IInv => GivesUpInTime
  BY DEF IInv
<1> QED
  BY <1>1, Invariance, PTL

=============================================================================
