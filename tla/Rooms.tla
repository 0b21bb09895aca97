------------------------------- MODULE Rooms -------------------------------
(***************************************************************************)
(* The rooms of the relay: the HTTP handlers of observability.rs over the  *)
(* table of codes in router.rs.  Every connection has a task of its own;   *)
(* register_room looks a code up and inserts it in two steps.  Codes are   *)
(* what generate_code and the paths of requests yield: a generated code    *)
(* may be in use already.  Session ids are nonzero; 0 is a body without    *)
(* one.                                                                    *)
(***************************************************************************)
EXTENDS Integers, FiniteSets

CONSTANTS
  RoomTasks,      \* HTTP connections
  RoomCodes,      \* well-formed codes
  RoomSids,       \* session ids in the bodies of requests
  MaxRequests     \* requests served

ASSUME RoomSidsAssumption == 0 \notin RoomSids

VARIABLES
  rooms,          \* the table: code -> session id, 0 if absent
  request,        \* what each task is at
  answered,       \* the number of requests begun
  owners,         \* history: session ids told that a code is theirs, not deleted since
  contested       \* history: codes two creations found free and both inserted

roomVars == <<rooms, request, answered, owners, contested>>

RoomsInit ==
  /\ rooms = [c \in RoomCodes |-> 0]
  /\ request = [t \in RoomTasks |-> [at |-> "idle"]]
  /\ answered = 0
  /\ owners = [c \in RoomCodes |-> {}]
  /\ contested = {}

\* Mutant: the code is not looked up.
CreateWithoutLookup(t, sid, code) ==
  /\ request[t].at = "idle" /\ answered < MaxRequests
  /\ answered' = answered + 1
  /\ request' = [request EXCEPT ![t] = IF sid = 0 THEN [at |-> "idle"]
                                       ELSE [at |-> "insert", sid |-> sid, code |-> code,
                                             found |-> rooms[code]]]
  /\ UNCHANGED <<rooms, owners, contested>>

\* handle_create_room: no session id is a bad request; register_room looks the
\* generated code up, and one in use is a conflict.
handle_create_room(t, sid, code) ==
  /\ request[t].at = "idle" /\ answered < MaxRequests
  /\ answered' = answered + 1
  /\ request' = [request EXCEPT ![t] = IF sid = 0 \/ rooms[code] # 0 THEN [at |-> "idle"]
                                       ELSE [at |-> "insert", sid |-> sid, code |-> code,
                                             found |-> rooms[code]]]
  /\ UNCHANGED <<rooms, owners, contested>>

\* register_room inserts, and the caller is told that the code is theirs.
RegisterInserts(t) ==
  /\ request[t].at = "insert"
  /\ LET code == request[t].code
     IN /\ rooms' = [rooms EXCEPT ![code] = request[t].sid]
        /\ owners' = [owners EXCEPT ![code] = @ \cup {request[t].sid}]
        /\ contested' = contested \cup {c \in {code} : rooms[c] # 0 /\ request[t].found = 0}
  /\ request' = [request EXCEPT ![t] = [at |-> "idle"]]
  /\ UNCHANGED answered

\* handle_delete_room: anyone may delete any code.
handle_delete_room(code) ==
  /\ answered < MaxRequests
  /\ answered' = answered + 1
  /\ rooms' = [rooms EXCEPT ![code] = 0]
  /\ owners' = [owners EXCEPT ![code] = {}]
  /\ contested' = contested \ {code}
  /\ UNCHANGED request

RoomsNext ==
  \/ \E t \in RoomTasks, sid \in RoomSids \cup {0}, code \in RoomCodes :
       handle_create_room(t, sid, code)
  \/ \E t \in RoomTasks : RegisterInserts(t)
  \/ \E code \in RoomCodes : handle_delete_room(code)

RoomsSpec == RoomsInit /\ [][RoomsNext]_roomVars

\* handle_get_room: the session a code resolves to, 0 for room not found.
handle_get_room(code) == rooms[code]

\* A code that the relay has said to be someone's leads to their session until it is
\* deleted, and one that nobody owns leads nowhere: creations, lookups and deletions of
\* several clients interleaved.  The exception is a code inserted by two creations that
\* both found it free, where the first owner's callers reach the second one's session.
CodeLeadsToOwner ==
  \A c \in RoomCodes \ contested :
    owners[c] = IF handle_get_room(c) = 0 THEN {} ELSE {handle_get_room(c)}
=============================================================================
