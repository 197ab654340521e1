------------------------------ MODULE CollabRoom ------------------------------
(***************************************************************************)
(* The relay's shared memory: Hub, Room and Client of                      *)
(* internal/collab/room.go, with the operations that run under its locks.  *)
(* Each operator below is one critical section (or one channel operation)  *)
(* and says nothing of its callers: CollabSession composes them into the   *)
(* connection handlers of internal/collab/websocket.go.                    *)
(*                                                                         *)
(* A handler joins exactly once, so a *Client is identified with the       *)
(* connection it was made for.                                             *)
(***************************************************************************)
EXTENDS Integers, Sequences, FiniteSets, SequencesExt

CONSTANTS
  Clients,               \* every connection ever made, hence every *Client
  Actors,                \* principal subjects
  Workspaces,            \* room names
  ActorOf,               \* the subject each connection authenticated as
  WorkspaceOf,           \* the workspace in each connection's URL
  Kinds,                 \* message kinds in use, of "sync" and "shape_update"
  NoClient,              \* an absent map entry
  SendBuffer,            \* sendBuffer (50 in the code)
  MaxMessagesPerSecond   \* MaxMessagesPerSecond (30 in the code)

ASSUME RoomAssumption ==
  /\ ActorOf \in [Clients -> Actors]
  /\ WorkspaceOf \in [Clients -> Workspaces]
  /\ Kinds \subseteq {"sync", "shape_update"}
  /\ NoClient \notin Clients
  /\ SendBuffer \in Nat
  /\ MaxMessagesPerSecond \in Nat

VARIABLES
  rooms,      \* the keys of Hub.rooms
  clients,    \* Room.clients of each room; all NoClient where there is no room
  open,       \* the clients whose done channel is not closed
  queue,      \* Client.sendChan
  msgCount    \* Client.msgCount

roomVars == <<rooms, clients, open, queue, msgCount>>

NoClients == [a \in Actors |-> NoClient]

\* The clients a room's map holds.
Entries(room) == {room[a] : a \in Actors} \ {NoClient}

\* A message a connection read: its author (from, n identify the payload), the
\* workspace and actor the frame names, and its kind.
Message == [from : Clients, n : Nat \ {0}, ws : Workspaces, actor : Actors,
            kind : Kinds]

RoomInit ==
  /\ rooms = {}
  /\ clients = [w \in Workspaces |-> NoClients]
  /\ open = {}
  /\ queue = [c \in Clients |-> <<>>]
  /\ msgCount = [c \in Clients |-> 0]

\* Mutant: a rejoin forgets to retire the client it replaces.
JoinKeepsPrevious(c) ==
  /\ rooms' = rooms \union {WorkspaceOf[c]}
  /\ clients' = [clients EXCEPT ![WorkspaceOf[c]][ActorOf[c]] = c]
  /\ open' = open \union {c}
  /\ UNCHANGED <<queue, msgCount>>

\* Hub.Join: the entry the actor had, if any, is retired and replaced.
Join(c) ==
  LET w == WorkspaceOf[c]
      a == ActorOf[c]
  IN  /\ rooms' = rooms \union {w}
      /\ clients' = [clients EXCEPT ![w][a] = c]
      /\ open' = (open \ {clients[w][a]}) \union {c}
      /\ UNCHANGED <<queue, msgCount>>

\* Mutant: the last leave does not delete the room.
LeaveKeepsRoom(w, a) ==
  /\ clients' = [clients EXCEPT ![w][a] = NoClient]
  /\ open' = open \ {clients[w][a]}
  /\ UNCHANGED <<rooms, queue, msgCount>>

\* Hub.Leave: removes and closes whatever client the actor has in the room now,
\* and the room with it when it was the last.
Leave(w, a) ==
  LET remaining == [clients[w] EXCEPT ![a] = NoClient]
  IN  /\ clients' = [clients EXCEPT ![w] = remaining]
      /\ open' = open \ {clients[w][a]}
      /\ rooms' = IF Entries(remaining) = {} THEN rooms \ {w} ELSE rooms
      /\ UNCHANGED <<queue, msgCount>>

\* Client.allow: the tally after one more message. There is no clock here: whether
\* more than a second has passed since the window began is left open.
Tally(c, expired) == IF expired THEN 1 ELSE msgCount[c] + 1
Permitted(tally)  == tally <= MaxMessagesPerSecond

\* Mutant: no capacity on the channel.
OfferUnbounded(m, c) ==
  \/ queue' = [queue EXCEPT ![c] = Append(@, m)]
  \/ c \notin open /\ UNCHANGED queue

\* Mutant: a select without its default case waits for a slow reader.
OfferBlocks(m, c) ==
  \/ /\ Len(queue[c]) < SendBuffer
     /\ queue' = [queue EXCEPT ![c] = Append(@, m)]
  \/ c \notin open /\ UNCHANGED queue

\* The three-way select of Hub.Broadcast for one recipient: enqueue when there is
\* room, give up when the client is closed or its buffer is full. A closed client
\* with room in its buffer leaves both first cases ready and Go picks either.
Offer(m, c) ==
  \/ /\ Len(queue[c]) < SendBuffer
     /\ queue' = [queue EXCEPT ![c] = Append(@, m)]
  \/ /\ c \notin open \/ Len(queue[c]) >= SendBuffer
     /\ UNCHANGED queue

RoomTypeOK ==
  /\ rooms \subseteq Workspaces
  /\ clients \in [Workspaces -> [Actors -> Clients \union {NoClient}]]
  /\ open \subseteq Clients
  /\ queue \in [Clients -> Seq(Message)]
  /\ \A c \in Clients : Len(queue[c]) <= SendBuffer
  /\ msgCount \in [Clients -> Nat]
===============================================================================
