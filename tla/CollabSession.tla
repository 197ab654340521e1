---------------------------- MODULE CollabSession -----------------------------
(***************************************************************************)
(* The collaboration WebSocket: one serveSocket goroutine (which becomes   *)
(* the read loop) and one writeLoop goroutine per connection, all sharing  *)
(* the hub of CollabRoom and the workspace snapshot store.                 *)
(* Source: internal/collab/websocket.go over internal/collab/room.go.      *)
(*                                                                         *)
(* Every lock section, channel operation, store call and socket call is a  *)
(* step of its own, so connections interleave wherever Go lets them.       *)
(***************************************************************************)
EXTENDS CollabRoom

CONSTANTS
  Members,     \* the <<actor, workspace>> pairs the Authorizer accepts
  NoMessage,   \* no snapshot stored
  StoreFails,  \* whether the snapshot store may return errors
  MaxFrames    \* bound: frames read over all connections

ASSUME SessionAssumption ==
  /\ Members \subseteq Actors \X Workspaces
  /\ NoMessage \notin Message
  /\ StoreFails \in BOOLEAN
  /\ MaxFrames \in Nat

VARIABLES
  pc,          \* where each handler goroutine is
  writer,      \* the write loop: "off", "on" or "stopped"
  cancelled,   \* the connections whose ctx is cancelled
  sent,        \* frames read from each peer so far
  msg,         \* the frame each handler is broadcasting
  sender,      \* Broadcast's local: the client whose window is charged
  pending,     \* Broadcast's local: recipients not offered the message yet
  orphan,      \* handlers holding a *Room that has left Hub.rooms
  snapshot,    \* SnapshotStore: the latest stored sync message
  greeting,    \* the snapshot each peer was sent on joining
  wire         \* history: relayed messages written to each peer

frameVars  == <<msg, sender, pending>>
readerVars == <<pc, sent, frameVars, orphan>>
peerVars   == <<greeting, wire>>
vars == <<roomVars, readerVars, writer, cancelled, snapshot, peerVars>>

\* Inside Broadcast, the room looked up: about to copy its members, to charge the
\* sender's window, to offer the message to the next recipient.
Broadcasting == {"members", "admit", "fanout"}
Serving == Broadcasting \union {"reading", "persist"}
Labels  == Serving \union {"new", "joined", "leaving", "done"}

Goto(s, label) == pc' = [pc EXCEPT ![s] = label]

\* The frame a handler was working on goes out of scope.
Forget(s) ==
  /\ msg' = [msg EXCEPT ![s] = NoMessage]
  /\ sender' = [sender EXCEPT ![s] = NoClient]
  /\ pending' = [pending EXCEPT ![s] = {}]

\* serveSocket returns: its deferred cancel runs first, Hub.Leave next.
Return(s) ==
  /\ Goto(s, "leaving")
  /\ cancelled' = cancelled \union {s}
  /\ Forget(s)

Init ==
  /\ RoomInit
  /\ pc = [s \in Clients |-> "new"]
  /\ writer = [s \in Clients |-> "off"]
  /\ cancelled = {}
  /\ sent = [s \in Clients |-> 0]
  /\ msg = [s \in Clients |-> NoMessage]
  /\ sender = [s \in Clients |-> NoClient]
  /\ pending = [s \in Clients |-> {}]
  /\ orphan = {}
  /\ snapshot = [w \in Workspaces |-> NoMessage]
  /\ greeting = [s \in Clients |-> NoMessage]
  /\ wire = [s \in Clients |-> <<>>]
-------------------------------------------------------------------------------
(* Opening a connection. *)

\* authenticate, AuthorizeRoom and websocket.Accept come before anything is shared:
\* a request one of them refuses is a connection that stays "new".
Authorized(s) == <<ActorOf[s], WorkspaceOf[s]>> \in Members

\* Mutant: the workspace is not checked before joining.
JoinRoomUnauthorized(s) ==
  /\ pc[s] = "new"
  /\ Join(s)
  /\ Goto(s, "joined")
  /\ UNCHANGED <<frameVars, writer, cancelled, sent, orphan, snapshot, peerVars>>

JoinRoom(s) ==
  /\ pc[s] = "new"
  /\ Authorized(s)
  /\ Join(s)
  /\ Goto(s, "joined")
  /\ UNCHANGED <<frameVars, writer, cancelled, sent, orphan, snapshot, peerVars>>

\* LoadSnapshot, and the initial "sync" frame when there is one. A failed load is
\* treated as no snapshot; a failed write ends the handler before the write loop
\* is started.
Greet(s) ==
  /\ pc[s] = "joined"
  /\ \/ /\ \/ greeting' = [greeting EXCEPT ![s] = snapshot[WorkspaceOf[s]]]
           \/ StoreFails /\ UNCHANGED greeting
        /\ writer' = [writer EXCEPT ![s] = "on"]
        /\ Goto(s, "reading")
        /\ UNCHANGED <<cancelled, frameVars>>
     \/ /\ snapshot[WorkspaceOf[s]] # NoMessage
        /\ Return(s)
        /\ UNCHANGED <<greeting, writer>>
  /\ UNCHANGED <<roomVars, sent, orphan, snapshot, wire>>
-------------------------------------------------------------------------------
(* The read loop. *)

\* Mutant: the author a frame claims is believed.
StampWorkspaceOnly(s, f) == [f EXCEPT !.ws = WorkspaceOf[s]]

\* The actor and workspace come from the session, whatever the frame claims.
Stamp(s, f) == [f EXCEPT !.ws = WorkspaceOf[s], !.actor = ActorOf[s]]

\* Broadcast returned nil: a sync frame is stored, then the next frame is read.
AfterBroadcast(s, m) ==
  IF m.kind = "sync"
  THEN /\ Goto(s, "persist")
       /\ msg' = [msg EXCEPT ![s] = m]
       /\ sender' = [sender EXCEPT ![s] = NoClient]
       /\ pending' = [pending EXCEPT ![s] = {}]
  ELSE Goto(s, "reading") /\ Forget(s)

\* A text frame that parses goes to Broadcast, which first looks its room up under
\* Hub.mu: without a room there is nobody to relay to, and no error. (One that does
\* not parse is answered with an error frame and changes nothing here.)
ReadFrame(s) ==
  /\ pc[s] = "reading"
  /\ s \notin cancelled
  /\ FoldFunction(+, 0, sent) < MaxFrames
  /\ sent' = [sent EXCEPT ![s] = @ + 1]
  /\ \E w \in Workspaces, a \in Actors, k \in Kinds :
       LET m == Stamp(s, [from |-> s, n |-> sent[s] + 1, ws |-> w, actor |-> a,
                          kind |-> k])
       IN  IF m.ws \in rooms
           THEN /\ Goto(s, "members")
                /\ msg' = [msg EXCEPT ![s] = m]
                /\ UNCHANGED <<sender, pending>>
           ELSE AfterBroadcast(s, m)
  /\ UNCHANGED <<roomVars, writer, cancelled, orphan, snapshot, peerVars>>

\* conn.Read returns an error: ctx cancelled, peer gone, silent for pongWait, frame
\* over the read limit; or the frame is binary. Only the first is bound to happen.
ReadEnds(s) ==
  /\ pc[s] = "reading"
  /\ Return(s)
  /\ UNCHANGED <<roomVars, writer, sent, orphan, snapshot, peerVars>>

\* Broadcast, under Room.mu: find the sender's client and copy the others. A room
\* dropped from the hub since the look-up is empty and stays so.
CopyMembers(s) ==
  LET a    == msg[s].actor
      room == IF s \in orphan THEN NoClients ELSE clients[msg[s].ws]
  IN  /\ pc[s] = "members"
      /\ orphan' = orphan \ {s}
      /\ IF room[a] = NoClient
         THEN Return(s)
         ELSE /\ sender' = [sender EXCEPT ![s] = room[a]]
              /\ pending' = [pending EXCEPT ![s] =
                               Entries([room EXCEPT ![a] = NoClient])]
              /\ Goto(s, "admit")
              /\ UNCHANGED <<cancelled, msg>>
      /\ UNCHANGED <<roomVars, writer, sent, snapshot, peerVars>>

\* The recipient loop with rest still to be offered the message.
Continue(s, rest) ==
  IF rest = {}
  THEN AfterBroadcast(s, msg[s])
  ELSE /\ Goto(s, "fanout")
       /\ pending' = [pending EXCEPT ![s] = rest]
       /\ sender' = [sender EXCEPT ![s] = NoClient]
       /\ UNCHANGED msg

\* Broadcast: sender.allow; a refusal closes the connection.
Admit(s) ==
  /\ pc[s] = "admit"
  /\ \E expired \in BOOLEAN :
       LET tally == Tally(sender[s], expired)
       IN  /\ msgCount' = [msgCount EXCEPT ![sender[s]] = tally]
           /\ IF Permitted(tally)
              THEN Continue(s, pending[s]) /\ UNCHANGED cancelled
              ELSE Return(s)
  /\ UNCHANGED <<rooms, clients, open, queue, writer, sent, orphan, snapshot,
                 peerVars>>

\* One turn of the recipient loop; the copy was made from a map, in any order.
Deliver(s) ==
  /\ pc[s] = "fanout"
  /\ \E c \in pending[s] :
       /\ Offer(msg[s], c)
       /\ Continue(s, pending[s] \ {c})
  /\ UNCHANGED <<rooms, clients, open, msgCount, writer, cancelled, sent, orphan,
                 snapshot, peerVars>>

\* SaveSnapshot: last write wins. An error is logged and reading goes on; a
\* cancelled ctx is always an error.
Persist(s) ==
  /\ pc[s] = "persist"
  /\ \/ /\ s \notin cancelled
        /\ snapshot' = [snapshot EXCEPT ![WorkspaceOf[s]] = msg[s]]
     \/ /\ s \in cancelled \/ StoreFails
        /\ UNCHANGED snapshot
  /\ Goto(s, "reading")
  /\ Forget(s)
  /\ UNCHANGED <<roomVars, writer, cancelled, sent, orphan, peerVars>>

\* The deferred Hub.Leave. When it drops the room, a Broadcast that already holds
\* the *Room keeps an empty one.
LeaveRoom(s) ==
  /\ pc[s] = "leaving"
  /\ Leave(WorkspaceOf[s], ActorOf[s])
  /\ orphan' = orphan \union {t \in Clients :
                   pc[t] = "members" /\ msg[t].ws \in rooms \ rooms'}
  /\ Goto(s, "done")
  /\ UNCHANGED <<frameVars, writer, cancelled, sent, snapshot, peerVars>>
-------------------------------------------------------------------------------
(* The write loop. *)

\* A queued message reaches the peer; with ctx cancelled the write cannot succeed.
WriteMessage(s) ==
  /\ writer[s] = "on"
  /\ s \notin cancelled
  /\ queue[s] # <<>>
  /\ queue' = [queue EXCEPT ![s] = Tail(@)]
  /\ wire' = [wire EXCEPT ![s] = Append(@, Head(queue[s]))]
  /\ UNCHANGED <<rooms, clients, open, msgCount, readerVars, writer, cancelled,
                 snapshot, greeting>>

\* The loop returns, cancelling ctx.
StopWriter(s) ==
  /\ writer' = [writer EXCEPT ![s] = "stopped"]
  /\ cancelled' = cancelled \union {s}
  /\ UNCHANGED <<roomVars, readerVars, snapshot, peerVars>>

\* A write fails, its message lost with the connection, or a ping goes unanswered.
\* Nothing drains the queue from here on.
WriteFails(s) ==
  /\ writer[s] = "on"
  /\ StopWriter(s)

\* Mutant: the loop writes what is queued before it looks at its end.
WriterDrainsFirst(s) ==
  /\ writer[s] = "on"
  /\ queue[s] = <<>>
  /\ s \in cancelled \/ s \notin open
  /\ StopWriter(s)

\* ctx is done, or the client was closed by Leave or by a rejoin.
WriterSeesEnd(s) ==
  /\ writer[s] = "on"
  /\ s \in cancelled \/ s \notin open
  /\ StopWriter(s)
-------------------------------------------------------------------------------
Broadcast(s) == CopyMembers(s) \/ Admit(s) \/ Deliver(s)

Reader(s) ==
  \/ JoinRoom(s) \/ Greet(s)
  \/ ReadFrame(s) \/ ReadEnds(s) \/ Broadcast(s) \/ Persist(s) \/ LeaveRoom(s)

Writer(s) == WriteMessage(s) \/ WriteFails(s) \/ WriterSeesEnd(s)

Next == \E s \in Clients : Reader(s) \/ Writer(s)

Spec == Init /\ [][Next]_vars

\* Goroutines that can run do run: every step the program takes on its own. What
\* the peer does (frames, silence, disconnects) and what the store and the socket
\* answer is not assumed, so ReadFrame, WriteMessage and WriteFails are not fair,
\* and ReadEnds is only where ctx is cancelled.
Fairness ==
  \A s \in Clients :
    /\ WF_vars(Greet(s) \/ Persist(s) \/ LeaveRoom(s))
    /\ WF_vars(Broadcast(s))
    /\ WF_vars(s \in cancelled /\ ReadEnds(s))
    /\ WF_vars(WriterSeesEnd(s))

FairSpec == Spec /\ Fairness
-------------------------------------------------------------------------------
(* Safety. *)

\* Type invariant; a client's buffer never exceeds its capacity.
TypeOK ==
  /\ RoomTypeOK
  /\ pc \in [Clients -> Labels]
  /\ writer \in [Clients -> {"off", "on", "stopped"}]
  /\ cancelled \subseteq Clients
  /\ sent \in [Clients -> Nat]
  /\ msg \in [Clients -> Message \union {NoMessage}]
  /\ sender \in [Clients -> Clients \union {NoClient}]
  /\ pending \in [Clients -> SUBSET Clients]
  /\ orphan \subseteq Clients
  /\ snapshot \in [Workspaces -> Message \union {NoMessage}]
  /\ greeting \in [Clients -> Message \union {NoMessage}]
  /\ wire \in [Clients -> Seq(Message)]

Registered(s) == clients[WorkspaceOf[s]][ActorOf[s]] = s

\* A client's done channel is open exactly while its room's map holds it, however
\* joins, rejoins and leaves of the same actor interleave: nobody a broadcast can
\* reach is closed for good, and nobody out of reach is left waiting.
OpenExactlyWhileRegistered == \A s \in Clients : s \in open <=> Registered(s)

\* The hub holds a room exactly while somebody is in it: the last leave deletes the
\* room and nothing else does, so rooms do not accumulate and none is lost.
RoomsAreOccupied ==
  \A w \in Workspaces : w \in rooms <=> Entries(clients[w]) # {}

\* What a workspace's snapshot holds, and what a joiner is greeted with, is a sync
\* frame of an authorized member of that workspace, whatever its JSON claimed.
SnapshotConfined ==
  LET From(w, m) == m # NoMessage => /\ m.ws = w
                                     /\ m.kind = "sync"
                                     /\ WorkspaceOf[m.from] = w
                                     /\ ActorOf[m.from] = m.actor
                                     /\ Authorized(m.from)
  IN  /\ \A w \in Workspaces : From(w, snapshot[w])
      /\ \A s \in Clients : From(WorkspaceOf[s], greeting[s])

\* The handlers, hub and buffers together implement the lossy ordered relay.
Relay == INSTANCE LossyRelay
RelaySpec == Relay!Spec

\* What the reconnect test (room_test.go:237) says of a rejoin: the new connection
\* must remain open. A connection leaves its room by its own leave or because a
\* later connection of the same actor takes its place.
NewConnectionSurvives ==
  [][\A s \in Clients :
       Registered(s) /\ pc[s] # "leaving" =>
         clients'[WorkspaceOf[s]][ActorOf[s]] # NoClient]_vars

\* websocket.go:115: a joining client starts from shared state. Once it is being
\* served, the stored snapshot is one it was greeted with, has been or will be
\* relayed, or its own actor drew. (MaxFrames <= SendBuffer: nothing is dropped.)
JoinerStartsFromSharedState ==
  \A s \in Clients :
    LET m == snapshot[WorkspaceOf[s]]
    IN  Registered(s) /\ pc[s] \in Serving /\ m # NoMessage =>
          \/ m = greeting[s]
          \/ m.actor = ActorOf[s]
          \/ m \in ToSet(wire[s] \o queue[s])
-------------------------------------------------------------------------------
(* Liveness. *)

\* A broadcast never waits for a slow reader: it ends although no writer is assumed
\* to drain anything.
BroadcastNeverBlocks ==
  \A s \in Clients : pc[s] \in Broadcasting ~> pc[s] \notin Broadcasting

\* A connection that is out of its room (it left, or a reconnect took its place)
\* ends: neither of its two goroutines is leaked.
DetachedConnectionEnds ==
  \A s \in Clients :
    ~Registered(s) /\ pc[s] # "new" ~> pc[s] = "done" /\ writer[s] # "on"
===============================================================================
