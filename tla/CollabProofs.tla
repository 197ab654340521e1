----------------------------- MODULE CollabProofs -----------------------------
(***************************************************************************)
(* For any number of connections, actors, workspaces and frames and any    *)
(* buffer size: the hub's books are kept right by joins, rejoins and       *)
(* leaves however the handlers interleave, and what the peers are sent is  *)
(* what the abstract relay may send them.                                  *)
(***************************************************************************)
EXTENDS CollabSession, SequenceTheorems, TLAPS

(* The hub alone. *)

\* A client is only ever filed under its own workspace and actor.
FiledRight ==
  \A w \in Workspaces, a \in Actors :
    clients[w][a] # NoClient =>
      WorkspaceOf[clients[w][a]] = w /\ ActorOf[clients[w][a]] = a

HubType ==
  /\ rooms \subseteq Workspaces
  /\ clients \in [Workspaces -> [Actors -> Clients \union {NoClient}]]
  /\ open \subseteq Clients

HubInv ==
  /\ HubType
  /\ FiledRight
  /\ OpenExactlyWhileRegistered
  /\ RoomsAreOccupied

LEMMA OfType ==
  ASSUME NEW c \in Clients
  PROVE  WorkspaceOf[c] \in Workspaces /\ ActorOf[c] \in Actors /\ c # NoClient
BY RoomAssumption

LEMMA JoinKeepsHub ==
  ASSUME HubInv, NEW c \in Clients, Join(c)
  PROVE  HubInv'
<1> DEFINE w == WorkspaceOf[c]
           a == ActorOf[c]
<1>0. w \in Workspaces /\ a \in Actors /\ c # NoClient
  BY OfType
<1>1. /\ rooms' = rooms \union {w}
      /\ clients' = [clients EXCEPT ![w][a] = c]
      /\ open' = (open \ {clients[w][a]}) \union {c}
  BY DEF Join
<1>2. HubType'
  BY <1>0, <1>1 DEF HubInv, HubType
<1>3. \A v \in Workspaces, b \in Actors :
        clients'[v][b] = IF v = w /\ b = a THEN c ELSE clients[v][b]
  BY <1>0, <1>1 DEF HubInv, HubType
<1>4. FiledRight'
  BY <1>0, <1>3 DEF HubInv, FiledRight
<1>5. ASSUME NEW s \in Clients
      PROVE  s \in open' <=> clients'[WorkspaceOf[s]][ActorOf[s]] = s
  <2>1. WorkspaceOf[s] \in Workspaces /\ ActorOf[s] \in Actors /\ s # NoClient
    BY OfType
  <2>2. s \in open <=> clients[WorkspaceOf[s]][ActorOf[s]] = s
    BY DEF HubInv, OpenExactlyWhileRegistered, Registered
  <2>3. clients[w][a] = s => WorkspaceOf[s] = w /\ ActorOf[s] = a
    BY <1>0, <2>1 DEF HubInv, FiledRight
  <2>4. QED
    BY <1>0, <1>1, <1>3, <2>1, <2>2, <2>3
<1>6. OpenExactlyWhileRegistered'
  BY <1>5 DEF OpenExactlyWhileRegistered, Registered
<1>7. ASSUME NEW v \in Workspaces
      PROVE  v \in rooms' <=> Entries(clients'[v]) # {}
  <2>1. CASE v = w
    BY <1>0, <1>1, <1>3, <2>1 DEF Entries
  <2>2. CASE v # w
    <3>1. clients'[v] = clients[v] /\ (v \in rooms' <=> v \in rooms)
      BY <1>0, <1>1, <2>2 DEF HubInv, HubType
    <3>2. QED
      BY <3>1 DEF HubInv, RoomsAreOccupied
  <2>3. QED
    BY <2>1, <2>2
<1>8. RoomsAreOccupied'
  BY <1>7 DEF RoomsAreOccupied
<1>9. QED
  BY <1>2, <1>4, <1>6, <1>8 DEF HubInv

LEMMA LeaveKeepsHub ==
  ASSUME HubInv, NEW w \in Workspaces, NEW a \in Actors, Leave(w, a)
  PROVE  HubInv'
<1> DEFINE remaining == [clients[w] EXCEPT ![a] = NoClient]
<1>1. /\ clients' = [clients EXCEPT ![w] = remaining]
      /\ open' = open \ {clients[w][a]}
      /\ rooms' = IF Entries(remaining) = {} THEN rooms \ {w} ELSE rooms
  BY DEF Leave
<1>2. HubType'
  BY <1>1 DEF HubInv, HubType
<1>3. \A v \in Workspaces, b \in Actors :
        clients'[v][b] = IF v = w /\ b = a THEN NoClient ELSE clients[v][b]
  BY <1>1 DEF HubInv, HubType
<1>4. FiledRight'
  BY <1>3 DEF HubInv, FiledRight
<1>5. ASSUME NEW s \in Clients
      PROVE  s \in open' <=> clients'[WorkspaceOf[s]][ActorOf[s]] = s
  <2>1. WorkspaceOf[s] \in Workspaces /\ ActorOf[s] \in Actors /\ s # NoClient
    BY OfType
  <2>2. s \in open <=> clients[WorkspaceOf[s]][ActorOf[s]] = s
    BY DEF HubInv, OpenExactlyWhileRegistered, Registered
  <2>3. clients[w][a] = s => WorkspaceOf[s] = w /\ ActorOf[s] = a
    BY <2>1 DEF HubInv, FiledRight
  <2>4. QED
    BY <1>1, <1>3, <2>1, <2>2, <2>3
<1>6. OpenExactlyWhileRegistered'
  BY <1>5 DEF OpenExactlyWhileRegistered, Registered
<1>7. ASSUME NEW v \in Workspaces
      PROVE  v \in rooms' <=> Entries(clients'[v]) # {}
  <2>1. CASE v = w
    <3>1. clients'[w] = remaining
      BY <1>1 DEF HubInv, HubType
    <3>2. Entries(remaining) # {} => Entries(clients[w]) # {}
      BY DEF Entries, HubInv, HubType
    <3>3. w \in rooms <=> Entries(clients[w]) # {}
      BY DEF HubInv, RoomsAreOccupied
    <3>4. QED
      BY <1>1, <2>1, <3>1, <3>2, <3>3
  <2>2. CASE v # w
    <3>1. clients'[v] = clients[v] /\ (v \in rooms' <=> v \in rooms)
      BY <1>1, <2>2 DEF HubInv, HubType
    <3>2. QED
      BY <3>1 DEF HubInv, RoomsAreOccupied
  <2>3. QED
    BY <2>1, <2>2
<1>8. RoomsAreOccupied'
  BY <1>7 DEF RoomsAreOccupied
<1>9. QED
  BY <1>2, <1>4, <1>6, <1>8 DEF HubInv

LEMMA HubUnchanged ==
  ASSUME HubInv, UNCHANGED <<rooms, clients, open>>
  PROVE  HubInv'
<1>1. HubType'
  BY DEF HubInv, HubType
<1>2. FiledRight'
  BY DEF HubInv, FiledRight
<1>3. OpenExactlyWhileRegistered'
  BY DEF HubInv, OpenExactlyWhileRegistered, Registered
<1>4. RoomsAreOccupied'
  BY DEF HubInv, RoomsAreOccupied
<1>5. QED
  BY <1>1, <1>2, <1>3, <1>4 DEF HubInv
-------------------------------------------------------------------------------
(* The handlers. *)

LEMMA InitHub == Init => HubInv
BY RoomAssumption
   DEF Init, RoomInit, NoClients, HubInv, HubType, FiledRight,
       OpenExactlyWhileRegistered, Registered, RoomsAreOccupied, Entries

LEMMA NextHub == HubInv /\ [Next]_vars => HubInv'
<1> SUFFICES ASSUME HubInv, [Next]_vars
             PROVE  HubInv'
  OBVIOUS
<1>1. ASSUME NEW s \in Clients, JoinRoom(s)
      PROVE  HubInv'
  BY <1>1, JoinKeepsHub DEF JoinRoom
<1>2. ASSUME NEW s \in Clients, LeaveRoom(s)
      PROVE  HubInv'
  BY <1>2, OfType, LeaveKeepsHub DEF LeaveRoom
<1>3. ASSUME NEW s \in Clients,
             \/ Greet(s) \/ ReadFrame(s) \/ ReadEnds(s) \/ Broadcast(s)
             \/ Persist(s) \/ Writer(s)
      PROVE  UNCHANGED <<rooms, clients, open>>
  BY <1>3
     DEF Greet, ReadFrame, ReadEnds, Broadcast, CopyMembers, Admit, Deliver,
         Persist, Writer, WriteMessage, WriteFails, WriterSeesEnd, StopWriter,
         roomVars
<1>4. CASE UNCHANGED vars
  BY <1>4, HubUnchanged DEF vars, roomVars
<1>5. QED
  BY <1>1, <1>2, <1>3, <1>4, HubUnchanged DEF Next, Reader

\* A client's done channel is open exactly while the hub can reach it, for any
\* number of connections and any interleaving.
THEOREM CollabOpenExactlyWhileRegistered == Spec => []OpenExactlyWhileRegistered
<1>1. HubInv => OpenExactlyWhileRegistered
  BY DEF HubInv
<1>2. QED
  BY InitHub, NextHub, <1>1, PTL DEF Spec

\* Rooms neither leak nor vanish: the hub holds a room exactly while it is occupied.
THEOREM CollabRoomsAreOccupied == Spec => []RoomsAreOccupied
<1>1. HubInv => RoomsAreOccupied
  BY DEF HubInv
<1>2. QED
  BY InitHub, NextHub, <1>1, PTL DEF Spec
-------------------------------------------------------------------------------
(* Type correctness. *)

\* A handler inside Broadcast or about to store holds a frame: without this, what
\* is enqueued and stored would have no type.
HoldsFrame ==
  \A s \in Clients : pc[s] \in Broadcasting \union {"persist"} => msg[s] \in Message

SessionInv == TypeOK /\ HoldsFrame

LEMMA InitSession == Init => SessionInv
BY RoomAssumption
   DEF Init, RoomInit, NoClients, SessionInv, TypeOK, RoomTypeOK, HoldsFrame,
       Labels, Serving, Broadcasting

\* What the helpers that end a turn of the read loop leave behind.
FrameType ==
  /\ pc \in [Clients -> Labels]
  /\ msg \in [Clients -> Message \union {NoMessage}]
  /\ sender \in [Clients -> Clients \union {NoClient}]
  /\ pending \in [Clients -> SUBSET Clients]
  /\ HoldsFrame

LEMMA ReturnType ==
  ASSUME SessionInv, NEW s \in Clients, Return(s)
  PROVE  FrameType' /\ cancelled' \subseteq Clients
BY DEF Return, Goto, Forget, SessionInv, TypeOK, HoldsFrame, FrameType, Labels,
       Serving, Broadcasting

\* A handler moves on with a frame in hand.
LEMMA FrameMoves ==
  ASSUME SessionInv, NEW s \in Clients, NEW l \in Labels, NEW m \in Message,
         NEW r \in SUBSET Clients, NEW t \in Clients \union {NoClient},
         pc' = [pc EXCEPT ![s] = l],
         msg' = [msg EXCEPT ![s] = m],
         sender' = [sender EXCEPT ![s] = t],
         pending' = [pending EXCEPT ![s] = r]
  PROVE  FrameType'
<1>1. /\ pc' \in [Clients -> Labels]
      /\ msg' \in [Clients -> Message \union {NoMessage}]
      /\ sender' \in [Clients -> Clients \union {NoClient}]
      /\ pending' \in [Clients -> SUBSET Clients]
  BY DEF SessionInv, TypeOK
<1>2. HoldsFrame'
  BY DEF SessionInv, TypeOK, HoldsFrame
<1>3. QED
  BY <1>1, <1>2 DEF FrameType

LEMMA AfterBroadcastType ==
  ASSUME SessionInv, NEW s \in Clients, NEW m \in Message, AfterBroadcast(s, m)
  PROVE  FrameType'
<1>1. CASE m.kind = "sync"
  <2>1. /\ pc' = [pc EXCEPT ![s] = "persist"]
        /\ msg' = [msg EXCEPT ![s] = m]
        /\ sender' = [sender EXCEPT ![s] = NoClient]
        /\ pending' = [pending EXCEPT ![s] = {}]
    BY <1>1 DEF AfterBroadcast, Goto
  <2>2. QED
    BY <2>1, FrameMoves DEF Labels, Serving
<1>2. CASE m.kind # "sync"
  <2>1. Goto(s, "reading") /\ Forget(s)
    BY <1>2 DEF AfterBroadcast
  <2>2. QED
    BY <2>1
       DEF Goto, Forget, SessionInv, TypeOK, HoldsFrame, FrameType, Labels, Serving,
           Broadcasting
<1>3. QED
  BY <1>1, <1>2

LEMMA ContinueType ==
  ASSUME SessionInv, NEW s \in Clients, pc[s] \in Broadcasting,
         NEW rest \in SUBSET Clients, Continue(s, rest)
  PROVE  FrameType'
<1>1. msg[s] \in Message
  BY DEF SessionInv, HoldsFrame
<1>2. CASE rest = {}
  BY <1>1, <1>2, AfterBroadcastType DEF Continue
<1>3. CASE rest # {}
  <2>1. /\ pc' = [pc EXCEPT ![s] = "fanout"]
        /\ msg' = [msg EXCEPT ![s] = msg[s]]
        /\ sender' = [sender EXCEPT ![s] = NoClient]
        /\ pending' = [pending EXCEPT ![s] = rest]
    BY <1>3 DEF Continue, Goto, SessionInv, TypeOK
  <2>2. QED
    BY <1>1, <2>1, FrameMoves DEF Labels, Serving, Broadcasting
<1>4. QED
  BY <1>2, <1>3

LEMMA OfferType ==
  ASSUME SessionInv, NEW c \in Clients, NEW m \in Message, Offer(m, c)
  PROVE  /\ queue' \in [Clients -> Seq(Message)]
         /\ \A d \in Clients : Len(queue'[d]) <= SendBuffer
<1>1. queue \in [Clients -> Seq(Message)] /\ \A d \in Clients : Len(queue[d]) <= SendBuffer
  BY DEF SessionInv, TypeOK, RoomTypeOK
<1>2. CASE UNCHANGED queue
  BY <1>1, <1>2
<1>3. CASE /\ Len(queue[c]) < SendBuffer
           /\ queue' = [queue EXCEPT ![c] = Append(@, m)]
  <2>1. /\ queue[c] \in Seq(Message)
        /\ Append(queue[c], m) \in Seq(Message)
        /\ Len(Append(queue[c], m)) = Len(queue[c]) + 1
    BY <1>1
  <2>2. Len(Append(queue[c], m)) <= SendBuffer
    BY <1>3, <2>1, RoomAssumption
  <2>3. QED
    BY <1>1, <1>3, <2>1, <2>2
<1>4. QED
  BY <1>2, <1>3 DEF Offer

LEMMA StampType ==
  ASSUME SessionInv, NEW s \in Clients, NEW w \in Workspaces, NEW a \in Actors,
         NEW k \in Kinds
  PROVE  Stamp(s, [from |-> s, n |-> sent[s] + 1, ws |-> w, actor |-> a, kind |-> k])
           \in Message
<1>1. /\ WorkspaceOf[s] \in Workspaces /\ ActorOf[s] \in Actors
      /\ sent[s] + 1 \in Nat \ {0}
  BY OfType DEF SessionInv, TypeOK
<1> DEFINE f == [from |-> s, n |-> sent[s] + 1, ws |-> w, actor |-> a, kind |-> k]
<1>2. f \in Message
  BY <1>1 DEF Message
<1>3. [f EXCEPT !.ws = WorkspaceOf[s]] \in Message
  BY <1>1, <1>2 DEF Message
<1>4. [[f EXCEPT !.ws = WorkspaceOf[s]] EXCEPT !.actor = ActorOf[s]] \in Message
  BY <1>1, <1>3 DEF Message
<1>5. QED
  BY <1>4 DEF Stamp

LEMMA NextSession == HubInv /\ SessionInv /\ [Next]_vars => SessionInv'
<1> SUFFICES ASSUME HubInv, SessionInv, [Next]_vars
             PROVE  SessionInv'
  OBVIOUS
<1>0. HubType'
  BY NextHub DEF HubInv
<1>1. ASSUME NEW s \in Clients, JoinRoom(s)
      PROVE  SessionInv'
  BY <1>0, <1>1
     DEF JoinRoom, Join, Goto, frameVars, peerVars, SessionInv, TypeOK, RoomTypeOK,
         HubType, HoldsFrame, Labels, Serving, Broadcasting
<1>2. ASSUME NEW s \in Clients, Greet(s)
      PROVE  SessionInv'
  <2>1. snapshot[WorkspaceOf[s]] \in Message \union {NoMessage}
    BY OfType DEF SessionInv, TypeOK
  <2>2. CASE Return(s) /\ UNCHANGED <<greeting, writer>>
    BY <1>2, <2>2, ReturnType
       DEF Greet, roomVars, SessionInv, TypeOK, RoomTypeOK, FrameType
  <2>3. CASE /\ UNCHANGED greeting \/ greeting' = [greeting EXCEPT ![s] =
                                                   snapshot[WorkspaceOf[s]]]
             /\ writer' = [writer EXCEPT ![s] = "on"]
             /\ Goto(s, "reading")
             /\ UNCHANGED <<cancelled, frameVars>>
    <3>1. FrameType'
      BY <2>3
         DEF Goto, frameVars, SessionInv, TypeOK, HoldsFrame, FrameType, Labels,
             Serving, Broadcasting
    <3>2. /\ greeting' \in [Clients -> Message \union {NoMessage}]
          /\ writer' \in [Clients -> {"off", "on", "stopped"}]
      BY <2>1, <2>3 DEF SessionInv, TypeOK
    <3>3. QED
      BY <1>2, <2>3, <3>1, <3>2
         DEF Greet, roomVars, SessionInv, TypeOK, RoomTypeOK, FrameType
  <2>4. QED
    BY <1>2, <2>2, <2>3 DEF Greet
<1>3. ASSUME NEW s \in Clients, ReadFrame(s)
      PROVE  SessionInv'
  <2>1. FrameType'
    <3>1. PICK w \in Workspaces, a \in Actors, k \in Kinds :
            LET m == Stamp(s, [from |-> s, n |-> sent[s] + 1, ws |-> w, actor |-> a,
                               kind |-> k])
            IN  IF m.ws \in rooms
                THEN /\ Goto(s, "members")
                     /\ msg' = [msg EXCEPT ![s] = m]
                     /\ UNCHANGED <<sender, pending>>
                ELSE AfterBroadcast(s, m)
      BY <1>3 DEF ReadFrame
    <3> DEFINE m == Stamp(s, [from |-> s, n |-> sent[s] + 1, ws |-> w, actor |-> a,
                              kind |-> k])
    <3>2. m \in Message
      BY StampType
    <3> HIDE DEF m
    <3>3. CASE AfterBroadcast(s, m)
      BY <3>2, <3>3, AfterBroadcastType
    <3>4. CASE /\ Goto(s, "members")
               /\ msg' = [msg EXCEPT ![s] = m]
               /\ UNCHANGED <<sender, pending>>
      BY <3>2, <3>4
         DEF Goto, SessionInv, TypeOK, HoldsFrame, FrameType, Labels, Serving,
             Broadcasting
    <3>5. QED
      BY <3>1, <3>3, <3>4 DEF m
  <2>2. /\ sent' = [sent EXCEPT ![s] = @ + 1]
        /\ UNCHANGED <<roomVars, writer, cancelled, orphan, snapshot, peerVars>>
    BY <1>3, Zenon DEF ReadFrame
  <2>3. QED
    BY <2>1, <2>2
       DEF roomVars, peerVars, SessionInv, TypeOK, RoomTypeOK, FrameType
<1>4. ASSUME NEW s \in Clients, ReadEnds(s)
      PROVE  SessionInv'
  BY <1>4, ReturnType
     DEF ReadEnds, roomVars, peerVars, SessionInv, TypeOK, RoomTypeOK, FrameType
<1>5. ASSUME NEW s \in Clients, CopyMembers(s)
      PROVE  SessionInv'
  <2> DEFINE a    == msg[s].actor
             room == IF s \in orphan THEN NoClients ELSE clients[msg[s].ws]
  <2>1. msg[s] \in Message
    BY <1>5 DEF CopyMembers, SessionInv, HoldsFrame, Broadcasting
  <2>2. a \in Actors /\ room \in [Actors -> Clients \union {NoClient}]
    BY <2>1 DEF Message, NoClients, SessionInv, TypeOK, RoomTypeOK
  <2>3. room[a] \in Clients \union {NoClient}
        /\ Entries([room EXCEPT ![a] = NoClient]) \in SUBSET Clients
    BY <2>2 DEF Entries
  <2> HIDE DEF a, room
  <2>4. FrameType' /\ cancelled' \subseteq Clients
    <3>1. CASE Return(s)
      BY <3>1, ReturnType
    <3>2. CASE /\ sender' = [sender EXCEPT ![s] = room[a]]
               /\ pending' = [pending EXCEPT ![s] =
                                Entries([room EXCEPT ![a] = NoClient])]
               /\ Goto(s, "admit")
               /\ UNCHANGED <<cancelled, msg>>
      BY <2>1, <2>3, <3>2
         DEF Goto, SessionInv, TypeOK, HoldsFrame, FrameType, Labels, Serving,
             Broadcasting
    <3>3. QED
      BY <1>5, <3>1, <3>2 DEF CopyMembers, a, room
  <2>5. QED
    BY <1>5, <2>4
       DEF CopyMembers, roomVars, peerVars, SessionInv, TypeOK, RoomTypeOK, FrameType
<1>6. ASSUME NEW s \in Clients, Admit(s)
      PROVE  SessionInv'
  <2>1. pc[s] \in Broadcasting /\ pending[s] \in SUBSET Clients
    BY <1>6 DEF Admit, SessionInv, TypeOK, Broadcasting
  <2>2. FrameType' /\ cancelled' \subseteq Clients
    <3>1. CASE Return(s)
      BY <3>1, ReturnType
    <3>2. CASE Continue(s, pending[s]) /\ UNCHANGED cancelled
      BY <2>1, <3>2, ContinueType DEF SessionInv, TypeOK
    <3>3. QED
      BY <1>6, <3>1, <3>2 DEF Admit
  <2>3. msgCount' \in [Clients -> Nat]
    <3>1. PICK expired \in BOOLEAN :
            msgCount' = [msgCount EXCEPT ![sender[s]] = Tally(sender[s], expired)]
      BY <1>6 DEF Admit
    <3>2. sender[s] \in Clients => Tally(sender[s], expired) \in Nat
      BY DEF Tally, SessionInv, TypeOK, RoomTypeOK
    <3>3. QED
      BY <3>1, <3>2 DEF SessionInv, TypeOK, RoomTypeOK
  <2>4. QED
    BY <1>6, <2>2, <2>3
       DEF Admit, peerVars, SessionInv, TypeOK, RoomTypeOK, FrameType
<1>7. ASSUME NEW s \in Clients, Deliver(s)
      PROVE  SessionInv'
  <2>1. PICK c \in pending[s] :
          Offer(msg[s], c) /\ Continue(s, pending[s] \ {c})
    BY <1>7 DEF Deliver
  <2>2. /\ pc[s] \in Broadcasting /\ msg[s] \in Message
        /\ c \in Clients /\ pending[s] \ {c} \in SUBSET Clients
    BY <1>7 DEF Deliver, SessionInv, TypeOK, HoldsFrame, Broadcasting
  <2>3. FrameType'
    BY <2>1, <2>2, ContinueType
  <2>4. /\ queue' \in [Clients -> Seq(Message)]
        /\ \A d \in Clients : Len(queue'[d]) <= SendBuffer
    BY <2>1, <2>2, OfferType
  <2>5. QED
    BY <1>7, <2>3, <2>4
       DEF Deliver, peerVars, SessionInv, TypeOK, RoomTypeOK, FrameType
<1>8. ASSUME NEW s \in Clients, Persist(s)
      PROVE  SessionInv'
  <2>1. FrameType'
    BY <1>8
       DEF Persist, Goto, Forget, SessionInv, TypeOK, HoldsFrame, FrameType,
           Labels, Serving, Broadcasting
  <2>2. snapshot' \in [Workspaces -> Message \union {NoMessage}]
    BY <1>8 DEF Persist, SessionInv, TypeOK
  <2>3. QED
    BY <1>8, <2>1, <2>2
       DEF Persist, roomVars, peerVars, SessionInv, TypeOK, RoomTypeOK, FrameType
<1>9. ASSUME NEW s \in Clients, LeaveRoom(s)
      PROVE  SessionInv'
  BY <1>0, <1>9
     DEF LeaveRoom, Leave, Goto, frameVars, peerVars, SessionInv, TypeOK,
         RoomTypeOK, HubType, HoldsFrame, Labels, Serving, Broadcasting
<1>10. ASSUME NEW s \in Clients, WriteMessage(s)
       PROVE  SessionInv'
  <2>1. /\ queue[s] \in Seq(Message) /\ queue[s] # <<>>
        /\ queue' = [queue EXCEPT ![s] = Tail(@)]
        /\ wire' = [wire EXCEPT ![s] = Append(@, Head(queue[s]))]
    BY <1>10 DEF WriteMessage, SessionInv, TypeOK, RoomTypeOK
  <2>2. /\ Tail(queue[s]) \in Seq(Message) /\ Head(queue[s]) \in Message
        /\ Len(Tail(queue[s])) <= SendBuffer
    BY <2>1, RoomAssumption DEF SessionInv, TypeOK, RoomTypeOK
  <2>3. queue' \in [Clients -> Seq(Message)] /\ wire' \in [Clients -> Seq(Message)]
    BY <2>1, <2>2 DEF SessionInv, TypeOK, RoomTypeOK
  <2>4. \A d \in Clients : Len(queue'[d]) <= SendBuffer
    BY <2>1, <2>2 DEF SessionInv, TypeOK, RoomTypeOK
  <2>5. QED
    BY <1>10, <2>3, <2>4
       DEF WriteMessage, readerVars, frameVars, SessionInv, TypeOK, RoomTypeOK,
           HoldsFrame
<1>11. ASSUME NEW s \in Clients, WriteFails(s) \/ WriterSeesEnd(s)
       PROVE  SessionInv'
  BY <1>11
     DEF WriteFails, WriterSeesEnd, StopWriter, roomVars, readerVars, frameVars,
         peerVars, SessionInv, TypeOK, RoomTypeOK, HoldsFrame
<1>12. CASE UNCHANGED vars
  BY <1>12
     DEF vars, roomVars, readerVars, frameVars, peerVars, SessionInv, TypeOK,
         RoomTypeOK, HoldsFrame
<1>13. QED
  BY <1>1, <1>2, <1>3, <1>4, <1>5, <1>6, <1>7, <1>8, <1>9, <1>10, <1>11, <1>12
     DEF Next, Reader, Broadcast, Writer

\* Every reachable state has its type; in particular no send buffer ever holds more
\* than its capacity, although several broadcasts fill it at once.
THEOREM CollabTypeOK == Spec => []TypeOK
<1>1. SessionInv => TypeOK
  BY DEF SessionInv
<1>2. QED
  BY InitHub, NextHub, InitSession, NextSession, <1>1, PTL DEF Spec
-------------------------------------------------------------------------------
(* Snapshots. *)

\* The frame in a handler's hands is its own, stamped with its session; only a
\* sync frame is about to be stored; and only authorized handlers got so far.
OwnFrame(s, m) == m.from = s /\ m.ws = WorkspaceOf[s] /\ m.actor = ActorOf[s]

HandlesOwn(s) ==
  /\ pc[s] # "new" => Authorized(s)
  /\ msg[s] # NoMessage => OwnFrame(s, msg[s])
  /\ pc[s] = "persist" => msg[s].kind = "sync"

ConfinedInv == (\A s \in Clients : HandlesOwn(s)) /\ SnapshotConfined

\* A handler that is past its authorization moves on, alone, with no frame or
\* with one of its own.
OwnMove(s) ==
  /\ pc' \in [Clients -> Labels] /\ msg' \in [Clients -> Message \union {NoMessage}]
  /\ \A t \in Clients \ {s} : pc'[t] = pc[t] /\ msg'[t] = msg[t]
  /\ msg'[s] # NoMessage => OwnFrame(s, msg'[s])
  /\ pc'[s] = "persist" => msg'[s].kind = "sync"

LEMMA OwnMoveKeepsOwn ==
  ASSUME \A t \in Clients : HandlesOwn(t), NEW s \in Clients, Authorized(s), OwnMove(s)
  PROVE  (\A t \in Clients : HandlesOwn(t))'
<1> SUFFICES ASSUME NEW t \in Clients
             PROVE  HandlesOwn(t)'
  OBVIOUS
<1>1. CASE t = s
  BY <1>1 DEF OwnMove, HandlesOwn, Authorized, OwnFrame
<1>2. CASE t # s
  BY <1>2 DEF OwnMove, HandlesOwn, Authorized, OwnFrame
<1>3. QED
  BY <1>1, <1>2

LEMMA StampOwn ==
  ASSUME SessionInv, NEW s \in Clients, NEW w \in Workspaces, NEW a \in Actors,
         NEW k \in Kinds
  PROVE  OwnFrame(s, Stamp(s, [from |-> s, n |-> sent[s] + 1, ws |-> w, actor |-> a,
                               kind |-> k]))
BY DEF Stamp, OwnFrame

LEMMA ReturnOwn ==
  ASSUME SessionInv, NEW s \in Clients, Return(s)
  PROVE  OwnMove(s)
<1>1. FrameType'
  BY ReturnType
<1>2. pc' = [pc EXCEPT ![s] = "leaving"] /\ msg' = [msg EXCEPT ![s] = NoMessage]
  BY DEF Return, Goto, Forget
<1>3. QED
  BY <1>1, <1>2 DEF OwnMove, FrameType, SessionInv, TypeOK

LEMMA AfterBroadcastOwn ==
  ASSUME SessionInv, NEW s \in Clients, NEW m \in Message, OwnFrame(s, m),
         AfterBroadcast(s, m)
  PROVE  OwnMove(s)
<1>1. FrameType'
  BY AfterBroadcastType
<1>2. CASE m.kind = "sync"
  <2>1. pc' = [pc EXCEPT ![s] = "persist"] /\ msg' = [msg EXCEPT ![s] = m]
    BY <1>2 DEF AfterBroadcast, Goto
  <2>2. QED
    BY <1>1, <1>2, <2>1 DEF OwnMove, FrameType, SessionInv, TypeOK
<1>3. CASE m.kind # "sync"
  <2>1. pc' = [pc EXCEPT ![s] = "reading"] /\ msg' = [msg EXCEPT ![s] = NoMessage]
    BY <1>3 DEF AfterBroadcast, Goto, Forget
  <2>2. QED
    BY <1>1, <2>1 DEF OwnMove, FrameType, SessionInv, TypeOK
<1>4. QED
  BY <1>2, <1>3

LEMMA ContinueOwn ==
  ASSUME SessionInv, NEW s \in Clients, HandlesOwn(s), pc[s] \in Broadcasting,
         NEW rest \in SUBSET Clients, Continue(s, rest)
  PROVE  OwnMove(s)
<1>1. /\ msg[s] \in Message /\ msg[s] # NoMessage
      /\ OwnFrame(s, msg[s])
  BY SessionAssumption DEF SessionInv, HoldsFrame, HandlesOwn
<1>2. CASE rest = {}
  BY <1>1, <1>2, AfterBroadcastOwn DEF Continue
<1>3. CASE rest # {}
  <2>1. FrameType'
    BY ContinueType
  <2>2. pc' = [pc EXCEPT ![s] = "fanout"] /\ msg' = msg
    BY <1>3 DEF Continue, Goto
  <2>3. QED
    BY <1>1, <2>1, <2>2 DEF OwnMove, FrameType, SessionInv, TypeOK
<1>4. QED
  BY <1>2, <1>3

\* What SnapshotConfined says of one workspace and one message.
Confined(w, m) ==
  m # NoMessage => /\ m.ws = w
                   /\ m.kind = "sync"
                   /\ WorkspaceOf[m.from] = w
                   /\ ActorOf[m.from] = m.actor
                   /\ Authorized(m.from)

LEMMA ConfinedAfterStep ==
  ASSUME \A w \in Workspaces : Confined(w, snapshot'[w]),
         \A s \in Clients : Confined(WorkspaceOf[s], greeting'[s])
  PROVE  SnapshotConfined'
BY DEF SnapshotConfined, Confined, Authorized

LEMMA SnapshotUnchanged ==
  ASSUME SnapshotConfined, UNCHANGED <<snapshot, greeting>>
  PROVE  SnapshotConfined'
BY DEF SnapshotConfined, Authorized

LEMMA NextConfined == SessionInv /\ ConfinedInv /\ [Next]_vars => ConfinedInv'
<1> SUFFICES ASSUME SessionInv, ConfinedInv, [Next]_vars
             PROVE  ConfinedInv'
  OBVIOUS
<1>1. ASSUME NEW s \in Clients, JoinRoom(s)
      PROVE  ConfinedInv'
  <2>1. /\ Authorized(s)
        /\ pc' = [pc EXCEPT ![s] = "joined"] /\ UNCHANGED <<msg, snapshot, greeting>>
    BY <1>1 DEF JoinRoom, Goto, frameVars, peerVars
  <2>2. OwnMove(s)
    BY <2>1 DEF OwnMove, ConfinedInv, HandlesOwn, SessionInv, TypeOK, Labels
  <2>3. QED
    BY <2>1, <2>2, OwnMoveKeepsOwn, SnapshotUnchanged DEF ConfinedInv
<1>2. ASSUME NEW s \in Clients, Greet(s)
      PROVE  ConfinedInv'
  <2>1. Authorized(s)
    BY <1>2 DEF Greet, ConfinedInv, HandlesOwn
  <2>2. OwnMove(s)
    <3>1. CASE Return(s)
      BY <3>1, ReturnOwn
    <3>2. CASE Goto(s, "reading") /\ UNCHANGED frameVars
      BY <3>2
         DEF Goto, frameVars, OwnMove, ConfinedInv, HandlesOwn, SessionInv, TypeOK, Labels,
             Serving
    <3>3. QED
      BY <1>2, <3>1, <3>2 DEF Greet
  <2>3. /\ UNCHANGED snapshot
        /\ UNCHANGED greeting \/ greeting' = [greeting EXCEPT ![s] = snapshot[WorkspaceOf[s]]]
    BY <1>2 DEF Greet
  <2>4. SnapshotConfined'
    <3>1. WorkspaceOf[s] \in Workspaces
      BY OfType
    <3>2. \A w \in Workspaces : Confined(w, snapshot'[w])
      BY <2>3 DEF ConfinedInv, SnapshotConfined, Confined
    <3>3. Confined(WorkspaceOf[s], snapshot[WorkspaceOf[s]])
      BY <3>1 DEF ConfinedInv, SnapshotConfined, Confined
    <3>4. \A t \in Clients :
            \/ greeting'[t] = greeting[t]
            \/ t = s /\ greeting'[t] = snapshot[WorkspaceOf[s]]
      BY <2>3 DEF SessionInv, TypeOK
    <3>5. \A t \in Clients : Confined(WorkspaceOf[t], greeting[t])
      BY DEF ConfinedInv, SnapshotConfined, Confined
    <3>6. \A t \in Clients : Confined(WorkspaceOf[t], greeting'[t])
      BY <3>3, <3>4, <3>5
    <3>7. QED
      BY <3>2, <3>6, ConfinedAfterStep
  <2>5. QED
    BY <2>1, <2>2, <2>4, OwnMoveKeepsOwn DEF ConfinedInv
<1>3. ASSUME NEW s \in Clients, ReadFrame(s)
      PROVE  ConfinedInv'
  <2>1. PICK w \in Workspaces, a \in Actors, k \in Kinds :
          LET m == Stamp(s, [from |-> s, n |-> sent[s] + 1, ws |-> w, actor |-> a,
                             kind |-> k])
          IN  IF m.ws \in rooms
              THEN /\ Goto(s, "members")
                   /\ msg' = [msg EXCEPT ![s] = m]
                   /\ UNCHANGED <<sender, pending>>
              ELSE AfterBroadcast(s, m)
    BY <1>3 DEF ReadFrame
  <2> DEFINE m == Stamp(s, [from |-> s, n |-> sent[s] + 1, ws |-> w, actor |-> a,
                            kind |-> k])
  <2>2. m \in Message /\ OwnFrame(s, m)
    BY StampType, StampOwn
  <2>3. Authorized(s)
    BY <1>3 DEF ReadFrame, ConfinedInv, HandlesOwn
  <2> HIDE DEF m
  <2>4. OwnMove(s)
    <3>1. CASE AfterBroadcast(s, m)
      BY <2>2, <3>1, AfterBroadcastOwn
    <3>2. CASE Goto(s, "members") /\ msg' = [msg EXCEPT ![s] = m]
      BY <2>2, <3>2
         DEF Goto, OwnMove, SessionInv, TypeOK, Labels, Serving, Broadcasting
    <3>3. QED
      BY <2>1, <3>1, <3>2 DEF m
  <2>5. UNCHANGED <<snapshot, greeting>>
    BY <1>3, Zenon DEF ReadFrame, peerVars
  <2>6. QED
    BY <2>3, <2>4, <2>5, OwnMoveKeepsOwn, SnapshotUnchanged DEF ConfinedInv
<1>4. ASSUME NEW s \in Clients, ReadEnds(s) \/ Broadcast(s)
      PROVE  ConfinedInv'
  <2>1. Authorized(s)
    <3>1. pc[s] # "new"
      BY <1>4 DEF ReadEnds, Broadcast, CopyMembers, Admit, Deliver
    <3>2. QED
      BY <3>1 DEF ConfinedInv, HandlesOwn
  <2>3. OwnMove(s)
    <3>1. CASE Return(s)
      BY <3>1, ReturnOwn
    <3>2. CASE CopyMembers(s) /\ Goto(s, "admit") /\ UNCHANGED msg
      BY <3>2
         DEF CopyMembers, Goto, OwnMove, ConfinedInv, HandlesOwn, SessionInv, TypeOK, Labels,
             Serving, Broadcasting
    <3>3. CASE \E rest \in SUBSET Clients : pc[s] \in Broadcasting /\ Continue(s, rest)
      BY <3>3, ContinueOwn DEF ConfinedInv
    <3>4. Admit(s) => \/ Return(s)
                      \/ pc[s] \in Broadcasting /\ Continue(s, pending[s])
      BY DEF Admit, Broadcasting
    <3>5. Deliver(s) => \E c : pc[s] \in Broadcasting /\ Continue(s, pending[s] \ {c})
      <4>1. SUFFICES ASSUME Deliver(s)
                     PROVE  \E c : pc[s] \in Broadcasting /\ Continue(s, pending[s] \ {c})
        OBVIOUS
      <4>2. PICK c : Continue(s, pending[s] \ {c})
        BY <4>1, Zenon DEF Deliver
      <4>3. pc[s] \in Broadcasting
        BY <4>1 DEF Deliver, Broadcasting
      <4>4. QED
        BY <4>2, <4>3, Zenon
    <3>6. pending[s] \in SUBSET Clients
      <4>1. pending \in [Clients -> SUBSET Clients]
        BY DEF SessionInv, TypeOK
      <4>2. QED
        BY <4>1
    <3>7. CopyMembers(s) => Return(s) \/ (Goto(s, "admit") /\ UNCHANGED msg)
      BY DEF CopyMembers
    <3>8. QED
      BY <1>4, <3>1, <3>2, <3>3, <3>4, <3>5, <3>6, <3>7 DEF ReadEnds, Broadcast
  <2>4. UNCHANGED <<snapshot, greeting>>
    BY <1>4 DEF ReadEnds, Broadcast, CopyMembers, Admit, Deliver, peerVars
  <2>5. QED
    BY <2>1, <2>3, <2>4, OwnMoveKeepsOwn, SnapshotUnchanged DEF ConfinedInv
<1>5. ASSUME NEW s \in Clients, Persist(s)
      PROVE  ConfinedInv'
  <2>1. /\ msg[s] \in Message /\ OwnFrame(s, msg[s]) /\ msg[s].kind = "sync"
        /\ Authorized(s)
    BY <1>5, SessionAssumption
       DEF Persist, SessionInv, HoldsFrame, ConfinedInv, HandlesOwn
  <2>2. OwnMove(s)
    BY <1>5 DEF Persist, Goto, Forget, OwnMove, SessionInv, TypeOK, Labels, Serving
  <2>3. /\ UNCHANGED greeting
        /\ UNCHANGED snapshot \/ snapshot' = [snapshot EXCEPT ![WorkspaceOf[s]] = msg[s]]
    BY <1>5 DEF Persist, peerVars
  <2>4. SnapshotConfined'
    <3>1. Confined(WorkspaceOf[s], msg[s])
      BY <2>1 DEF OwnFrame, Confined, Authorized
    <3>2. \A w \in Workspaces : snapshot'[w] = snapshot[w] \/ (w = WorkspaceOf[s] /\ snapshot'[w] = msg[s])
      BY <2>3 DEF SessionInv, TypeOK
    <3>3. \A w \in Workspaces : Confined(w, snapshot'[w])
      BY <3>1, <3>2 DEF ConfinedInv, SnapshotConfined, Confined
    <3>4. \A t \in Clients : Confined(WorkspaceOf[t], greeting'[t])
      BY <2>3 DEF ConfinedInv, SnapshotConfined, Confined
    <3>5. QED
      BY <3>3, <3>4, ConfinedAfterStep
  <2>5. QED
    BY <2>1, <2>2, <2>4, OwnMoveKeepsOwn DEF ConfinedInv
<1>6. ASSUME NEW s \in Clients, LeaveRoom(s)
      PROVE  ConfinedInv'
  <2>1. /\ Authorized(s)
        /\ pc' = [pc EXCEPT ![s] = "done"] /\ UNCHANGED <<msg, snapshot, greeting>>
    BY <1>6 DEF LeaveRoom, Goto, frameVars, peerVars, ConfinedInv, HandlesOwn
  <2>2. OwnMove(s)
    BY <2>1 DEF OwnMove, ConfinedInv, HandlesOwn, SessionInv, TypeOK, Labels
  <2>3. QED
    BY <2>1, <2>2, OwnMoveKeepsOwn, SnapshotUnchanged DEF ConfinedInv
<1>7. CASE UNCHANGED <<pc, msg, snapshot, greeting>>
  <2>1. (\A s \in Clients : HandlesOwn(s))'
    BY <1>7 DEF ConfinedInv, HandlesOwn, OwnFrame, Authorized
  <2>2. QED
    BY <1>7, <2>1, SnapshotUnchanged DEF ConfinedInv
<1>8. ASSUME NEW s \in Clients, Writer(s)
      PROVE  UNCHANGED <<pc, msg, snapshot, greeting>>
  BY <1>8
     DEF Writer, WriteMessage, WriteFails, WriterSeesEnd, StopWriter, readerVars, frameVars,
         peerVars
<1>9. CASE UNCHANGED vars
  BY <1>7, <1>9 DEF vars, readerVars, frameVars, peerVars
<1>10. QED
  BY <1>1, <1>2, <1>3, <1>4, <1>5, <1>6, <1>7, <1>8, <1>9 DEF Next, Reader

LEMMA InitConfined == Init => ConfinedInv
<1> SUFFICES ASSUME Init
             PROVE  ConfinedInv
  OBVIOUS
<1>1. \A s \in Clients : pc[s] = "new" /\ msg[s] = NoMessage /\ greeting[s] = NoMessage
  BY DEF Init
<1>2. \A w \in Workspaces : snapshot[w] = NoMessage
  BY DEF Init
<1>3. QED
  BY <1>1, <1>2 DEF ConfinedInv, HandlesOwn, SnapshotConfined

\* SnapshotConfined: whatever a frame claims, what is stored for a workspace and
\* sent to its joiners is a sync frame of one of its authorized members.
THEOREM CollabSnapshotConfined == Spec => []SnapshotConfined
<1>1. ConfinedInv => SnapshotConfined
  BY DEF ConfinedInv
<1>2. QED
  BY InitHub, NextHub, InitSession, NextSession, InitConfined, NextConfined, <1>1, PTL
     DEF Spec
-------------------------------------------------------------------------------
(* The relay. *)

\* What has been relayed to a peer or waits in its buffer, oldest first.
Line(c) == wire[c] \o queue[c]

\* A frame in c's line bears its author's session, was read, and may reach c.
Carries(m, c) ==
  /\ m.from \in Clients
  /\ OwnFrame(m.from, m)
  /\ m.n <= sent[m.from]
  /\ Relay!Reaches(m.from, c)

LineInv(c) ==
  /\ \A i \in 1..Len(Line(c)) : Carries(Line(c)[i], c)
  /\ \A i, j \in 1..Len(Line(c)) :
       i < j /\ Line(c)[i].from = Line(c)[j].from => Line(c)[i].n < Line(c)[j].n

\* The last frame read from s has not been put in c's line.
Ahead(s, c) ==
  \A i \in 1..Len(Line(c)) : Line(c)[i].from = s => Line(c)[i].n < sent[s]

\* A broadcast is of the last frame its handler read, and those it is still to be
\* offered to may hear it and have not got it.
HandInv(s) ==
  /\ pc[s] \in Broadcasting => msg[s].n = sent[s]
  /\ pc[s] = "members" => \A c \in Clients : Ahead(s, c)
  /\ \A c \in pending[s] : Relay!Reaches(s, c) /\ Ahead(s, c)

\* The hub holds only clients whose handlers have joined.
FiledJoined ==
  \A w \in Workspaces, a \in Actors :
    clients[w][a] # NoClient => pc[clients[w][a]] # "new"

RelayInv ==
  /\ FiledJoined
  /\ \A c \in Clients : LineInv(c)
  /\ \A s \in Clients : HandInv(s)

LEMMA FirstOfConcat ==
  ASSUME NEW S, NEW v \in Seq(S), NEW q \in Seq(S), NEW i \in 1..Len(v)
  PROVE  i \in 1..Len(v \o q) /\ (v \o q)[i] = v[i]
<1>1. Len(v) \in Nat /\ Len(q) \in Nat
  BY LenProperties
<1>2. i \in 1..(Len(v) + Len(q)) /\ i <= Len(v)
  BY <1>1
<1> DEFINE r == v \o q
<1>3. /\ Len(r) = Len(v) + Len(q)
      /\ \A j \in 1..(Len(v) + Len(q)) : r[j] = IF j <= Len(v) THEN v[j]
                                               ELSE q[j - Len(v)]
  BY ConcatProperties
<1> HIDE DEF r
<1>4. i \in 1..Len(r) /\ r[i] = v[i]
  BY <1>2, <1>3
<1>5. QED
  BY <1>4 DEF r

LEMMA LineType ==
  ASSUME SessionInv, NEW c \in Clients
  PROVE  /\ wire[c] \in Seq(Message) /\ queue[c] \in Seq(Message)
         /\ Line(c) \in Seq(Message)
<1>1. wire[c] \in Seq(Message) /\ queue[c] \in Seq(Message)
  BY DEF SessionInv, TypeOK, RoomTypeOK
<1>2. QED
  BY <1>1, ConcatProperties DEF Line

\* Appending to the second of two sequences appends to both.
LEMMA AppendToSecond ==
  ASSUME NEW S, NEW v \in Seq(S), NEW q \in Seq(S), NEW m \in S
  PROVE  v \o Append(q, m) = Append(v \o q, m)
<1>1. <<m>> \in Seq(S) /\ v \o q \in Seq(S)
  BY ConcatProperties
<1>2. Append(q, m) = q \o <<m>> /\ Append(v \o q, m) = (v \o q) \o <<m>>
  BY <1>1, AppendIsConcat
<1>3. (v \o q) \o <<m>> = v \o (q \o <<m>>)
  BY <1>1, ConcatAssociative
<1>4. QED
  BY <1>2, <1>3

\* Moving the head of the second to the end of the first leaves the whole as it was.
LEMMA ShiftHead ==
  ASSUME NEW S, NEW v \in Seq(S), NEW q \in Seq(S), q # <<>>
  PROVE  Append(v, Head(q)) \o Tail(q) = v \o q
<1>1. Head(q) \in S /\ Tail(q) \in Seq(S) /\ Head(q) = q[1]
  BY HeadTailProperties
<1>2. <<Head(q)>> \in Seq(S)
  BY <1>1
<1>3. Len(q) \in Nat \ {0}
  BY EmptySeq
<1>4. 1 \in 1..Len(q) /\ Len(q) \in 1..Len(q)
  BY <1>3
<1>5. SubSeq(q, 1, Len(q)) = <<q[1]>> \o SubSeq(q, 1 + 1, Len(q))
  BY <1>4, SubSeqRecursiveFirst
<1>6. SubSeq(q, 1, Len(q)) = q /\ Tail(q) = SubSeq(q, 2, Len(q)) /\ 1 + 1 = 2
  BY SubSeqFull, TailIsSubSeq
<1>7. q = <<Head(q)>> \o Tail(q)
  BY <1>1, <1>5, <1>6
<1>8. Append(v, Head(q)) = v \o <<Head(q)>>
  BY <1>1, AppendIsConcat
<1>9. (v \o <<Head(q)>>) \o Tail(q) = v \o (<<Head(q)>> \o Tail(q))
  BY <1>1, <1>2, ConcatAssociative
<1>10. QED
  BY <1>7, <1>8, <1>9

\* A frame offered to c and accepted ends c's line and no other.
LEMMA LineAppended ==
  ASSUME SessionInv, NEW c \in Clients, NEW m \in Message,
         queue' = [queue EXCEPT ![c] = Append(@, m)], UNCHANGED wire
  PROVE  /\ Line(c)' = Append(Line(c), m)
         /\ \A d \in Clients \ {c} : Line(d)' = Line(d)
<1>1. queue'[c] = Append(queue[c], m)
  BY DEF SessionInv, TypeOK, RoomTypeOK
<1>2. wire[c] \o Append(queue[c], m) = Append(wire[c] \o queue[c], m)
  <2>1. wire[c] \in Seq(Message) /\ queue[c] \in Seq(Message)
    BY LineType
  <2>2. \A v, q \in Seq(Message) : v \o Append(q, m) = Append(v \o q, m)
    BY AppendToSecond, SMT
  <2>3. QED
    BY <2>1, <2>2, Zenon
<1>3. \A d \in Clients \ {c} : Line(d)' = Line(d)
  BY DEF Line, SessionInv, TypeOK, RoomTypeOK
<1>4. QED
  BY <1>1, <1>2, <1>3 DEF Line

\* Writing a message to the socket moves it within its line.
LEMMA LineWritten ==
  ASSUME SessionInv, NEW s \in Clients, WriteMessage(s)
  PROVE  \A d \in Clients : Line(d)' = Line(d)
<1>1. queue[s] # <<>>
  BY DEF WriteMessage
<1>2. queue'[s] = Tail(queue[s]) /\ wire'[s] = Append(wire[s], Head(queue[s]))
  BY DEF WriteMessage, SessionInv, TypeOK, RoomTypeOK
<1>3. Append(wire[s], Head(queue[s])) \o Tail(queue[s]) = wire[s] \o queue[s]
  BY <1>1, LineType, ShiftHead
<1>4. Line(s)' = Line(s)
  BY <1>2, <1>3 DEF Line
<1>5. \A d \in Clients \ {s} : Line(d)' = Line(d)
  BY DEF WriteMessage, Line, SessionInv, TypeOK, RoomTypeOK
<1>6. QED
  BY <1>4, <1>5

\* A line that ends with one more frame of s, the last read and new to the line,
\* stays ordered; other authors' frames in it are as before.
LEMMA LineGrows ==
  ASSUME SessionInv, NEW s \in Clients, NEW c \in Clients, NEW m \in Message,
         LineInv(c), Ahead(s, c), Relay!Reaches(s, c),
         m.from = s, OwnFrame(s, m), m.n = sent[s],
         Line(c)' = Append(Line(c), m), UNCHANGED sent
  PROVE  /\ LineInv(c)'
         /\ \A t \in Clients \ {s} : Ahead(t, c) => Ahead(t, c)'
<1> DEFINE q == Line(c)
           r == Line(c)'
<1>1. q \in Seq(Message)
  BY LineType
<1>2. /\ Len(r) = Len(q) + 1
      /\ \A i \in 1..Len(q) : r[i] = q[i]
      /\ r[Len(q) + 1] = m
  BY <1>1, AppendProperties
<1>3. Len(q) \in Nat
  BY <1>1, LenProperties
<1>4. \A i \in 1..Len(q) : Carries(q[i], c)
  BY DEF LineInv
<1>5. \A i, j \in 1..Len(q) : i < j /\ q[i].from = q[j].from => q[i].n < q[j].n
  BY DEF LineInv
<1>6. \A i \in 1..Len(q) : q[i].from = s => q[i].n < sent[s]
  BY DEF Ahead
<1>7. \A x : Carries(x, c) => /\ x.from \in Clients /\ OwnFrame(x.from, x)
                              /\ x.n <= sent'[x.from] /\ Relay!Reaches(x.from, c)
  BY DEF Carries
<1>8. Carries(m, c)
  BY DEF Carries, SessionInv, TypeOK
<1>9. \A i \in 1..Len(r) : i \in 1..Len(q) \/ i = Len(q) + 1
  BY <1>2, <1>3
<1> HIDE DEF q, r
<1>10. \A i \in 1..Len(r) : Carries(r[i], c)
  BY <1>2, <1>4, <1>8, <1>9
<1>11. \A i, j \in 1..Len(r) : i < j /\ r[i].from = r[j].from => r[i].n < r[j].n
  <2> SUFFICES ASSUME NEW i \in 1..Len(r), NEW j \in 1..Len(r), i < j,
                      r[i].from = r[j].from
               PROVE  r[i].n < r[j].n
    OBVIOUS
  <2>1. i \in 1..Len(q)
    BY <1>2, <1>3
  <2>2. CASE j \in 1..Len(q)
    BY <1>2, <1>5, <2>1, <2>2
  <2>3. CASE j = Len(q) + 1
    BY <1>2, <1>6, <2>1, <2>3
  <2>4. QED
    BY <1>9, <2>2, <2>3
<1>12. LineInv(c)'
  <2>1. (\A i \in 1..Len(Line(c)) : Carries(Line(c)[i], c))'
    BY <1>7, <1>10 DEF r, Carries, OwnFrame, Relay!Reaches, Relay!Admitted
  <2>2. (\A i, j \in 1..Len(Line(c)) : i < j /\ Line(c)[i].from = Line(c)[j].from
                                        => Line(c)[i].n < Line(c)[j].n)'
    BY <1>11 DEF r
  <2>3. QED
    BY <2>1, <2>2 DEF LineInv
<1>13. ASSUME NEW t \in Clients \ {s}, Ahead(t, c)
       PROVE  Ahead(t, c)'
  <2>1. \A i \in 1..Len(q) : q[i].from = t => q[i].n < sent[t]
    BY <1>13 DEF Ahead, q
  <2>2. \A i \in 1..Len(r) : r[i].from = t => r[i].n < sent[t]
    BY <1>2, <1>9, <1>13, <2>1
  <2>3. QED
    BY <2>2 DEF Ahead, r
<1>14. QED
  BY <1>12, <1>13

\* Where no line changes and frame counters only grow, lines stay as they should be
\* and what was new to a line still is.
LEMMA LinesKept ==
  ASSUME SessionInv, \A d \in Clients : LineInv(d), \A d \in Clients : Line(d)' = Line(d),
         sent' \in [Clients -> Nat], \A t \in Clients : sent[t] <= sent'[t]
  PROVE  /\ \A d \in Clients : LineInv(d)'
         /\ \A t, d \in Clients : Ahead(t, d) => Ahead(t, d)'
<1>1. \A d \in Clients : Line(d) \in Seq(Message)
  BY LineType
<1>2. ASSUME NEW d \in Clients, NEW i \in 1..Len(Line(d))
      PROVE  Carries(Line(d)[i], d)' /\ Line(d)[i] \in Message
  <2>1. Line(d)[i] \in Message /\ Carries(Line(d)[i], d)
    BY <1>1, ElementOfSeq DEF LineInv
  <2> DEFINE m == Line(d)[i]
  <2>2. m.n \in Nat /\ m.from \in Clients
    BY <2>1 DEF Message
  <2>3. m.n <= sent[m.from] /\ sent[m.from] \in Nat /\ sent'[m.from] \in Nat
    BY <2>1, <2>2 DEF Carries, SessionInv, TypeOK
  <2>4. m.n <= sent'[m.from]
    BY <2>2, <2>3
  <2>5. QED
    BY <2>1, <2>4 DEF Carries, OwnFrame, Relay!Reaches, Relay!Admitted
<1>3. \A d \in Clients : LineInv(d)'
  BY <1>2 DEF LineInv
<1>4. ASSUME NEW t \in Clients, NEW d \in Clients, Ahead(t, d)
      PROVE  Ahead(t, d)'
  <2> SUFFICES ASSUME NEW i \in 1..Len(Line(d)), Line(d)[i].from = t
               PROVE  Line(d)[i].n < sent'[t]
    BY DEF Ahead
  <2>1. Line(d)[i].n < sent[t]
    BY <1>4 DEF Ahead
  <2>2. Line(d)[i].n \in Nat /\ sent[t] \in Nat /\ sent'[t] \in Nat /\ sent[t] <= sent'[t]
    BY <1>2 DEF Message, SessionInv, TypeOK
  <2>3. QED
    BY <2>1, <2>2
<1>5. QED
  BY <1>3, <1>4

\* The handlers other than s go on as they were.
OthersRest(s) ==
  \A t \in Clients \ {s} :
    /\ pc'[t] = pc[t] /\ msg'[t] = msg[t]
    /\ pending'[t] = pending[t] /\ sent'[t] = sent[t]

LEMMA HandKept ==
  ASSUME NEW t \in Clients, HandInv(t), pending[t] \subseteq Clients,
         pc'[t] = pc[t], msg'[t] = msg[t], pending'[t] = pending[t], sent'[t] = sent[t],
         \A d \in Clients : Ahead(t, d) => Ahead(t, d)'
  PROVE  HandInv(t)'
<1>1. (pc[t] \in Broadcasting => msg[t].n = sent[t])'
  BY DEF HandInv, Broadcasting
<1>2. (pc[t] = "members" => \A c \in Clients : Ahead(t, c))'
  BY DEF HandInv
<1>3. (\A c \in pending[t] : Relay!Reaches(t, c) /\ Ahead(t, c))'
  BY DEF HandInv, Relay!Reaches, Relay!Admitted
<1>4. QED
  BY <1>1, <1>2, <1>3 DEF HandInv

\* One handler moves and nothing enters a line: it is enough to look at its hands.
LEMMA HandlerMoves ==
  ASSUME SessionInv, RelayInv, NEW s \in Clients, OthersRest(s), FiledJoined',
         \A d \in Clients : Line(d)' = Line(d),
         sent' \in [Clients -> Nat], sent[s] <= sent'[s], HandInv(s)'
  PROVE  RelayInv'
<1>1. \A t \in Clients : sent[t] <= sent'[t]
  <2> SUFFICES ASSUME NEW t \in Clients
               PROVE  sent[t] <= sent'[t]
    OBVIOUS
  <2>1. sent[t] \in Nat
    BY DEF SessionInv, TypeOK
  <2>2. QED
    BY <2>1 DEF OthersRest
<1>2. /\ \A d \in Clients : LineInv(d)'
      /\ \A t, d \in Clients : Ahead(t, d) => Ahead(t, d)'
  BY <1>1, LinesKept DEF RelayInv
<1>3. \A t \in Clients : HandInv(t)'
  <2>1. ASSUME NEW t \in Clients \ {s}
        PROVE  HandInv(t)'
    BY <1>2, HandKept DEF OthersRest, RelayInv, SessionInv, TypeOK
  <2>2. QED
    BY <2>1
<1>4. QED
  BY <1>2, <1>3 DEF RelayInv

LEMMA FiledKept ==
  ASSUME SessionInv, FiledJoined, NEW s \in Clients,
         \A w \in Workspaces, a \in Actors :
           clients'[w][a] \in {clients[w][a], NoClient, s},
         pc'[s] # "new", \A t \in Clients \ {s} : pc'[t] = pc[t]
  PROVE  FiledJoined'
<1> SUFFICES ASSUME NEW w \in Workspaces, NEW a \in Actors,
                    clients'[w][a] # NoClient
             PROVE  pc'[clients'[w][a]] # "new"
  BY DEF FiledJoined
<1>1. CASE clients'[w][a] = s
  BY <1>1
<1>2. CASE clients'[w][a] = clients[w][a] /\ clients[w][a] # s
  <2>1. clients[w][a] \in Clients \ {s} /\ pc[clients[w][a]] # "new"
    BY <1>2 DEF FiledJoined, SessionInv, TypeOK, RoomTypeOK
  <2>2. QED
    BY <1>2, <2>1
<1>3. QED
  BY <1>1, <1>2

\* s moves on alone, out of the hub; it is done with the frame it held, if any.
LetsGo(s) ==
  /\ \A t \in Clients \ {s} :
       pc'[t] = pc[t] /\ msg'[t] = msg[t] /\ pending'[t] = pending[t]
  /\ pc'[s] \notin Broadcasting \union {"new"}
  /\ pending'[s] = {}

\* s moves on alone and goes on offering its frame, to no client but those of rest.
GoesOn(s, rest) ==
  /\ \A t \in Clients \ {s} :
       pc'[t] = pc[t] /\ msg'[t] = msg[t] /\ pending'[t] = pending[t]
  /\ pc'[s] \in {"admit", "fanout"}
  /\ msg'[s] = msg[s]
  /\ pending'[s] = rest

LEMMA ReturnLets ==
  ASSUME SessionInv, NEW s \in Clients, Return(s)
  PROVE  LetsGo(s)
BY DEF Return, Goto, Forget, LetsGo, SessionInv, TypeOK, Broadcasting

LEMMA AfterBroadcastLets ==
  ASSUME SessionInv, NEW s \in Clients, NEW m, AfterBroadcast(s, m)
  PROVE  LetsGo(s)
<1>1. CASE m.kind = "sync"
  BY <1>1 DEF AfterBroadcast, Goto, LetsGo, SessionInv, TypeOK, Broadcasting
<1>2. CASE m.kind # "sync"
  BY <1>2 DEF AfterBroadcast, Goto, Forget, LetsGo, SessionInv, TypeOK, Broadcasting
<1>3. QED
  BY <1>1, <1>2

LEMMA ContinueHands ==
  ASSUME SessionInv, NEW s \in Clients, NEW rest, Continue(s, rest)
  PROVE  LetsGo(s) \/ GoesOn(s, rest)
<1>1. CASE rest = {}
  BY <1>1, AfterBroadcastLets DEF Continue
<1>2. CASE rest # {}
  <2>1. /\ pc' = [pc EXCEPT ![s] = "fanout"]
        /\ pending' = [pending EXCEPT ![s] = rest]
        /\ UNCHANGED msg
    BY <1>2 DEF Continue, Goto
  <2>2. GoesOn(s, rest)
    BY <2>1 DEF GoesOn, SessionInv, TypeOK
  <2>3. QED
    BY <2>2
<1>3. QED
  BY <1>1, <1>2

\* A handler that lets its frame go keeps the invariant.
LEMMA LettingGo ==
  ASSUME SessionInv, RelayInv, NEW s \in Clients, LetsGo(s),
         UNCHANGED <<clients, queue, wire>>,
         UNCHANGED sent \/ sent' = [sent EXCEPT ![s] = @ + 1]
  PROVE  RelayInv'
<1>1. FiledJoined'
  <2>1. \A w \in Workspaces, a \in Actors : clients'[w][a] = clients[w][a]
    OBVIOUS
  <2>2. QED
    BY <2>1, FiledKept DEF RelayInv, LetsGo
<1>2. \A d \in Clients : Line(d)' = Line(d)
  BY DEF Line
<1>3. sent' \in [Clients -> Nat] /\ sent[s] <= sent'[s] /\ OthersRest(s)
  BY DEF SessionInv, TypeOK, LetsGo, OthersRest
<1>4. HandInv(s)'
  BY DEF LetsGo, HandInv, Broadcasting
<1>5. QED
  BY <1>1, <1>2, <1>3, <1>4, HandlerMoves

\* So does one that goes on offering it to clients that may have it.
LEMMA GoingOn ==
  ASSUME SessionInv, RelayInv, NEW s \in Clients, NEW rest \in SUBSET Clients,
         GoesOn(s, rest), pc[s] \in Broadcasting,
         UNCHANGED <<clients, queue, wire, sent>>,
         \A c \in rest : Relay!Reaches(s, c) /\ Ahead(s, c)
  PROVE  RelayInv'
<1>1. FiledJoined'
  <2>1. \A w \in Workspaces, a \in Actors : clients'[w][a] = clients[w][a]
    OBVIOUS
  <2>2. QED
    BY <2>1, FiledKept DEF RelayInv, GoesOn
<1>2. \A d \in Clients : Line(d)' = Line(d)
  BY DEF Line
<1>3. sent' \in [Clients -> Nat] /\ sent[s] <= sent'[s] /\ OthersRest(s)
  BY DEF SessionInv, TypeOK, GoesOn, OthersRest
<1>4. \A c \in Clients : Ahead(s, c)' <=> Ahead(s, c)
  BY <1>2 DEF Ahead
<1>5. HandInv(s)'
  <2>1. msg'[s].n = sent'[s]
    BY DEF GoesOn, RelayInv, HandInv
  <2>2. pc'[s] # "members"
    BY DEF GoesOn
  <2>3. \A c \in pending'[s] : Relay!Reaches(s, c) /\ Ahead(s, c)'
    BY <1>4 DEF GoesOn
  <2>4. QED
    BY <2>1, <2>2, <2>3 DEF HandInv, Relay!Reaches, Relay!Admitted
<1>6. QED
  BY <1>1, <1>2, <1>3, <1>5, HandlerMoves

\* Nobody's hands move and nothing enters a line.
LEMMA HandsRest ==
  ASSUME SessionInv, RelayInv, UNCHANGED <<clients, pc, msg, pending, sent>>,
         \A d \in Clients : Line(d)' = Line(d)
  PROVE  RelayInv'
<1>1. sent' \in [Clients -> Nat] /\ \A t \in Clients : sent[t] <= sent'[t]
  BY DEF SessionInv, TypeOK
<1>2. /\ \A d \in Clients : LineInv(d)'
      /\ \A t, d \in Clients : Ahead(t, d) => Ahead(t, d)'
  BY <1>1, LinesKept DEF RelayInv
<1>3. \A t \in Clients : HandInv(t)'
  BY <1>2, HandKept DEF RelayInv, SessionInv, TypeOK
<1>4. FiledJoined'
  BY DEF RelayInv, FiledJoined
<1>5. QED
  BY <1>2, <1>3, <1>4 DEF RelayInv

\* A handler comes into the hub, goes out of it, or turns to reading.
LEMMA MovingAside ==
  ASSUME SessionInv, RelayInv, NEW s \in Clients, NEW l \in {"joined", "reading", "done"},
         pc' = [pc EXCEPT ![s] = l], UNCHANGED <<msg, pending, queue, wire, sent>>,
         \A w \in Workspaces, a \in Actors :
           clients'[w][a] \in {clients[w][a], NoClient, s}
  PROVE  RelayInv'
<1>1. pc'[s] = l /\ \A t \in Clients \ {s} : pc'[t] = pc[t]
  BY DEF SessionInv, TypeOK
<1>2. FiledJoined'
  BY <1>1, FiledKept DEF RelayInv
<1>3. \A d \in Clients : Line(d)' = Line(d)
  BY DEF Line
<1>4. sent' \in [Clients -> Nat] /\ sent[s] <= sent'[s] /\ OthersRest(s)
  BY <1>1 DEF SessionInv, TypeOK, OthersRest
<1>5. \A c \in Clients : Ahead(s, c)' <=> Ahead(s, c)
  BY <1>3 DEF Ahead
<1>6. HandInv(s)'
  <2>1. \A c \in pending[s] : Relay!Reaches(s, c) /\ Ahead(s, c)'
    BY <1>5 DEF RelayInv, HandInv, SessionInv, TypeOK
  <2>2. QED
    BY <1>1, <2>1 DEF HandInv, Broadcasting, Relay!Reaches, Relay!Admitted
<1>7. QED
  BY <1>2, <1>3, <1>4, <1>6, HandlerMoves

LEMMA ReadKeepsRelay ==
  ASSUME SessionInv, RelayInv, NEW s \in Clients, ReadFrame(s)
  PROVE  RelayInv'
<1>1. PICK w \in Workspaces, a \in Actors, k \in Kinds :
        LET m == Stamp(s, [from |-> s, n |-> sent[s] + 1, ws |-> w, actor |-> a,
                           kind |-> k])
        IN  IF m.ws \in rooms
            THEN /\ Goto(s, "members")
                 /\ msg' = [msg EXCEPT ![s] = m]
                 /\ UNCHANGED <<sender, pending>>
            ELSE AfterBroadcast(s, m)
  BY DEF ReadFrame
<1> DEFINE m == Stamp(s, [from |-> s, n |-> sent[s] + 1, ws |-> w, actor |-> a,
                          kind |-> k])
<1>2. m.n = sent[s] + 1
  BY DEF Stamp
<1> HIDE DEF m
<1>3. /\ sent' = [sent EXCEPT ![s] = @ + 1]
      /\ UNCHANGED <<clients, queue, wire>>
  BY Zenon DEF ReadFrame, roomVars, peerVars
<1>4. CASE AfterBroadcast(s, m)
  BY <1>3, <1>4, AfterBroadcastLets, LettingGo
<1>5. CASE /\ Goto(s, "members")
           /\ msg' = [msg EXCEPT ![s] = m]
           /\ UNCHANGED pending
  <2>1. /\ pc' = [pc EXCEPT ![s] = "members"]
        /\ sent[s] \in Nat /\ sent'[s] = sent[s] + 1 /\ msg'[s] = m
    BY <1>3, <1>5 DEF Goto, SessionInv, TypeOK
  <2>2. \A d \in Clients : Line(d)' = Line(d)
    BY <1>3 DEF Line
  <2>3. sent' \in [Clients -> Nat] /\ sent[s] <= sent'[s] /\ OthersRest(s)
    BY <1>3, <1>5, <2>1 DEF SessionInv, TypeOK, OthersRest
  <2>4. ASSUME NEW c \in Clients
        PROVE  Ahead(s, c)'
    <3> SUFFICES ASSUME NEW i \in 1..Len(Line(c)), Line(c)[i].from = s
                 PROVE  Line(c)[i].n < sent'[s]
      BY <2>2 DEF Ahead
    <3>1. Line(c)[i] \in Message /\ Line(c)[i].n <= sent[s]
      BY LineType, ElementOfSeq DEF RelayInv, LineInv, Carries
    <3>2. QED
      BY <2>1, <3>1 DEF Message
  <2>5. FiledJoined'
    <3>1. \A v \in Workspaces, b \in Actors : clients'[v][b] = clients[v][b]
      BY <1>3
    <3>2. pc'[s] # "new" /\ \A t \in Clients \ {s} : pc'[t] = pc[t]
      BY <2>1 DEF SessionInv, TypeOK
    <3>3. QED
      BY <3>1, <3>2, FiledKept DEF RelayInv
  <2>6. HandInv(s)'
    <3>1. (pc[s] \in Broadcasting => msg[s].n = sent[s])'
      BY <1>2, <2>1
    <3>2. (\A c \in pending[s] : Relay!Reaches(s, c) /\ Ahead(s, c))'
      BY <1>5, <2>4
         DEF RelayInv, HandInv, SessionInv, TypeOK, Relay!Reaches, Relay!Admitted
    <3>3. QED
      BY <2>4, <3>1, <3>2 DEF HandInv
  <2>7. QED
    BY <2>2, <2>3, <2>5, <2>6, HandlerMoves
<1>6. QED
  BY <1>1, <1>4, <1>5 DEF m

LEMMA CopyKeepsRelay ==
  ASSUME HubInv, SessionInv, ConfinedInv, RelayInv, NEW s \in Clients, CopyMembers(s)
  PROVE  RelayInv'
<1> DEFINE a    == msg[s].actor
           room == IF s \in orphan THEN NoClients ELSE clients[msg[s].ws]
           rest == Entries([room EXCEPT ![a] = NoClient])
<1>1. pc[s] = "members" /\ UNCHANGED <<clients, queue, wire, sent>>
  BY DEF CopyMembers, roomVars, peerVars
<1>2. msg[s] \in Message /\ OwnFrame(s, msg[s]) /\ Authorized(s)
  BY <1>1, SessionAssumption
     DEF SessionInv, HoldsFrame, ConfinedInv, HandlesOwn, Broadcasting
<1>3. /\ a = ActorOf[s] /\ msg[s].ws = WorkspaceOf[s]
      /\ a \in Actors /\ WorkspaceOf[s] \in Workspaces
  BY <1>2, OfType DEF OwnFrame
<1>4. CASE Return(s)
  BY <1>1, <1>4, ReturnLets, LettingGo
<1>5. CASE /\ room[a] # NoClient
           /\ pending' = [pending EXCEPT ![s] = rest]
           /\ Goto(s, "admit")
           /\ UNCHANGED msg
  <2>1. s \notin orphan
    BY <1>3, <1>5 DEF NoClients
  <2>2. room = clients[WorkspaceOf[s]] /\ room \in [Actors -> Clients \union {NoClient}]
    BY <1>3, <2>1 DEF SessionInv, TypeOK, RoomTypeOK
  <2> HIDE DEF a, room
  <2>3. ASSUME NEW c \in rest
        PROVE  c \in Clients /\ Relay!Reaches(s, c) /\ Ahead(s, c)
    <3>1. PICK b \in Actors : c = [room EXCEPT ![a] = NoClient][b] /\ c # NoClient
      BY DEF Entries
    <3>2. b # a /\ c = clients[WorkspaceOf[s]][b]
      BY <1>3, <2>2, <3>1
    <3>3. c \in Clients /\ WorkspaceOf[c] = WorkspaceOf[s] /\ ActorOf[c] = b
      BY <1>3, <2>2, <3>1, <3>2 DEF HubInv, FiledRight
    <3>4. pc[c] # "new"
      BY <1>3, <3>1, <3>2 DEF RelayInv, FiledJoined
    <3>5. Authorized(c)
      BY <3>3, <3>4 DEF ConfinedInv, HandlesOwn
    <3>6. Ahead(s, c)
      BY <1>1, <3>3 DEF RelayInv, HandInv
    <3>7. QED
      BY <1>2, <1>3, <3>2, <3>3, <3>5, <3>6
         DEF Authorized, Relay!Reaches, Relay!Admitted
  <2>4. pc' = [pc EXCEPT ![s] = "admit"] /\ pending' = [pending EXCEPT ![s] = rest]
    BY <1>5 DEF Goto
  <2> HIDE DEF rest
  <2>5. GoesOn(s, rest) /\ rest \in SUBSET Clients
    BY <1>5, <2>3, <2>4 DEF GoesOn, SessionInv, TypeOK
  <2>6. QED
    BY <1>1, <2>3, <2>5, GoingOn DEF Broadcasting
<1>6. QED
  BY <1>4, <1>5 DEF CopyMembers

LEMMA DeliverKeepsRelay ==
  ASSUME SessionInv, ConfinedInv, RelayInv, NEW s \in Clients, Deliver(s)
  PROVE  RelayInv'
<1>1. PICK c \in pending[s] : Offer(msg[s], c) /\ Continue(s, pending[s] \ {c})
  BY DEF Deliver
<1> DEFINE rest == pending[s] \ {c}
<1>2. /\ pc[s] \in Broadcasting
      /\ UNCHANGED <<clients, wire, sent>>
  BY DEF Deliver, Broadcasting, peerVars
<1>3. /\ c \in Clients /\ rest \in SUBSET Clients /\ pending[s] \subseteq Clients
      /\ \A d \in pending[s] : Relay!Reaches(s, d) /\ Ahead(s, d)
  BY DEF SessionInv, TypeOK, RelayInv, HandInv
<1>4. LetsGo(s) \/ GoesOn(s, rest)
  BY <1>1, ContinueHands
<1>5. msg[s] \in Message /\ OwnFrame(s, msg[s]) /\ msg[s].n = sent[s]
  BY <1>2, SessionAssumption
     DEF SessionInv, HoldsFrame, ConfinedInv, HandlesOwn, RelayInv, HandInv
<1> HIDE DEF rest
<1>6. CASE UNCHANGED queue
  <2>1. CASE LetsGo(s)
    BY <1>2, <1>6, <2>1, LettingGo
  <2>2. CASE GoesOn(s, rest)
    BY <1>2, <1>3, <1>6, <2>2, GoingOn DEF rest
  <2>3. QED
    BY <1>4, <2>1, <2>2
<1>7. CASE queue' = [queue EXCEPT ![c] = Append(@, msg[s])]
  <2>1. /\ Line(c)' = Append(Line(c), msg[s])
        /\ \A d \in Clients \ {c} : Line(d)' = Line(d)
    BY <1>2, <1>3, <1>5, <1>7, LineAppended
  <2>2. /\ LineInv(c)'
        /\ \A t \in Clients \ {s} : Ahead(t, c) => Ahead(t, c)'
    <3>1. msg[s].from = s /\ LineInv(c) /\ Ahead(s, c) /\ Relay!Reaches(s, c)
      BY <1>3, <1>5 DEF OwnFrame, RelayInv
    <3>2. QED
      BY <1>2, <1>3, <1>5, <2>1, <3>1, LineGrows
  <2>3. ASSUME NEW d \in Clients \ {c}
        PROVE  LineInv(d)' /\ \A t \in Clients : Ahead(t, d)' <=> Ahead(t, d)
    <3>1. LineInv(d) /\ Line(d)' = Line(d)
      BY <2>1 DEF RelayInv
    <3>2. QED
      BY <1>2, <3>1 DEF LineInv, Carries, OwnFrame, Ahead, Relay!Reaches, Relay!Admitted
  <2>4. FiledJoined'
    <3>1. \A v \in Workspaces, b \in Actors : clients'[v][b] = clients[v][b]
      BY <1>2
    <3>2. pc'[s] # "new" /\ \A t \in Clients \ {s} : pc'[t] = pc[t]
      BY <1>4 DEF LetsGo, GoesOn
    <3>3. QED
      BY <3>1, <3>2, FiledKept DEF RelayInv
  <2>5. ASSUME NEW t \in Clients \ {s}
        PROVE  HandInv(t)'
    <3>1. pc'[t] = pc[t] /\ msg'[t] = msg[t] /\ pending'[t] = pending[t]
      BY <1>4 DEF LetsGo, GoesOn
    <3>2. \A d \in Clients : Ahead(t, d) => Ahead(t, d)'
      BY <2>2, <2>3
    <3>3. QED
      BY <1>2, <3>1, <3>2, HandKept DEF RelayInv, SessionInv, TypeOK
  <2>6. HandInv(s)'
    <3>1. CASE LetsGo(s)
      BY <3>1 DEF LetsGo, HandInv, Broadcasting
    <3>2. CASE GoesOn(s, rest)
      <4>1. msg'[s].n = sent'[s] /\ pc'[s] # "members" /\ pending'[s] = rest
        BY <1>2, <1>5, <3>2 DEF GoesOn
      <4>2. \A d \in rest : Relay!Reaches(s, d) /\ Ahead(s, d)'
        BY <1>3, <2>3 DEF rest
      <4>3. QED
        BY <4>1, <4>2 DEF HandInv, Relay!Reaches, Relay!Admitted
    <3>3. QED
      BY <1>4, <3>1, <3>2
  <2>7. QED
    BY <2>2, <2>3, <2>4, <2>5, <2>6 DEF RelayInv
<1>8. QED
  BY <1>1, <1>6, <1>7 DEF Offer

LEMMA InitRelay == Init => RelayInv
<1> SUFFICES ASSUME Init
             PROVE  RelayInv
  OBVIOUS
<1>1. /\ \A c \in Clients : wire[c] = <<>> /\ queue[c] = <<>>
      /\ \A s \in Clients : pc[s] = "new" /\ pending[s] = {}
      /\ \A w \in Workspaces, a \in Actors : clients[w][a] = NoClient
  BY DEF Init, RoomInit, NoClients
<1>2. ASSUME NEW c \in Clients
      PROVE  Len(Line(c)) = 0
  <2>1. <<>> \in Seq(Message) /\ Len(<<>>) = 0
    BY EmptySeq
  <2>2. <<>> \o <<>> = <<>>
    BY <2>1, ConcatEmptySeq
  <2>3. Line(c) = <<>>
    BY <1>1, <2>2, Zenon DEF Line
  <2>4. QED
    BY <2>1, <2>3, Zenon
<1>3. \A c \in Clients : LineInv(c)
  BY <1>2 DEF LineInv
<1>4. \A s \in Clients : HandInv(s)
  BY <1>1 DEF HandInv, Broadcasting
<1>5. FiledJoined
  BY <1>1 DEF FiledJoined
<1>6. QED
  BY <1>3, <1>4, <1>5 DEF RelayInv

LEMMA NextRelay ==
  HubInv /\ SessionInv /\ ConfinedInv /\ RelayInv /\ [Next]_vars => RelayInv'
<1> SUFFICES ASSUME HubInv, SessionInv, ConfinedInv, RelayInv, [Next]_vars
             PROVE  RelayInv'
  OBVIOUS
<1>1. ASSUME NEW s \in Clients, JoinRoom(s)
      PROVE  RelayInv'
  <2>1. /\ pc' = [pc EXCEPT ![s] = "joined"]
        /\ clients' = [clients EXCEPT ![WorkspaceOf[s]][ActorOf[s]] = s]
        /\ UNCHANGED <<msg, pending, queue, wire, sent>>
    BY <1>1 DEF JoinRoom, Join, Goto, frameVars, peerVars
  <2>2. \A w \in Workspaces, a \in Actors :
          clients'[w][a] \in {clients[w][a], NoClient, s}
    BY <2>1, OfType DEF HubInv, HubType
  <2>3. QED
    BY <2>1, <2>2, MovingAside
<1>2. ASSUME NEW s \in Clients, Greet(s)
      PROVE  RelayInv'
  <2>1. UNCHANGED <<clients, queue, wire, sent>>
    BY <1>2 DEF Greet, roomVars
  <2>2. CASE Return(s)
    BY <2>1, <2>2, ReturnLets, LettingGo
  <2>3. CASE Goto(s, "reading") /\ UNCHANGED frameVars
    BY <2>1, <2>3, MovingAside DEF Goto, frameVars
  <2>4. QED
    BY <1>2, <2>2, <2>3 DEF Greet
<1>3. ASSUME NEW s \in Clients, ReadFrame(s)
      PROVE  RelayInv'
  BY <1>3, ReadKeepsRelay
<1>4. ASSUME NEW s \in Clients, ReadEnds(s)
      PROVE  RelayInv'
  BY <1>4, ReturnLets, LettingGo DEF ReadEnds, roomVars, peerVars
<1>5. ASSUME NEW s \in Clients, CopyMembers(s)
      PROVE  RelayInv'
  BY <1>5, CopyKeepsRelay
<1>6. ASSUME NEW s \in Clients, Admit(s)
      PROVE  RelayInv'
  <2>1. /\ pc[s] \in Broadcasting /\ pending[s] \in SUBSET Clients
        /\ UNCHANGED <<clients, queue, wire, sent>>
        /\ \A c \in pending[s] : Relay!Reaches(s, c) /\ Ahead(s, c)
    BY <1>6
       DEF Admit, peerVars, SessionInv, TypeOK, Broadcasting, RelayInv, HandInv
  <2>2. CASE Return(s)
    BY <2>1, <2>2, ReturnLets, LettingGo
  <2>3. CASE Continue(s, pending[s])
    BY <2>1, <2>3, ContinueHands, LettingGo, GoingOn
  <2>4. QED
    BY <1>6, <2>2, <2>3 DEF Admit
<1>7. ASSUME NEW s \in Clients, Deliver(s)
      PROVE  RelayInv'
  BY <1>7, DeliverKeepsRelay
<1>8. ASSUME NEW s \in Clients, Persist(s)
      PROVE  RelayInv'
  <2>1. LetsGo(s)
    BY <1>8 DEF Persist, Goto, Forget, LetsGo, SessionInv, TypeOK, Broadcasting
  <2>2. QED
    BY <1>8, <2>1, LettingGo DEF Persist, roomVars, peerVars
<1>9. ASSUME NEW s \in Clients, LeaveRoom(s)
      PROVE  RelayInv'
  <2>1. /\ pc' = [pc EXCEPT ![s] = "done"]
        /\ clients' = [clients EXCEPT ![WorkspaceOf[s]] =
                         [clients[WorkspaceOf[s]] EXCEPT ![ActorOf[s]] = NoClient]]
        /\ UNCHANGED <<msg, pending, queue, wire, sent>>
    BY <1>9 DEF LeaveRoom, Leave, Goto, frameVars, peerVars
  <2>2. \A w \in Workspaces, a \in Actors :
          clients'[w][a] \in {clients[w][a], NoClient, s}
    BY <2>1, OfType DEF HubInv, HubType
  <2>3. QED
    BY <2>1, <2>2, MovingAside
<1>10. ASSUME NEW s \in Clients, WriteMessage(s)
       PROVE  RelayInv'
  BY <1>10, LineWritten, HandsRest DEF WriteMessage, readerVars, frameVars
<1>11. ASSUME UNCHANGED <<clients, pc, msg, pending, sent, queue, wire>>
       PROVE  RelayInv'
  BY <1>11, HandsRest DEF Line
<1>12. ASSUME NEW s \in Clients, WriteFails(s) \/ WriterSeesEnd(s)
       PROVE  RelayInv'
  BY <1>11, <1>12
     DEF WriteFails, WriterSeesEnd, StopWriter, roomVars, readerVars, frameVars,
         peerVars
<1>13. CASE UNCHANGED vars
  BY <1>11, <1>13 DEF vars, roomVars, readerVars, frameVars, peerVars
<1>14. QED
  BY <1>1, <1>2, <1>3, <1>4, <1>5, <1>6, <1>7, <1>8, <1>9, <1>10, <1>12, <1>13
     DEF Next, Reader, Broadcast, Writer

\* The write loop's step is an arrival: the frame it takes off the buffer was read,
\* may reach this peer, and comes after all of its author's the peer already has.
LEMMA WriteIsArrival ==
  ASSUME SessionInv, RelayInv, NEW s \in Clients, WriteMessage(s)
  PROVE  Relay!Arrive(s)
<1> DEFINE v == wire[s]
           q == queue[s]
           m == Head(q)
           k == Len(v) + 1
<1>1. v \in Seq(Message) /\ q \in Seq(Message) /\ q # <<>>
  BY LineType DEF WriteMessage
<1>2. /\ wire' = [wire EXCEPT ![s] = Append(v, m)]
      /\ UNCHANGED sent
  BY DEF WriteMessage, readerVars
<1>3. m = q[1] /\ m \in Message /\ Len(q) \in Nat \ {0} /\ Len(v) \in Nat
  BY <1>1, HeadTailProperties, EmptySeq, LenProperties
<1> HIDE DEF v, q, m
<1>4. Len(v \o q) = Len(v) + Len(q) /\ k \in 1..Len(v \o q)
  BY <1>1, <1>3, ConcatProperties
<1>5. (v \o q)[k] = m
  <2>1. k \in 1..(Len(v) + Len(q)) /\ ~(k <= Len(v)) /\ k - Len(v) = 1
    BY <1>3
  <2> HIDE DEF k
  <2>2. (v \o q)[k] = q[k - Len(v)]
    BY <1>1, <2>1, ConcatProperties
  <2>3. QED
    BY <1>3, <2>1, <2>2
<1>6. Line(s) = v \o q
  BY DEF Line, v, q
<1>7. Carries(m, s)
  BY <1>4, <1>5, <1>6 DEF RelayInv, LineInv
<1>8. ASSUME NEW i \in 1..Len(v), v[i].from = m.from
      PROVE  v[i].n < m.n
  <2>1. i \in 1..Len(v \o q) /\ (v \o q)[i] = v[i]
    BY <1>1, FirstOfConcat
  <2>2. i < k
    BY <1>3
  <2> HIDE DEF k
  <2>3. Line(s)[i].from = Line(s)[k].from
    BY <1>5, <1>6, <1>8, <2>1
  <2>4. Line(s)[i].n < Line(s)[k].n
    BY <1>4, <1>6, <2>1, <2>2, <2>3 DEF RelayInv, LineInv
  <2>5. QED
    BY <1>5, <1>6, <2>1, <2>4
<1>9. /\ m.from \in Clients /\ m.kind \in Kinds /\ m.n \in Nat \ {0}
      /\ m.n <= sent[m.from] /\ sent[m.from] \in Nat
      /\ m.ws = WorkspaceOf[m.from] /\ m.actor = ActorOf[m.from]
      /\ Relay!Reaches(m.from, s)
  BY <1>3, <1>7 DEF Message, Carries, OwnFrame, SessionInv, TypeOK
<1>10. m = [from |-> m.from, n |-> m.n, ws |-> WorkspaceOf[m.from],
            actor |-> ActorOf[m.from], kind |-> m.kind]
  BY <1>3, <1>9 DEF Message
<1>11. m.n \in 1..sent[m.from]
  BY <1>9
<1>12. Relay!InOrder(m, wire[s])
  BY <1>8, <1>9 DEF Relay!InOrder, v
<1>13. wire' = [wire EXCEPT ![s] = Append(@, m)]
  BY <1>2 DEF v
<1>14. \E t \in Clients, l \in Kinds : \E n \in 1..sent[t] :
         LET x == [from |-> t, n |-> n, ws |-> WorkspaceOf[t], actor |-> ActorOf[t],
                   kind |-> l]
         IN  /\ Relay!Reaches(t, s)
             /\ Relay!InOrder(x, wire[s])
             /\ wire' = [wire EXCEPT ![s] = Append(@, x)]
  <2> m.from \in Clients /\ m.kind \in Kinds /\ m.n \in 1..sent[m.from]
    BY <1>9, <1>11
  <2> WITNESS m.from \in Clients, m.kind \in Kinds
  <2> WITNESS m.n \in 1..sent[m.from]
  <2>1. QED
    BY <1>9, <1>10, <1>12, <1>13, Zenon
<1>15. QED
  BY <1>2, <1>14, Zenon DEF Relay!Arrive

\* Every step of a handler or a write loop is a step of the relay, or none.
LEMMA StepIsRelayed ==
  ASSUME SessionInv, RelayInv, [Next]_vars
  PROVE  [Relay!Next]_(Relay!vars)
<1>1. ASSUME NEW s \in Clients, ReadFrame(s)
      PROVE  Relay!Send(s)
  BY <1>1, Zenon DEF ReadFrame, peerVars, Relay!Send
<1>2. ASSUME NEW s \in Clients, WriteMessage(s)
      PROVE  Relay!Arrive(s)
  BY <1>2, WriteIsArrival
<1>3. ASSUME NEW s \in Clients,
             \/ JoinRoom(s) \/ Greet(s) \/ ReadEnds(s) \/ Broadcast(s) \/ Persist(s)
             \/ LeaveRoom(s) \/ WriteFails(s) \/ WriterSeesEnd(s)
      PROVE  UNCHANGED <<sent, wire>>
  BY <1>3
     DEF JoinRoom, Greet, ReadEnds, Broadcast, CopyMembers, Admit, Deliver, Persist,
         LeaveRoom, WriteFails, WriterSeesEnd, StopWriter, readerVars, peerVars
<1>4. CASE UNCHANGED vars
  BY <1>4 DEF vars, readerVars, peerVars, Relay!vars
<1>5. QED
  BY <1>1, <1>2, <1>3, <1>4 DEF Next, Reader, Writer, Relay!Next, Relay!vars

\* The handlers, write loops, hub and buffers implement the lossy relay: what a peer
\* gets was sent by another actor of its workspace, both admitted, and every
\* author's frames come in the order sent, none twice, whoever joins and leaves.
THEOREM CollabImplementsRelay == Spec => RelaySpec
<1>1. Init => Relay!Init
  BY DEF Init, Relay!Init
<1>2. SessionInv /\ RelayInv /\ [Next]_vars => [Relay!Next]_(Relay!vars)
  BY StepIsRelayed
<1>3. QED
  BY InitHub, NextHub, InitSession, NextSession, InitConfined, NextConfined,
     InitRelay, NextRelay, <1>1, <1>2, PTL
     DEF Spec, RelaySpec, Relay!Spec
===============================================================================
