------------------------------ MODULE LossyRelay ------------------------------
(***************************************************************************)
(* What the collaboration relay promises a peer, without rooms, locks,     *)
(* buffers or goroutines: for every author and every other peer a channel  *)
(* that may lose frames but never reorders, repeats, invents or misroutes  *)
(* them.                                                                   *)
(***************************************************************************)
EXTENDS Integers, Sequences

CONSTANTS Clients, Actors, Workspaces, ActorOf, WorkspaceOf, Members, Kinds

VARIABLES
  sent,   \* how many frames each peer has sent
  wire    \* what has been relayed to each peer, oldest first

vars == <<sent, wire>>

Admitted(s) == <<ActorOf[s], WorkspaceOf[s]>> \in Members

\* A frame of s may reach c: both are members of the workspace they share, and an
\* actor never hears itself.
Reaches(s, c) ==
  /\ Admitted(s)
  /\ Admitted(c)
  /\ WorkspaceOf[s] = WorkspaceOf[c]
  /\ ActorOf[s] # ActorOf[c]

\* m was sent, and after every frame of its author that is already in q.
InOrder(m, q) ==
  /\ m.n <= sent[m.from]
  /\ \A i \in 1..Len(q) : q[i].from = m.from => q[i].n < m.n

Init ==
  /\ sent = [s \in Clients |-> 0]
  /\ wire = [s \in Clients |-> <<>>]

Send(s) ==
  /\ sent' = [sent EXCEPT ![s] = @ + 1]
  /\ UNCHANGED wire

Arrive(c) ==
  /\ \E s \in Clients, k \in Kinds : \E n \in 1..sent[s] :
       LET m == [from |-> s, n |-> n, ws |-> WorkspaceOf[s],
                 actor |-> ActorOf[s], kind |-> k]
       IN  /\ Reaches(s, c)
           /\ InOrder(m, wire[c])
           /\ wire' = [wire EXCEPT ![c] = Append(@, m)]
  /\ UNCHANGED sent

Next == \E s \in Clients : Send(s) \/ Arrive(s)

Spec == Init /\ [][Next]_vars
===============================================================================
