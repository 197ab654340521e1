CONSTANTS
  alice = alice
  bob = bob
  s1 = s1
  s2 = s2
  s3 = s3
  s4 = s4
  carol = carol
  w1 = w1
  w2 = w2
  NoClient = NoClient
  Kinds = {"sync", "shape_update"}
  NoMessage = NoMessage
  Clients = {s1, s2, s3, s4}
  Actors <- MCActors
  Workspaces <- MCWorkspaces
  Members <- MCMembers
  ActorOf <- MCActorOf
  WorkspaceOf <- MCWorkspaceOf
  SendBuffer = 2
  MaxMessagesPerSecond = 1
  StoreFails = FALSE
  MaxFrames = 2
SPECIFICATION Spec
INVARIANT JoinerStartsFromSharedState
CHECK_DEADLOCK FALSE
