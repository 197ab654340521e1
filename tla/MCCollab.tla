------------------------------- MODULE MCCollab -------------------------------
(* Small instances of CollabSession: alice reconnects while bob edits *)
EXTENDS CollabSession, TLC

CONSTANTS alice, bob, carol, s1, s2, s3, s4, w1, w2

MCActors     == {alice, bob, carol}
MCWorkspaces == {w1, w2}
MCMembers    == {<<alice, w1>>, <<bob, w1>>}

\* s1 and s2 are two connections of alice, s3 one of bob, s4 one of carol, who is
\* not a member.
MCActorOf     == [s \in Clients |-> CASE s = s3 -> bob [] s = s4 -> carol
                                     [] OTHER -> alice]
MCWorkspaceOf == [s \in Clients |-> w1]

\* The two connections of alice are interchangeable.
MCSymmetry == Permutations({s1, s2})

\* Nothing the program does depends on the histories greeting and wire.
MCLiveView == <<roomVars, readerVars, writer, cancelled, snapshot>>
===============================================================================
