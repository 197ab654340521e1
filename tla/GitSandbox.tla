------------------------------ MODULE GitSandbox ------------------------------
(***************************************************************************)
(* The Git lessons' page: GitSandboxPage.tsx and levels.ts over the        *)
(* lessons of GitLessons. The page keeps which lessons are completed       *)
(* in component state and in IndexedDB: it reads the record when it is     *)
(* mounted, and an effect after the render writes it when a goal is met.   *)
(* Requests to IndexedDB are carried out in the order they were made.      *)
(***************************************************************************)
EXTENDS GitLessons

CONSTANT MaxVisits  \* bound: times the page is opened

ASSUME SandboxAssumption == MaxVisits \in Nat

VARIABLES
  completed, \* completedLevels
  effect,    \* the effect the last render left to run: what it saw, or NoEffect
  loading,   \* the mounting get: "asked", "read" with an answer to come, "done"
  answer,    \* what that get read
  requests,  \* the requests to IndexedDB not yet carried out, oldest first
  savedLevels,    \* the record in IndexedDB; {} when there is none
  visits,    \* times the page was opened
  spoilt     \* history: a goal was met before the record had arrived, or a
             \* request failed

page == <<completed, effect, loading, answer, requests, savedLevels, visits, spoilt>>
allVars == <<lesson, page>>

NoEffect == [due |-> FALSE]
Effect(saw, of) == [due |-> TRUE, saw |-> saw, of |-> of]

Get(visit) == [op |-> "get", visit |-> visit]
Set(value) == [op |-> "set", value |-> value]

\* The render of the state just reached leaves this effect to run.
Rendered ==
  effect' = IF (IsCompleted(level))' /\ level' \notin completed'
              THEN Effect(completed', level')
              ELSE NoEffect

PageStart ==
  /\ Init
  /\ level = 1
  /\ completed = {}
  /\ effect = NoEffect
  /\ loading = "asked"
  /\ answer = {}
  /\ savedLevels = {}
  /\ visits = 1
  /\ spoilt = FALSE

PageInit == PageStart /\ requests = <<Get(1)>>

\* selectLevel, and resetLesson for the lesson one is at. A render first runs
\* the effects of the render before it, so user input finds none due.
PickLesson(l) ==
  /\ ~effect.due
  /\ SelectLevel(l)
  /\ UNCHANGED <<completed, loading, answer, requests, savedLevels, visits, spoilt>>
  /\ Rendered

HandleCommandSubmit ==
  /\ ~effect.due
  /\ Command
  /\ UNCHANGED <<completed, loading, answer, requests, savedLevels, visits, spoilt>>
  /\ Rendered

\* Mutant: writes what its render saw, without the level just completed.
SaveSeen ==
  /\ effect.due
  /\ completed' = effect.saw \cup {effect.of}
  /\ requests' = Append(requests, Set(effect.saw))
  /\ spoilt' = (spoilt \/ loading # "done")
  /\ UNCHANGED <<lesson, loading, answer, savedLevels, visits>>
  /\ Rendered

\* The effect that saves progress works with what its render saw.
SaveProgress ==
  LET next == effect.saw \cup {effect.of}
  IN /\ effect.due
     /\ completed' = next
     /\ requests' = Append(requests, Set(next))
     /\ spoilt' = (spoilt \/ loading # "done")
     /\ UNCHANGED <<lesson, loading, answer, savedLevels, visits>>
     /\ Rendered

\* IndexedDB carries out the oldest request. The answer to a page that was left
\* meanwhile reaches nobody.
CarryOut ==
  /\ requests # <<>>
  /\ LET request == Head(requests)
     IN \/ /\ request.op = "set"
           /\ savedLevels' = request.value
           /\ UNCHANGED <<loading, answer>>
        \/ /\ request.op = "get"
           /\ IF request.visit = visits
                THEN loading' = "read" /\ answer' = savedLevels
                ELSE UNCHANGED <<loading, answer>>
           /\ UNCHANGED savedLevels
  /\ requests' = Tail(requests)
  /\ UNCHANGED <<lesson, completed, effect, visits, spoilt>>

\* Or it fails, and both callers swallow the error.
FailRequest ==
  /\ requests # <<>>
  /\ loading' = IF Head(requests) = Get(visits) THEN "done" ELSE loading
  /\ requests' = Tail(requests)
  /\ spoilt' = TRUE
  /\ UNCHANGED <<lesson, completed, effect, answer, savedLevels, visits>>

\* The mounting get resolves: a record replaces what the page has.
LoadProgress ==
  /\ loading = "read"
  /\ loading' = "done"
  /\ completed' = IF answer # {} THEN answer ELSE completed
  /\ UNCHANGED <<lesson, answer, requests, savedLevels, visits, spoilt>>
  /\ IF effect.due THEN UNCHANGED effect ELSE Rendered

\* The page is left and opened again, or reloaded, which takes the requests
\* not yet carried out with it. An effect still due never runs.
Reopen ==
  /\ visits < MaxVisits
  /\ visits' = visits + 1
  /\ SelectLevel(1)
  /\ completed' = {}
  /\ effect' = NoEffect
  /\ loading' = "asked"
  /\ requests' \in {Append(requests, Get(visits + 1)), <<Get(visits + 1)>>}
  /\ UNCHANGED <<answer, savedLevels, spoilt>>

PageNext ==
  \/ \E l \in Lessons : PickLesson(l)
  \/ HandleCommandSubmit
  \/ SaveProgress \/ CarryOut \/ FailRequest \/ LoadProgress \/ Reopen

PageSpec == PageInit /\ [][PageNext]_allVars

-------------------------------------------------------------------------------
(* Properties *)

\* Progress made once the record has been read is saved: when nothing is left to
\* do, the record says what the page says.
ProgressIsSaved ==
  loading = "done" /\ requests = <<>> /\ ~effect.due /\ ~spoilt => savedLevels = completed

===============================================================================
