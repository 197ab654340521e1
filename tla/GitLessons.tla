------------------------------ MODULE GitLessons ------------------------------
(***************************************************************************)
(* The lessons of levels.ts over the repository of GitRepository: what     *)
(* each starts from, when it counts as completed, and any commands a user  *)
(* gives in between. Properties of the simulated repository are stated     *)
(* here, where it is a specification.                                      *)
(***************************************************************************)
EXTENDS GitRepository

CONSTANTS
  Feat, Feature, Bugfix, Hotfix,  \* the other branch names of the lessons
  TypedNames,                     \* bound: names the user gives to new branches
  Lessons,                        \* bound: lessons the user opens
  MaxCommands                     \* bound: commands given in one of them

ASSUME LessonAssumption ==
  /\ {Feat, Feature, Bugfix, Hotfix} \subseteq Names
  /\ TypedNames \subseteq BranchNames
  /\ Lessons \subseteq 1 .. 6
  /\ MaxCommits >= 3
  /\ MaxCommands \in Nat

VARIABLES
  level,  \* currentLevelIdx
  given   \* commands given since the lesson was opened

lesson == <<repo, level, given>>

Levels == 1 .. 6

Initial == Commit(<<>>, [kind |-> "initial", of |-> 1])
Work(id) == Commit(<<1>>, [kind |-> "commit", of |-> id])

\* levels.ts: the repository each lesson starts from.
LessonCommits(l) ==
  CASE l \in {1, 2} -> <<Initial>>
    [] l \in {3, 5} -> <<Initial, Work(2)>>
    [] l \in {4, 6} -> <<Initial, Work(2), Work(3)>>

LessonBranches(l) ==
  CASE l \in {1, 2} -> [b \in {Main} |-> 1]
    [] l = 3 -> [b \in {Main, Bugfix} |-> IF b = Main THEN 1 ELSE 2]
    [] l = 4 -> [b \in {Main, Feature} |-> IF b = Main THEN 2 ELSE 3]
    [] l = 5 -> [b \in {Main} |-> 2]
    [] l = 6 -> [b \in {Main, Hotfix} |-> IF b = Main THEN 2 ELSE 3]

LessonHead(l) == AtBranch(IF l = 4 THEN Feature ELSE Main)

\* The parents of a branch's commit.
ParentsOf(b) ==
  IF b \in DOMAIN branches /\ branches[b] \in DOMAIN commits
    THEN {commits[branches[b]].parents[i] : i \in DOMAIN commits[branches[b]].parents}
    ELSE {}

MessageOf(b) == commits[branches[b]].message

IsCompleted(l) ==
  CASE l = 1 -> /\ Main \in DOMAIN branches
                /\ branches[Main] = 3
                /\ Cardinality(DOMAIN commits) >= 3
    [] l = 2 -> /\ head = AtBranch(Feat)
                /\ Feat \in DOMAIN branches
                /\ Main \in DOMAIN branches => branches[Feat] # branches[Main]
    [] l = 3 -> /\ Main \in DOMAIN branches
                /\ branches[Main] = 2 \/ 2 \in ParentsOf(Main)
    [] l = 4 -> 2 \in ParentsOf(Feature)
    [] l = 5 -> /\ Main \in DOMAIN branches
                /\ MessageOf(Main).kind = "revert"
    [] l = 6 -> /\ Main \in DOMAIN branches
                /\ MessageOf(Main) = [kind |-> "commit", of |-> 3]
                /\ 2 \in ParentsOf(Main)

Init ==
  \E l \in Lessons :
    /\ commits = LessonCommits(l)
    /\ branches = LessonBranches(l)
    /\ head = LessonHead(l)
    /\ nextCommitNum = Len(LessonCommits(l)) + 1
    /\ level = l
    /\ given = 0

\* selectLevel, and resetLesson for the lesson one is at.
SelectLevel(l) ==
  /\ commits' = LessonCommits(l)
  /\ branches' = LessonBranches(l)
  /\ head' = LessonHead(l)
  /\ nextCommitNum' = Len(LessonCommits(l)) + 1
  /\ level' = l
  /\ given' = 0

\* handleCommandSubmit with a command that parses and succeeds.
Command ==
  /\ given < MaxCommands
  /\ given' = given + 1
  /\ \/ MakeCommit
     \/ \E name \in TypedNames : MakeBranch(name) \/ SwitchCreate(name)
     \/ \E target \in BranchNames :
          Switch(target) \/ Merge(target) \/ Rebase(target) \/ Reset(target)
     \/ \E id \in Ids : Revert(id) \/ CherryPick(id)
  /\ UNCHANGED level

Next == Command \/ \E l \in Lessons : SelectLevel(l)

Spec == Init /\ [][Next]_lesson

-------------------------------------------------------------------------------
(* Properties *)

\* Every variable has its type.
TypeOK ==
  /\ nextCommitNum \in 2 .. (MaxCommits + 1)
  /\ DOMAIN commits = 1 .. (nextCommitNum - 1)
  /\ \A c \in DOMAIN commits :
       commits[c] \in [parents : Seq(Ids), message : Message]
  /\ DOMAIN branches \subseteq BranchNames
  /\ head \in [detached : BOOLEAN, at : BranchNames]
  /\ level \in Levels
  /\ given \in Nat

\* No reference dangles, whatever the commands and however names are resolved:
\* parents are older commits, branches name commits, HEAD names a commit or an
\* existing branch, and main is never gone. (reduceRepository resolves typed
\* names by three different orders of look-up.)
RefsResolve ==
  /\ \A c \in DOMAIN commits :
       \A i \in DOMAIN commits[c].parents : commits[c].parents[i] \in 1 .. (c - 1)
  /\ \A b \in DOMAIN branches : branches[b] \in DOMAIN commits
  /\ head.at \in IF head.detached THEN DOMAIN commits ELSE DOMAIN branches
  /\ Main \in DOMAIN branches

\* Within a lesson history is never rewritten: a commit stays what it is, also
\* under rebase and reset, and no number is given twice.
HistoryIsImmutable ==
  [][~(\E l \in Lessons : SelectLevel(l)) =>
       /\ DOMAIN commits \subseteq DOMAIN commits'
       /\ \A c \in DOMAIN commits : commits'[c] = commits[c]
       /\ nextCommitNum' >= nextCommitNum]_lesson

Messages(c) == {commits[d].message : d \in History(commits)[c]}
Linear == \A d \in History(commits)[HeadCommit] : Len(commits[d].parents) <= 1

\* A rebase leaves HEAD on the target's history, with the work that HEAD had, in
\* a straight line from the target. Of a linear history, exactly what the target
\* lacks is copied, in its order.
RebaseKeepsWork ==
  [][nextCommitNum' > nextCommitNum => \A target \in BranchNames : Rebase(target) =>
       LET onto == Resolve(target)
           lacking == History(commits)[HeadCommit] \ History(commits)[onto]
           copies == History(commits')[HeadCommit'] \ DOMAIN commits
       IN /\ onto \in History(commits')[HeadCommit']
          /\ \A d \in copies : Len(commits'[d].parents) = 1
          /\ Messages(HeadCommit)' \subseteq Messages(HeadCommit) \cup Messages(onto)
          /\ Linear => \E old \in OldestFirst(lacking), new \in OldestFirst(copies) :
               /\ Len(old) = Len(new)
               /\ \A i \in DOMAIN old : commits'[new[i]].message = commits[old[i]].message]_lesson

\* Merging takes both sides' commits into HEAD's history, makes a commit only if
\* both sides have something, and is refused when it would change nothing.
MergeUnitesHistories ==
  [][HeadCommit' # HeadCommit => \A target \in BranchNames : Merge(target) =>
       LET ours == History(commits)[HeadCommit]
           theirs == History(commits)[Resolve(target)]
           merged == History(commits')[HeadCommit']
       IN /\ ours \cup theirs = merged \cap DOMAIN commits
          /\ ~(theirs \subseteq ours)
          /\ (commits' = commits) <=> (ours \subseteq theirs)]_lesson

===============================================================================
