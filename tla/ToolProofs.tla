-------------------------------- MODULE ToolProofs ----------------------------
(***************************************************************************)
(* The Git sandbox, the SQL assistant, the cron visualiser and the diff.   *)
(*                                                                         *)
(* For every set of branch names and however many commands and commits: no *)
(* reference of the simulated repository dangles, and no commit ever       *)
(* changes. Together with its types, RefsResolve is inductive: a command   *)
(* only ever adds the next commit, whose parents the look-ups of typed     *)
(* names have found, or moves a reference to a commit they have found.     *)
(* What merges and rebases do to histories of any shape follows from it.   *)
(* The second part is about the page's record of the levels completed.     *)
(*                                                                         *)
(* The third part: formatted SQL is read back as the tokens it was made    *)
(* from, for texts of any length. The invariant of the formatter's loop is *)
(* that between any two tokens written there is what keeps them two, and   *)
(* that space is suppressed only after a token that nothing joins; that of *)
(* the second reading, that what has been read are the first tokens.       *)
(*                                                                         *)
(* The fourth part: the occurrences listed for a cron expression are the   *)
(* next ones, for every expression, calendar and clock. What a field's     *)
(* values are is what its terms say, an instant of the calendar is a date, *)
(* and after each turn of the search its results are the first instants,   *)
(* of those already looked at, that match.                                 *)
(*                                                                         *)
(* The last part: the diff keeps as much of two documents as can be kept,  *)
(* for documents of any length. After step d of the search the furthest    *)
(* point of a diagonal is not behind, and no point reached ahead of, what  *)
(* the longest common subsequence allows with d edits; so the search ends  *)
(* at the number of edits of the whole, and the walk back through its      *)
(* trace keeps a script that is aligned with both sides. The hunks are     *)
(* built by a loop whose invariant is that every change met so far is in   *)
(* one hunk.                                                               *)
(***************************************************************************)
EXTENDS GitSandbox, SqlFormat, Cron, Diff, FiniteSetTheorems, WellFoundedInduction, TLAPS

\* The commits exist from the first to the last number, and so do the commits
\* that their parents, the branches and HEAD name.
Sound == TypeOK /\ RefsResolve

LEMMA Intervals ==
  ASSUME NEW a \in Int, NEW b \in Int, a <= b
  PROVE  1 .. a \subseteq 1 .. b
OBVIOUS

LEMMA CountersInOrder ==
  ASSUME NEW max \in Nat, NEW n \in 2 .. (max + 1), NEW m \in n .. (max + 1)
  PROVE  n - 1 \in Int /\ m - 1 \in Int /\ max \in Int /\ n - 1 <= m - 1 /\ m - 1 <= max
OBVIOUS

LEMMA ElementOfSeq ==
  ASSUME NEW S, NEW s \in Seq(S), NEW i \in DOMAIN s
  PROVE  s[i] \in S
OBVIOUS
-------------------------------------------------------------------------------
(* The parts of a state, and what a command may do to each. *)

\* Old commits stay, and the new ones are numbered on from them.
GoodCommits ==
  /\ nextCommitNum' \in nextCommitNum .. (MaxCommits + 1)
  /\ DOMAIN commits' = 1 .. (nextCommitNum' - 1)
  /\ \A c \in DOMAIN commits : commits'[c] = commits[c]
  /\ \A c \in DOMAIN commits' :
       /\ commits'[c] \in [parents : Seq(Ids), message : Message]
       /\ \A i \in DOMAIN commits'[c].parents : commits'[c].parents[i] \in 1 .. (c - 1)

\* Branches are only added and moved, and HEAD follows.
GoodReferences ==
  /\ DOMAIN branches \subseteq DOMAIN branches'
  /\ DOMAIN branches' \subseteq BranchNames
  /\ \A b \in DOMAIN branches' : branches'[b] \in DOMAIN commits'
  /\ head' \in [detached : BOOLEAN, at : BranchNames]
  /\ head'.at \in IF head'.detached THEN DOMAIN commits' ELSE DOMAIN branches'

LEMMA GoodStepIsSound ==
  ASSUME Sound, GoodCommits, GoodReferences, level' \in Levels, given' \in Nat
  PROVE  Sound'
<1>1. TypeOK'
  BY GitAssumption DEF Sound, TypeOK, GoodCommits, GoodReferences
<1>2. RefsResolve'
  BY DEF Sound, RefsResolve, GoodCommits, GoodReferences
<1>3. QED
  BY <1>1, <1>2 DEF Sound

LEMMA SameCommits ==
  ASSUME Sound, UNCHANGED <<commits, nextCommitNum>>
  PROVE  GoodCommits
BY GitAssumption DEF Sound, TypeOK, RefsResolve, GoodCommits

LEMMA CommitsGrow ==
  ASSUME Sound, GoodCommits
  PROVE  /\ DOMAIN commits \subseteq DOMAIN commits'
         /\ DOMAIN commits' \subseteq Ids
         /\ Ids \subseteq BranchNames
<1>1. /\ nextCommitNum - 1 \in Int /\ nextCommitNum' - 1 \in Int /\ MaxCommits \in Int
      /\ nextCommitNum - 1 <= nextCommitNum' - 1 /\ nextCommitNum' - 1 <= MaxCommits
  <2>1. nextCommitNum \in 2 .. (MaxCommits + 1) /\ nextCommitNum' \in nextCommitNum .. (MaxCommits + 1)
    BY DEF Sound, TypeOK, GoodCommits
  <2>2. MaxCommits \in Nat
    BY GitAssumption
  <2>3. QED
    BY <2>1, <2>2, CountersInOrder
<1>2. DOMAIN commits = 1 .. (nextCommitNum - 1) /\ DOMAIN commits' = 1 .. (nextCommitNum' - 1)
  BY DEF Sound, TypeOK, GoodCommits
<1>3. DOMAIN commits \subseteq DOMAIN commits'
  <2>1. 1 .. (nextCommitNum - 1) \subseteq 1 .. (nextCommitNum' - 1)
    BY <1>1, Intervals
  <2>2. QED
    BY <1>2, <2>1
<1>4. DOMAIN commits' \subseteq Ids
  <2>1. 1 .. (nextCommitNum' - 1) \subseteq 1 .. MaxCommits
    BY <1>1, Intervals
  <2>2. QED
    BY <1>2, <2>1 DEF Ids
<1>5. QED
  BY <1>3, <1>4 DEF BranchNames

\* HEAD always names a commit.
LEMMA HeadIsACommit ==
  ASSUME Sound
  PROVE  HeadCommit \in DOMAIN commits
BY DEF Sound, TypeOK, RefsResolve, HeadCommit

\* The look-ups find commits, or nothing.
LEMMA ResolveFindsCommits ==
  ASSUME Sound, NEW target
  PROVE  /\ Resolve(target) # 0 => Resolve(target) \in DOMAIN commits
         /\ ResolveForReset(target) # 0 => ResolveForReset(target) \in DOMAIN commits
BY DEF Sound, RefsResolve, Resolve, ResolveForReset

\* Moving HEAD to a commit that exists afterwards.
LEMMA MoveToIsGood ==
  ASSUME Sound, GoodCommits, NEW id, id \in DOMAIN commits', MoveTo(id)
  PROVE  GoodReferences
<1>1. /\ DOMAIN commits \subseteq DOMAIN commits'
      /\ DOMAIN commits' \subseteq Ids
      /\ Ids \subseteq BranchNames
  BY CommitsGrow
<1>2. CASE head.detached
  <2>1. head' = [detached |-> TRUE, at |-> id] /\ branches' = branches
    BY <1>2 DEF MoveTo, Detached
  <2>2. id \in BranchNames
    BY <1>1
  <2>3. QED
    BY <1>1, <2>1, <2>2 DEF Sound, TypeOK, RefsResolve, GoodReferences
<1>3. CASE ~head.detached
  <2>1. branches' = Put(branches, head.at, id) /\ head' = head
    BY <1>3 DEF MoveTo
  <2>2. /\ DOMAIN branches' = DOMAIN branches
        /\ \A b \in DOMAIN branches' : branches'[b] \in {branches[b], id}
    BY <2>1, <1>3 DEF Put, Sound, RefsResolve
  <2>3. QED
    BY <1>1, <1>3, <2>1, <2>2 DEF Sound, TypeOK, RefsResolve, GoodReferences
<1>4. QED
  BY <1>2, <1>3

\* A commit with existing parents, and HEAD on it.
LEMMA AddIsGood ==
  ASSUME Sound, NEW parents \in Seq(DOMAIN commits), NEW message \in Message,
         Add(parents, message)
  PROVE  GoodCommits /\ GoodReferences
<1> DEFINE n == nextCommitNum
<1>1. /\ n \in Ids /\ n' = n + 1 /\ MoveTo(n)
      /\ DOMAIN commits = 1 .. (n - 1)
      /\ commits' = Put(commits, n, Commit(parents, message))
  BY GitAssumption DEF Sound, TypeOK, Add, Ids
<1>2. /\ DOMAIN commits' = 1 .. n
      /\ commits'[n] = Commit(parents, message)
      /\ \A c \in 1 .. (n - 1) : commits'[c] = commits[c]
  BY <1>1, GitAssumption DEF Put, Ids
<1>3. /\ Commit(parents, message) \in [parents : Seq(Ids), message : Message]
      /\ \A i \in DOMAIN parents : parents[i] \in 1 .. (n - 1)
  <2>1. DOMAIN commits \subseteq Ids
    BY <1>1, GitAssumption DEF Ids
  <2>2. parents \in Seq(Ids)
    BY <2>1
  <2>3. \A i \in DOMAIN parents : parents[i] \in 1 .. (n - 1)
    <3>1. parents \in Seq(1 .. (n - 1))
      BY <1>1
    <3>2. ASSUME NEW i \in DOMAIN parents PROVE parents[i] \in 1 .. (n - 1)
      <4> DEFINE Before == 1 .. (n - 1)
      <4> HIDE DEF Before
      <4>1. parents \in Seq(Before)
        BY <3>1 DEF Before
      <4>2. parents[i] \in Before
        BY <4>1, ElementOfSeq
      <4>3. QED
        BY <4>2 DEF Before
    <3>3. QED
      BY <3>2
  <2>4. QED
    BY <2>2, <2>3 DEF Commit
<1>4. GoodCommits
  <2>1. ASSUME NEW c \in 1 .. n
        PROVE  /\ commits'[c] \in [parents : Seq(Ids), message : Message]
               /\ \A i \in DOMAIN commits'[c].parents : commits'[c].parents[i] \in 1 .. (c - 1)
    <3>1. CASE c = n
      BY <1>2, <1>3, <3>1 DEF Commit
    <3>2. CASE c # n
      <4>1. c \in 1 .. (n - 1)
        BY <1>1, <3>2 DEF Ids
      <4>2. QED
        BY <1>1, <1>2, <4>1 DEF Sound, TypeOK, RefsResolve
    <3>3. QED
      BY <3>1, <3>2
  <2>2. n' \in n .. (MaxCommits + 1) /\ n' - 1 = n
    BY <1>1, GitAssumption DEF Ids
  <2>3. QED
    BY <1>1, <1>2, <2>1, <2>2 DEF GoodCommits
<1>5. n \in DOMAIN commits'
  BY <1>1, <1>2 DEF Ids
<1>6. QED
  BY <1>1, <1>4, <1>5, MoveToIsGood
-------------------------------------------------------------------------------
(* One lemma per command. *)

LEMMA MakeCommitIsGood ==
  ASSUME Sound, MakeCommit
  PROVE  GoodCommits /\ GoodReferences
<1>1. <<HeadCommit>> \in Seq(DOMAIN commits)
  BY HeadIsACommit
<1>2. [kind |-> "commit", of |-> nextCommitNum] \in Message
  BY GitAssumption DEF MakeCommit, Add, Sound, TypeOK, Message, Ids
<1>3. QED
  BY <1>1, <1>2, AddIsGood DEF MakeCommit

LEMMA NewBranchIsGood ==
  ASSUME Sound, NEW name \in BranchNames, MakeBranch(name) \/ SwitchCreate(name)
  PROVE  GoodCommits /\ GoodReferences
<1>1. branches' = Put(branches, name, HeadCommit) /\ UNCHANGED <<commits, nextCommitNum>>
  BY DEF MakeBranch, SwitchCreate
<1>2. GoodCommits
  BY <1>1, SameCommits
<1>3. /\ DOMAIN branches' = DOMAIN branches \cup {name}
      /\ \A b \in DOMAIN branches' : branches'[b] \in DOMAIN commits
  BY <1>1, HeadIsACommit DEF Put, Sound, RefsResolve
<1>4. head' = head \/ head' = AtBranch(name)
  BY DEF MakeBranch, SwitchCreate
<1>5. GoodReferences
  <2>1. /\ head' \in [detached : BOOLEAN, at : BranchNames]
        /\ head'.at \in IF head'.detached THEN DOMAIN commits' ELSE DOMAIN branches'
    <3>1. CASE head' = head
      BY <1>1, <1>3, <3>1 DEF Sound, TypeOK, RefsResolve
    <3>2. CASE head' = AtBranch(name)
      BY <1>3, <3>2 DEF AtBranch
    <3>3. QED
      BY <1>4, <3>1, <3>2
  <2>2. QED
    BY <1>1, <1>3, <2>1 DEF Sound, TypeOK, GoodReferences
<1>6. QED
  BY <1>2, <1>5

LEMMA SwitchIsGood ==
  ASSUME Sound, NEW target \in BranchNames, Switch(target)
  PROVE  GoodCommits /\ GoodReferences
<1>1. GoodCommits
  BY SameCommits DEF Switch
<1>2. target \notin DOMAIN branches => target \in DOMAIN commits
  BY DEF Switch, Resolve
<1>3. GoodReferences
  BY <1>2 DEF Switch, Sound, TypeOK, RefsResolve, GoodReferences, AtBranch, Detached
<1>4. QED
  BY <1>1, <1>3

LEMMA ResetIsGood ==
  ASSUME Sound, NEW target, Reset(target)
  PROVE  GoodCommits /\ GoodReferences
<1>1. GoodCommits
  BY SameCommits DEF Reset
<1>2. ResolveForReset(target) \in DOMAIN commits'
  BY ResolveFindsCommits DEF Reset
<1>3. QED
  BY <1>1, <1>2, MoveToIsGood DEF Reset

LEMMA MergeIsGood ==
  ASSUME Sound, NEW target, Merge(target)
  PROVE  GoodCommits /\ GoodReferences
<1> DEFINE theirs == Resolve(target)
<1>1. theirs \in DOMAIN commits
  BY ResolveFindsCommits DEF Merge
<1>2. CASE MoveTo(theirs) /\ UNCHANGED <<commits, nextCommitNum>>
  BY <1>1, <1>2, SameCommits, MoveToIsGood
<1>3. CASE Add(<<HeadCommit, theirs>>, [kind |-> "merge", of |-> nextCommitNum])
  <2>1. <<HeadCommit, theirs>> \in Seq(DOMAIN commits)
    BY <1>1, HeadIsACommit
  <2>2. [kind |-> "merge", of |-> nextCommitNum] \in Message
    BY <1>3, GitAssumption DEF Add, Sound, TypeOK, Message, Ids
  <2>3. QED
    BY <1>3, <2>1, <2>2, AddIsGood
<1>4. QED
  BY <1>2, <1>3 DEF Merge

\* The replayed commits are a line of copies from the target on.
LEMMA RebaseIsGood ==
  ASSUME Sound, NEW target, Rebase(target)
  PROVE  GoodCommits /\ GoodReferences
<1> DEFINE theirs == Resolve(target)
           work == Replayed(theirs)
           size == Cardinality(work)
           n == nextCommitNum
<1>1. theirs \in DOMAIN commits
  BY ResolveFindsCommits DEF Rebase
<1>2. size \in Nat \ {0}
  <2>1. n - 1 \in Int /\ DOMAIN commits = 1 .. (n - 1)
    BY GitAssumption DEF Sound, TypeOK
  <2>2. IsFiniteSet(DOMAIN commits)
    BY <2>1, FS_Interval
  <2>3. work \subseteq DOMAIN commits /\ work # {}
    BY DEF Replayed, Rebase
  <2>4. IsFiniteSet(work)
    BY <2>2, <2>3, FS_Subset
  <2>5. QED
    BY <2>3, <2>4, FS_CardinalityType, FS_EmptySet
<1> HIDE DEF size, work, theirs
<1>3. /\ n \in 2 .. (MaxCommits + 1) /\ n + size - 1 \in n .. MaxCommits
      /\ n' = n + size
      /\ DOMAIN commits = 1 .. (n - 1)
      /\ MoveTo(n + size - 1)
  BY <1>2, GitAssumption DEF Rebase, Sound, TypeOK, size, work, theirs
<1>4. PICK old \in OldestFirst(work) :
        commits' = [c \in DOMAIN commits \cup n .. (n + size - 1) |->
          IF c < n THEN commits[c]
          ELSE Commit(<<IF c = n THEN theirs ELSE c - 1>>,
                      commits[old[c - n + 1]].message)]
  BY DEF Rebase, size, work, theirs
<1>5. DOMAIN commits' = 1 .. (n + size - 1)
  BY <1>2, <1>3, <1>4, GitAssumption
<1>6. \A c \in DOMAIN commits : commits'[c] = commits[c]
  BY <1>3, <1>4, GitAssumption
<1>7. ASSUME NEW c \in n .. (n + size - 1)
      PROVE  /\ commits'[c] \in [parents : Seq(Ids), message : Message]
             /\ \A i \in DOMAIN commits'[c].parents : commits'[c].parents[i] \in 1 .. (c - 1)
  <2> DEFINE parent == IF c = n THEN theirs ELSE c - 1
  <2>1. commits'[c] = Commit(<<parent>>, commits[old[c - n + 1]].message)
    BY <1>3, <1>4, GitAssumption
  <2>2. parent \in 1 .. (c - 1) /\ parent \in Ids
    BY <1>1, <1>2, <1>3, GitAssumption DEF Ids
  <2>3. old[c - n + 1] \in DOMAIN commits
    <3>1. old \in [1 .. size -> work]
      BY DEF OldestFirst, size
    <3>2. c - n + 1 \in 1 .. size
      BY <1>2, <1>3, GitAssumption
    <3>3. old[c - n + 1] \in work
      BY <3>1, <3>2
    <3>4. QED
      BY <3>3 DEF work, Replayed
  <2>4. commits[old[c - n + 1]].message \in Message
    BY <2>3 DEF Sound, TypeOK
  <2> HIDE DEF parent
  <2>5. <<parent>> \in Seq(Ids)
    BY <2>2
  <2>6. QED
    BY <2>1, <2>2, <2>4, <2>5 DEF Commit
<1>8. GoodCommits
  <2>1. ASSUME NEW c \in DOMAIN commits'
        PROVE  /\ commits'[c] \in [parents : Seq(Ids), message : Message]
               /\ \A i \in DOMAIN commits'[c].parents : commits'[c].parents[i] \in 1 .. (c - 1)
    <3>1. CASE c \in DOMAIN commits
      BY <1>6, <3>1 DEF Sound, TypeOK, RefsResolve
    <3>2. CASE c \notin DOMAIN commits
      <4>1. c \in n .. (n + size - 1)
        BY <1>2, <1>3, <1>5, <3>2, GitAssumption
      <4>2. QED
        BY <4>1, <1>7
    <3>3. QED
      BY <3>1, <3>2
  <2>2. /\ n' \in n .. (MaxCommits + 1)
        /\ DOMAIN commits' = 1 .. (n' - 1)
    BY <1>2, <1>3, <1>5, GitAssumption
  <2>3. QED
    BY <2>1, <2>2, <1>6 DEF GoodCommits
<1>9. n + size - 1 \in DOMAIN commits'
  BY <1>2, <1>3, <1>5, GitAssumption
<1>10. QED
  BY <1>3, <1>8, <1>9, MoveToIsGood

LEMMA CopyIsGood ==
  ASSUME Sound, NEW id, Revert(id) \/ CherryPick(id)
  PROVE  GoodCommits /\ GoodReferences
<1>1. <<HeadCommit>> \in Seq(DOMAIN commits)
  BY HeadIsACommit
<1>2. CASE Revert(id)
  <2>1. [kind |-> "revert", of |-> nextCommitNum] \in Message
    BY <1>2, GitAssumption DEF Revert, Add, Sound, TypeOK, Message, Ids
  <2>2. QED
    BY <1>1, <1>2, <2>1, AddIsGood DEF Revert
<1>3. CASE CherryPick(id)
  <2>1. commits[id].message \in Message
    BY <1>3 DEF CherryPick, Sound, TypeOK
  <2>2. QED
    BY <1>1, <1>3, <2>1, AddIsGood DEF CherryPick
<1>4. QED
  BY <1>2, <1>3

LEMMA CommandIsGood ==
  ASSUME Sound, Command
  PROVE  GoodCommits /\ GoodReferences
<1>1. CASE MakeCommit
  BY <1>1, MakeCommitIsGood
<1>2. ASSUME NEW name \in TypedNames, MakeBranch(name) \/ SwitchCreate(name)
      PROVE  GoodCommits /\ GoodReferences
  BY <1>2, LessonAssumption, NewBranchIsGood
<1>3. ASSUME NEW target \in BranchNames,
             Switch(target) \/ Merge(target) \/ Rebase(target) \/ Reset(target)
      PROVE  GoodCommits /\ GoodReferences
  BY <1>3, SwitchIsGood, MergeIsGood, RebaseIsGood, ResetIsGood
<1>4. ASSUME NEW id \in Ids, Revert(id) \/ CherryPick(id)
      PROVE  GoodCommits /\ GoodReferences
  BY <1>4, CopyIsGood
<1>5. QED
  BY <1>1, <1>2, <1>3, <1>4 DEF Command
-------------------------------------------------------------------------------
(* The lessons' repositories *)

\* What each lesson starts from is sound.
LEMMA LessonIsSound ==
  ASSUME NEW l \in Lessons
  PROVE  LET cs == LessonCommits(l)
             bs == LessonBranches(l)
             h == LessonHead(l)
         IN /\ l \in Levels
            /\ Len(cs) \in 1 .. 3
            /\ DOMAIN cs = 1 .. Len(cs)
            /\ \A c \in DOMAIN cs :
                 /\ cs[c] \in [parents : Seq(Ids), message : Message]
                 /\ \A i \in DOMAIN cs[c].parents : cs[c].parents[i] \in 1 .. (c - 1)
            /\ DOMAIN bs \subseteq BranchNames
            /\ \A b \in DOMAIN bs : bs[b] \in DOMAIN cs
            /\ h \in [detached : BOOLEAN, at : BranchNames]
            /\ h.at \in IF h.detached THEN DOMAIN cs ELSE DOMAIN bs
            /\ Main \in DOMAIN bs
<1> DEFINE cs == LessonCommits(l)
           bs == LessonBranches(l)
           h == LessonHead(l)
<1>1. l \in 1 .. 6
  BY LessonAssumption
<1>2. /\ {1, 2, 3} \subseteq Ids
      /\ {Main, Feat, Feature, Bugfix, Hotfix} \subseteq BranchNames
  BY LessonAssumption, GitAssumption DEF Ids, BranchNames
<1>3. /\ Initial \in [parents : Seq(Ids), message : Message]
      /\ DOMAIN Initial.parents = {}
      /\ \A id \in {2, 3} :
           /\ Work(id) \in [parents : Seq(Ids), message : Message]
           /\ DOMAIN Work(id).parents = {1}
           /\ Work(id).parents[1] = 1
  BY <1>2 DEF Initial, Work, Commit, Message
<1>4. \/ cs = <<Initial>> /\ l \in {1, 2}
      \/ cs = <<Initial, Work(2)>> /\ l \in {3, 5}
      \/ cs = <<Initial, Work(2), Work(3)>> /\ l \in {4, 6}
  BY <1>1 DEF LessonCommits
<1>5. /\ Len(cs) \in 1 .. 3
      /\ DOMAIN cs = 1 .. Len(cs)
      /\ \A c \in DOMAIN cs : cs[c] = IF c = 1 THEN Initial ELSE Work(c)
  BY <1>4
<1>6. \A c \in DOMAIN cs :
        /\ cs[c] \in [parents : Seq(Ids), message : Message]
        /\ \A i \in DOMAIN cs[c].parents : cs[c].parents[i] \in 1 .. (c - 1)
  <2> HIDE DEF cs
  <2>1. ASSUME NEW c \in DOMAIN cs
        PROVE  /\ cs[c] \in [parents : Seq(Ids), message : Message]
               /\ \A i \in DOMAIN cs[c].parents : cs[c].parents[i] \in 1 .. (c - 1)
    <3>1. CASE c = 1
      BY <1>3, <1>5, <3>1
    <3>2. CASE c # 1
      <4>1. c \in {2, 3} /\ cs[c] = Work(c)
        BY <1>5, <3>2
      <4>2. QED
        BY <1>3, <4>1
    <3>3. QED
      BY <3>1, <3>2
  <2>2. QED
    BY <2>1
<1>7. /\ DOMAIN bs \subseteq {Main, Bugfix, Feature, Hotfix}
      /\ Main \in DOMAIN bs
      /\ l = 4 => Feature \in DOMAIN bs
      /\ \A b \in DOMAIN bs : bs[b] \in 1 .. Len(cs)
  <2> HIDE DEF cs
  <2>1. CASE l \in {1, 2}
    BY <1>5, <2>1 DEF LessonBranches
  <2>2. CASE l = 3
    <3>1. bs = [b \in {Main, Bugfix} |-> IF b = Main THEN 1 ELSE 2] /\ Len(cs) = 2
      BY <1>4, <2>2 DEF LessonBranches
    <3>2. QED
      BY <2>2, <3>1
  <2>3. CASE l = 4
    <3>1. bs = [b \in {Main, Feature} |-> IF b = Main THEN 2 ELSE 3] /\ Len(cs) = 3
      BY <1>4, <2>3 DEF LessonBranches
    <3>2. QED
      BY <2>3, <3>1
  <2>4. CASE l = 5
    <3>1. bs = [b \in {Main} |-> 2] /\ Len(cs) = 2
      BY <1>4, <2>4 DEF LessonBranches
    <3>2. QED
      BY <2>4, <3>1
  <2>5. CASE l = 6
    <3>1. bs = [b \in {Main, Hotfix} |-> IF b = Main THEN 2 ELSE 3] /\ Len(cs) = 3
      BY <1>4, <2>5 DEF LessonBranches
    <3>2. QED
      BY <2>5, <3>1
  <2>6. QED
    BY <1>1, <2>1, <2>2, <2>3, <2>4, <2>5
<1>8. /\ h \in [detached : BOOLEAN, at : BranchNames]
      /\ h.at \in IF h.detached THEN DOMAIN cs ELSE DOMAIN bs
  BY <1>2, <1>7 DEF LessonHead, AtBranch
<1>9. QED
  BY <1>1, <1>2, <1>5, <1>6, <1>7, <1>8 DEF Levels

\* So is any state that consists of it.
LEMMA LessonStateIsSound ==
  ASSUME NEW l \in Lessons,
         commits = LessonCommits(l), branches = LessonBranches(l), head = LessonHead(l),
         nextCommitNum = Len(LessonCommits(l)) + 1, level = l, given = 0
  PROVE  Sound
<1> DEFINE cs == LessonCommits(l)
           bs == LessonBranches(l)
           h == LessonHead(l)
<1>1. /\ commits = cs /\ branches = bs /\ head = h /\ nextCommitNum = Len(cs) + 1
      /\ level = l /\ given = 0
  OBVIOUS
<1>2. /\ l \in Levels
      /\ Len(cs) \in 1 .. 3
      /\ DOMAIN cs = 1 .. Len(cs)
      /\ \A c \in DOMAIN cs :
           /\ cs[c] \in [parents : Seq(Ids), message : Message]
           /\ \A i \in DOMAIN cs[c].parents : cs[c].parents[i] \in 1 .. (c - 1)
      /\ DOMAIN bs \subseteq BranchNames
      /\ \A b \in DOMAIN bs : bs[b] \in DOMAIN cs
      /\ h \in [detached : BOOLEAN, at : BranchNames]
      /\ h.at \in IF h.detached THEN DOMAIN cs ELSE DOMAIN bs
      /\ Main \in DOMAIN bs
  BY LessonIsSound
<1> HIDE DEF cs, bs, h
<1>3. nextCommitNum \in 2 .. (MaxCommits + 1) /\ Len(cs) = nextCommitNum - 1
  <2>1. PICK size \in 1 .. 3 : size = Len(cs)
    BY <1>2
  <2>2. nextCommitNum = size + 1
    BY <1>1, <2>1
  <2>3. MaxCommits \in Nat /\ MaxCommits >= 3
    BY LessonAssumption, GitAssumption
  <2>4. nextCommitNum \in 2 .. (MaxCommits + 1) /\ size = nextCommitNum - 1
    BY <2>2, <2>3
  <2>5. QED
    BY <2>1, <2>4
<1>4. TypeOK
  BY <1>1, <1>2, <1>3 DEF TypeOK
<1>5. RefsResolve
  BY <1>1, <1>2 DEF RefsResolve
<1>6. QED
  BY <1>4, <1>5 DEF Sound

LEMMA InitIsSound ==
  ASSUME Init
  PROVE  Sound
BY LessonStateIsSound DEF Init

LEMMA SelectLevelIsSound ==
  ASSUME NEW l \in Lessons, SelectLevel(l)
  PROVE  Sound'
<1> DEFINE cs == LessonCommits(l)
           bs == LessonBranches(l)
           h == LessonHead(l)
<1>1. /\ commits' = cs /\ branches' = bs /\ head' = h /\ nextCommitNum' = Len(cs) + 1
      /\ level' = l /\ given' = 0
  BY DEF SelectLevel
<1>2. /\ l \in Levels
      /\ Len(cs) \in 1 .. 3
      /\ DOMAIN cs = 1 .. Len(cs)
      /\ \A c \in DOMAIN cs :
           /\ cs[c] \in [parents : Seq(Ids), message : Message]
           /\ \A i \in DOMAIN cs[c].parents : cs[c].parents[i] \in 1 .. (c - 1)
      /\ DOMAIN bs \subseteq BranchNames
      /\ \A b \in DOMAIN bs : bs[b] \in DOMAIN cs
      /\ h \in [detached : BOOLEAN, at : BranchNames]
      /\ h.at \in IF h.detached THEN DOMAIN cs ELSE DOMAIN bs
      /\ Main \in DOMAIN bs
  BY LessonIsSound
<1> HIDE DEF cs, bs, h
<1>3. nextCommitNum' \in 2 .. (MaxCommits + 1) /\ Len(cs) = nextCommitNum' - 1
  <2>1. PICK size \in 1 .. 3 : size = Len(cs)
    BY <1>2
  <2>2. nextCommitNum' = size + 1
    BY <1>1, <2>1
  <2>3. MaxCommits \in Nat /\ MaxCommits >= 3
    BY LessonAssumption, GitAssumption
  <2>4. nextCommitNum' \in 2 .. (MaxCommits + 1) /\ size = nextCommitNum' - 1
    BY <2>2, <2>3
  <2>5. QED
    BY <2>1, <2>4
<1>4. TypeOK'
  BY <1>1, <1>2, <1>3 DEF TypeOK
<1>5. RefsResolve'
  BY <1>1, <1>2 DEF RefsResolve
<1>6. QED
  BY <1>4, <1>5 DEF Sound

LEMMA CommandIsSound ==
  ASSUME Sound, Command
  PROVE  Sound'
<1>1. level' \in Levels /\ given' \in Nat
  BY DEF Command, Sound, TypeOK
<1>2. QED
  BY <1>1, CommandIsGood, GoodStepIsSound
-------------------------------------------------------------------------------
(* The theorems *)

\* The strengthening: well typed, and nothing dangles.
THEOREM GitSound == Spec => []Sound
<1>1. Init => Sound
  BY InitIsSound
<1>2. Sound /\ [Next]_lesson => Sound'
  <2>1. ASSUME Sound, Next
        PROVE  Sound'
    BY <2>1, CommandIsSound, SelectLevelIsSound DEF Next
  <2>2. ASSUME Sound, UNCHANGED lesson
        PROVE  Sound'
    BY <2>2 DEF lesson, repo, Sound, TypeOK, RefsResolve
  <2>3. QED
    BY <2>1, <2>2
<1>3. QED
  BY <1>1, <1>2, PTL DEF Spec

\* RefsResolve: whatever the commands of reduceRepository, in whatever order and
\* with whatever targets, no parent, branch or HEAD names a commit that is not
\* there.
THEOREM GitRefsResolve == Spec => []RefsResolve
<1>1. Sound => RefsResolve
  BY DEF Sound
<1>2. QED
  BY <1>1, GitSound, PTL

\* HistoryIsImmutable: commits stay what they are within a lesson, also when a
\* rebase or reset moves the branch that led to them.
THEOREM GitHistoryIsImmutable == Spec => HistoryIsImmutable
<1>1. ASSUME Sound, [Next]_lesson
      PROVE  [~(\E l \in Lessons : SelectLevel(l)) =>
                /\ DOMAIN commits \subseteq DOMAIN commits'
                /\ \A c \in DOMAIN commits : commits'[c] = commits[c]
                /\ nextCommitNum' >= nextCommitNum]_lesson
  <2>1. CASE Command
    <3>1. GoodCommits
      BY <1>1, <2>1, CommandIsGood
    <3>2. nextCommitNum \in Int /\ nextCommitNum' \in nextCommitNum .. (MaxCommits + 1)
      BY <1>1, <3>1, GitAssumption DEF Sound, TypeOK, GoodCommits
    <3>3. DOMAIN commits \subseteq DOMAIN commits'
      BY <1>1, <3>1, CommitsGrow
    <3>4. QED
      BY <3>1, <3>2, <3>3, GitAssumption DEF GoodCommits
  <2>2. CASE \E l \in Lessons : SelectLevel(l)
    BY <2>2
  <2>3. CASE UNCHANGED lesson
    BY <2>3
  <2>4. QED
    BY <1>1, <2>1, <2>2, <2>3 DEF Next
<1>2. QED
  BY <1>1, GitSound, PTL DEF Spec, HistoryIsImmutable
-------------------------------------------------------------------------------
(* Histories: what is reachable from a commit. *)

\* In place of an induction: the least number for which something fails.
LEMMA LeastNumber ==
  ASSUME NEW T \in SUBSET Nat, T # {}
  PROVE  \E x \in T : \A y \in T : x <= y
<1>1. IsWellFoundedOn(OpToRel(<, Nat), Nat)
  BY NatLessThanWellFounded
<1>2. PICK x \in T : \A y \in T : <<y, x>> \notin OpToRel(<, Nat)
  BY <1>1, WFMin
<1>3. \A y \in T : ~(y < x)
  BY <1>2 DEF OpToRel
<1>4. x \in Nat /\ \A y \in T : y \in Nat
  OBVIOUS
<1>5. \A y \in T : x <= y
  BY <1>3, <1>4
<1>6. QED
  BY <1>5

\* What is reachable from each number along edges to smaller ones: the least sets
\* closed under the edges are what a definition by recursion asks for.
LEMMA ReachableExists ==
  ASSUME NEW m \in Nat, NEW older, \A c \in 1 .. m : older[c] \subseteq 1 .. (c - 1)
  PROVE  \E g \in [1 .. m -> SUBSET (1 .. m)] :
           \A c \in 1 .. m : g[c] = {c} \cup UNION {g[p] : p \in older[c]}
<1> DEFINE D == 1 .. m
           Closed == {S \in SUBSET D : \A c \in S : older[c] \subseteq S}
           Reach(c) == {d \in D : \A S \in Closed : c \in S => d \in S}
           f == [c \in D |-> Reach(c)]
<1>1. \A c \in D : older[c] \subseteq D
  OBVIOUS
<1>2. \A c \in D : Reach(c) = {c} \cup UNION {Reach(p) : p \in older[c]}
  <2> HIDE DEF D
  <2> SUFFICES ASSUME NEW c \in D PROVE Reach(c) = {c} \cup UNION {Reach(p) : p \in older[c]}
    OBVIOUS
  <2> DEFINE R == {c} \cup UNION {Reach(p) : p \in older[c]}
  <2>1. R \subseteq Reach(c)
    <3>1. c \in Reach(c)
      OBVIOUS
    <3>2. ASSUME NEW p \in older[c], NEW d \in Reach(p) PROVE d \in Reach(c)
      OBVIOUS
    <3>3. QED
      BY <3>1, <3>2
  <2>2. R \in SUBSET D
    OBVIOUS
  <2>3. ASSUME NEW d \in R, NEW q \in older[d] PROVE q \in R
    <3>1. q \in D
      BY <1>1, <2>2
    <3>2. CASE d = c
      <4>1. q \in Reach(q)
        BY <3>1
      <4>2. QED
        BY <3>2, <4>1
    <3>3. ASSUME NEW p \in older[c], d \in Reach(p) PROVE q \in R
      <4>1. q \in Reach(p)
        BY <3>1, <3>3
      <4>2. QED
        BY <4>1
    <3>4. QED
      BY <3>2, <3>3
  <2>4. R \in Closed
    BY <2>2, <2>3
  <2>5. Reach(c) \subseteq R
    BY <2>4
  <2>6. QED
    BY <2>1, <2>5
<1>3. \A c \in D : f[c] = {c} \cup UNION {f[p] : p \in older[c]}
  <2> HIDE DEF D, Reach
  <2>1. \A c \in D : UNION {f[p] : p \in older[c]} = UNION {Reach(p) : p \in older[c]}
    BY <1>1
  <2>2. QED
    BY <1>2, <2>1
<1>4. f \in [D -> SUBSET D]
  OBVIOUS
<1> HIDE DEF f
<1>5. QED
  BY <1>3, <1>4

\* The parents of c that a walk through cs visits.
ParentNumbers(cs, c) == {cs[c].parents[i] : i \in DOMAIN cs[c].parents} \cap 1 .. (c - 1)

\* So History is what its definition says.
LEMMA HistoryUnfolds ==
  ASSUME NEW cs, NEW m \in Nat, DOMAIN cs = 1 .. m
  PROVE  History(cs) = [c \in 1 .. m |->
           {c} \cup UNION {History(cs)[p] : p \in ParentNumbers(cs, c)}]
<1> DEFINE Eq(g) == g = [c \in 1 .. m |-> {c} \cup UNION {g[p] : p \in ParentNumbers(cs, c)}]
           older == [c \in 1 .. m |-> ParentNumbers(cs, c)]
<1>1. PICK g \in [1 .. m -> SUBSET (1 .. m)] :
        \A c \in 1 .. m : g[c] = {c} \cup UNION {g[p] : p \in older[c]}
  <2>1. \A c \in 1 .. m : older[c] \subseteq 1 .. (c - 1)
    BY DEF ParentNumbers
  <2> HIDE DEF older
  <2>2. QED
    BY <2>1, ReachableExists
<1>2. Eq(g)
  <2>1. \A c \in 1 .. m : older[c] = ParentNumbers(cs, c)
    OBVIOUS
  <2> HIDE DEF older
  <2>2. QED
    BY <1>1, <2>1
<1>3. History(cs) = CHOOSE h : Eq(h)
  BY DEF History, ParentNumbers
<1> HIDE DEF Eq
<1>4. Eq(History(cs))
  BY <1>2, <1>3
<1>5. QED
  BY <1>4 DEF Eq

\* A history is made of the commit and older ones, and holds theirs.
LEMMA HistoryFacts ==
  ASSUME NEW cs, NEW m \in Nat, DOMAIN cs = 1 .. m
  PROVE  \A c \in 1 .. m :
           /\ c \in History(cs)[c]
           /\ History(cs)[c] \subseteq 1 .. c
           /\ \A d \in History(cs)[c] : History(cs)[d] \subseteq History(cs)[c]
<1> DEFINE H == History(cs)
           Older(c) == ParentNumbers(cs, c)
           Good(c) == /\ H[c] \subseteq 1 .. c
                      /\ \A d \in H[c] : H[d] \subseteq H[c]
<1>1. \A c \in 1 .. m : H[c] = {c} \cup UNION {H[p] : p \in Older(c)}
  BY HistoryUnfolds
<1>2. \A c \in 1 .. m : \A p \in Older(c) : p \in 1 .. m /\ p < c
  BY DEF ParentNumbers
<1>3. ASSUME NEW c \in 1 .. m, \A p \in 1 .. m : p < c => Good(p)
      PROVE  Good(c)
  <2> HIDE DEF H, Older
  <2>1. ASSUME NEW d \in H[c], d # c
        PROVE  \E p \in Older(c) : d \in H[p]
    BY <1>1, <2>1
  <2>2. H[c] \subseteq 1 .. c
    <3>1. ASSUME NEW p \in Older(c) PROVE H[p] \subseteq 1 .. c
      <4>1. H[p] \subseteq 1 .. p /\ p < c /\ p \in 1 .. m
        BY <1>2, <1>3
      <4>2. QED
        BY <4>1
    <3>2. QED
      BY <2>1, <3>1
  <2>3. ASSUME NEW d \in H[c] PROVE H[d] \subseteq H[c]
    <3>1. CASE d = c
      BY <3>1
    <3>2. CASE d # c
      <4>1. PICK p \in Older(c) : d \in H[p]
        BY <2>1, <3>2
      <4>2. H[d] \subseteq H[p]
        BY <1>2, <1>3, <4>1
      <4>3. H[p] \subseteq H[c]
        BY <1>1
      <4>4. QED
        BY <4>2, <4>3
    <3>3. QED
      BY <3>1, <3>2
  <2>4. QED
    BY <2>2, <2>3
<1>4. \A c \in 1 .. m : Good(c)
  <2> HIDE DEF Good
  <2> DEFINE Bad == {c \in 1 .. m : ~Good(c)}
  <2>1. SUFFICES ASSUME Bad # {} PROVE FALSE
    OBVIOUS
  <2>2. PICK c \in Bad : \A d \in Bad : c <= d
    <3>1. Bad \in SUBSET Nat
      OBVIOUS
    <3>2. QED
      BY <2>1, <3>1, LeastNumber
  <2>3. \A p \in 1 .. m : p < c => Good(p)
    BY <2>2
  <2>4. QED
    BY <1>3, <2>2, <2>3
<1>5. \A c \in 1 .. m : c \in H[c]
  BY <1>1
<1>6. QED
  BY <1>4, <1>5

\* What was committed keeps its history when commits are added.
LEMMA HistoryKept ==
  ASSUME NEW cs, NEW m \in Nat, DOMAIN cs = 1 .. m,
         NEW ds, NEW n \in Nat, DOMAIN ds = 1 .. n,
         m <= n, \A c \in 1 .. m : ds[c] = cs[c]
  PROVE  \A c \in 1 .. m : History(ds)[c] = History(cs)[c]
<1> DEFINE H == History(cs)
           K == History(ds)
<1>1. /\ \A c \in 1 .. m : H[c] = {c} \cup UNION {H[p] : p \in ParentNumbers(cs, c)}
      /\ \A c \in 1 .. n : K[c] = {c} \cup UNION {K[p] : p \in ParentNumbers(ds, c)}
  BY HistoryUnfolds
<1>2. \A c \in 1 .. m : /\ c \in 1 .. n
                        /\ ParentNumbers(ds, c) = ParentNumbers(cs, c)
                        /\ \A p \in ParentNumbers(cs, c) : p \in 1 .. m /\ p < c
  BY DEF ParentNumbers
<1> DEFINE Bad == {c \in 1 .. m : K[c] # H[c]}
<1>3. SUFFICES ASSUME Bad # {} PROVE FALSE
  OBVIOUS
<1>4. PICK c \in Bad : \A d \in Bad : c <= d
  <2>1. Bad \in SUBSET Nat
    OBVIOUS
  <2>2. QED
    BY <1>3, <2>1, LeastNumber
<1> HIDE DEF H, K
<1>5. \A p \in ParentNumbers(cs, c) : K[p] = H[p]
  BY <1>2, <1>4
<1>6. UNION {K[p] : p \in ParentNumbers(ds, c)} = UNION {H[p] : p \in ParentNumbers(cs, c)}
  BY <1>2, <1>4, <1>5
<1>7. QED
  BY <1>1, <1>2, <1>4, <1>6
-------------------------------------------------------------------------------
(* Merging. *)

LEMMA SoundNumbers ==
  ASSUME Sound
  PROVE  /\ nextCommitNum - 1 \in Nat /\ DOMAIN commits = 1 .. (nextCommitNum - 1)
         /\ HeadCommit \in 1 .. (nextCommitNum - 1)
BY GitAssumption, HeadIsACommit DEF Sound, TypeOK

\* Where HEAD is after it, or its branch, was moved.
LEMMA HeadMoves ==
  ASSUME Sound, NEW id, MoveTo(id)
  PROVE  HeadCommit' = id
BY DEF MoveTo, HeadCommit, Detached, Put, Sound, TypeOK, RefsResolve

\* A merge of either kind makes HEAD's history what the two sides had.
LEMMA MergeUnites ==
  ASSUME Sound, NEW target, Merge(target)
  PROVE  LET ours == History(commits)[HeadCommit]
             theirs == History(commits)[Resolve(target)]
             merged == History(commits')[HeadCommit']
         IN /\ ours \cup theirs = merged \cap DOMAIN commits
            /\ ~(theirs \subseteq ours)
            /\ (commits' = commits) <=> (ours \subseteq theirs)
<1> DEFINE m == nextCommitNum - 1
           here == HeadCommit
           there == Resolve(target)
           H == History(commits)
           K == History(commits')
<1>1. m \in Nat /\ DOMAIN commits = 1 .. m /\ here \in 1 .. m
  BY SoundNumbers
<1>2. there \in 1 .. m /\ there # here
  BY <1>1, ResolveFindsCommits DEF Merge
<1>3. \A c \in 1 .. m : /\ c \in H[c] /\ H[c] \subseteq 1 .. c
                        /\ \A d \in H[c] : H[d] \subseteq H[c]
  BY <1>1, HistoryFacts
<1>4. H[here] \subseteq 1 .. m /\ H[there] \subseteq 1 .. m
  <2>1. ASSUME NEW c \in 1 .. m PROVE 1 .. c \subseteq 1 .. m
    BY <1>1
  <2>2. QED
    BY <1>1, <1>2, <1>3, <2>1
<1>5. CASE here \in H[there] /\ MoveTo(there) /\ UNCHANGED <<commits, nextCommitNum>>
  <2>1. HeadCommit' = there /\ K = H
    BY <1>5, HeadMoves
  <2>2. H[here] \subseteq H[there]
    BY <1>2, <1>3, <1>5
  <2>3. there \notin H[here]
    <3>1. SUFFICES ASSUME there \in H[here] PROVE FALSE
      OBVIOUS
    <3>2. there \in 1 .. here /\ here \in 1 .. there
      BY <1>1, <1>2, <1>3, <1>5, <3>1
    <3>3. QED
      BY <1>1, <1>2, <3>2
  <2>4. there \in H[there]
    BY <1>2, <1>3
  <2> HIDE DEF H, K, here, there, m
  <2>5. /\ H[here] \cup H[there] = K[HeadCommit'] \cap DOMAIN commits
        /\ ~(H[there] \subseteq H[here])
        /\ commits' = commits /\ H[here] \subseteq H[there]
    BY <1>1, <1>4, <1>5, <2>1, <2>2, <2>3, <2>4
  <2>6. QED
    BY <2>5 DEF H, K, here, there
<1>6. CASE /\ here \notin H[there] /\ there \notin H[here]
           /\ Add(<<here, there>>, [kind |-> "merge", of |-> nextCommitNum])
  <2> DEFINE n == m + 1
  <2>1. /\ n = nextCommitNum
        /\ commits' = Put(commits, n, Commit(<<here, there>>, [kind |-> "merge", of |-> n]))
        /\ HeadCommit' = n
    <3>1. n = nextCommitNum
      BY GitAssumption DEF Sound, TypeOK
    <3>2. QED
      BY <1>6, <3>1, HeadMoves DEF Add
  <2>2. DOMAIN commits' = 1 .. n /\ n \in Nat /\ m <= n /\ n \notin 1 .. m /\ n \in 1 .. n
    BY <1>1, <2>1 DEF Put
  <2>3. \A c \in 1 .. m : commits'[c] = commits[c]
    BY <1>1, <2>1, <2>2 DEF Put
  <2>4. \A c \in 1 .. m : K[c] = H[c]
    BY <1>1, <2>2, <2>3, HistoryKept
  <2>5. ParentNumbers(commits', n) = {here, there}
    <3>1. commits'[n].parents = <<here, there>>
      BY <2>1, <2>2 DEF Put, Commit
    <3>2. here \in 1 .. (n - 1) /\ there \in 1 .. (n - 1)
      BY <1>1, <1>2
    <3>3. DOMAIN <<here, there>> = {1, 2}
      OBVIOUS
    <3>4. QED
      BY <3>1, <3>2, <3>3 DEF ParentNumbers
  <2>6. K[n] = {n} \cup UNION {K[p] : p \in ParentNumbers(commits', n)}
    BY <2>2, HistoryUnfolds
  <2>7. K[n] = {n} \cup H[here] \cup H[there]
    <3> HIDE DEF H, K, here, there, m, n
    <3>1. K[here] = H[here] /\ K[there] = H[there]
      BY <1>1, <1>2, <2>4
    <3>2. QED
      BY <2>5, <2>6, <3>1
  <2>8. here \in H[here] /\ there \in H[there]
    BY <1>1, <1>2, <1>3
  <2>9. commits' # commits
    BY <1>1, <2>2
  <2> HIDE DEF H, K, here, there, m, n
  <2>10. /\ H[here] \cup H[there] = K[HeadCommit'] \cap DOMAIN commits
         /\ ~(H[there] \subseteq H[here])
         /\ commits' # commits /\ ~(H[here] \subseteq H[there])
    BY <1>1, <1>4, <1>6, <2>1, <2>2, <2>7, <2>8, <2>9
  <2>11. QED
    BY <2>10 DEF H, K, here, there
<1>7. QED
  BY <1>5, <1>6 DEF Merge, IsAncestor

\* MergeUnitesHistories: of any history, however often it forked and was merged;
\* isAncestor in reducer.ts walks it in the same way as the property does.
THEOREM GitMergeUnitesHistories == Spec => MergeUnitesHistories
<1> DEFINE A == HeadCommit' # HeadCommit => \A target \in BranchNames : Merge(target) =>
                  LET ours == History(commits)[HeadCommit]
                      theirs == History(commits)[Resolve(target)]
                      merged == History(commits')[HeadCommit']
                  IN /\ ours \cup theirs = merged \cap DOMAIN commits
                     /\ ~(theirs \subseteq ours)
                     /\ (commits' = commits) <=> (ours \subseteq theirs)
<1>1. Sound => A
  BY MergeUnites
<1>2. QED
  BY <1>1, GitSound, PTL DEF MergeUnitesHistories
-------------------------------------------------------------------------------
(* What a rebase replays. *)

\* The commit before c along first parents, if it has one.
FirstParent(cs, c) ==
  IF Len(cs[c].parents) > 0 /\ cs[c].parents[1] \in 1 .. (c - 1) THEN {cs[c].parents[1]} ELSE {}

\* And so is FirstParents.
LEMMA FirstParentsUnfold ==
  ASSUME NEW cs, NEW m \in Nat, DOMAIN cs = 1 .. m
  PROVE  FirstParents(cs) = [c \in 1 .. m |->
           {c} \cup UNION {FirstParents(cs)[p] : p \in FirstParent(cs, c)}]
<1> DEFINE Code(g, c) == {c} \cup IF Len(cs[c].parents) > 0 /\ cs[c].parents[1] \in 1 .. (c - 1)
                                    THEN g[cs[c].parents[1]] ELSE {}
           Eq(g) == g = [c \in 1 .. m |-> Code(g, c)]
           older == [c \in 1 .. m |-> FirstParent(cs, c)]
<1>1. ASSUME NEW g PROVE \A c \in 1 .. m : Code(g, c) = {c} \cup UNION {g[p] : p \in older[c]}
  BY DEF FirstParent
<1>2. PICK g \in [1 .. m -> SUBSET (1 .. m)] :
        \A c \in 1 .. m : g[c] = {c} \cup UNION {g[p] : p \in older[c]}
  <2>1. \A c \in 1 .. m : older[c] \subseteq 1 .. (c - 1)
    BY DEF FirstParent
  <2> HIDE DEF older
  <2>2. QED
    BY <2>1, ReachableExists
<1>3. Eq(g)
  <2> HIDE DEF older, Code
  <2>1. \A c \in 1 .. m : Code(g, c) = {c} \cup UNION {g[p] : p \in older[c]}
    BY <1>1
  <2>2. QED
    BY <1>2, <2>1
<1>4. FirstParents(cs) = CHOOSE h : Eq(h)
  BY DEF FirstParents
<1>5. Eq(FirstParents(cs))
  <2> HIDE DEF Eq
  <2>1. QED
    BY <1>3, <1>4
<1> DEFINE F == FirstParents(cs)
<1>6. F = [c \in 1 .. m |-> Code(F, c)]
  BY <1>5
<1>7. \A c \in 1 .. m : older[c] = FirstParent(cs, c)
  OBVIOUS
<1> HIDE DEF F, Code, older
<1>8. \A c \in 1 .. m : Code(F, c) = {c} \cup UNION {F[p] : p \in older[c]}
  BY <1>1
<1>9. F = [c \in 1 .. m |-> {c} \cup UNION {F[p] : p \in FirstParent(cs, c)}]
  BY <1>6, <1>7, <1>8
<1>10. QED
  BY <1>9 DEF F

\* First parents are parents; they are all there is where nothing was merged.
LEMMA FirstParentsFacts ==
  ASSUME NEW cs, NEW m \in Nat, DOMAIN cs = 1 .. m, NEW S,
         \A c \in 1 .. m : cs[c].parents \in Seq(S)
  PROVE  \A c \in 1 .. m :
           /\ FirstParents(cs)[c] \subseteq History(cs)[c]
           /\ (\A d \in History(cs)[c] : Len(cs[d].parents) <= 1)
                => FirstParents(cs)[c] = History(cs)[c]
<1> DEFINE H == History(cs)
           F == FirstParents(cs)
           All(c) == ParentNumbers(cs, c)
           One(c) == FirstParent(cs, c)
           Linear1(c) == \A d \in H[c] : Len(cs[d].parents) <= 1
           Good(c) == F[c] \subseteq H[c] /\ (Linear1(c) => F[c] = H[c])
<1>1. \A c \in 1 .. m : /\ H[c] = {c} \cup UNION {H[p] : p \in All(c)}
                        /\ F[c] = {c} \cup UNION {F[p] : p \in One(c)}
  BY HistoryUnfolds, FirstParentsUnfold
<1>2. ASSUME NEW c \in 1 .. m
      PROVE  /\ \A p \in All(c) : p \in 1 .. m /\ p < c
             /\ One(c) \subseteq All(c)
             /\ Len(cs[c].parents) <= 1 => One(c) = All(c)
  <2>1. PICK q \in Seq(S) : q = cs[c].parents
    OBVIOUS
  <2>2. DOMAIN q = 1 .. Len(q) /\ Len(q) \in Nat
    BY <2>1
  <2>3. Len(q) > 0 => 1 \in DOMAIN q
    BY <2>2
  <2>4. Len(q) <= 1 => \A i \in DOMAIN q : i = 1 /\ Len(q) > 0
    BY <2>2
  <2>5. \A p \in All(c) : p \in 1 .. m /\ p < c
    BY DEF ParentNumbers
  <2>6. One(c) \subseteq All(c)
    BY <2>1, <2>3 DEF ParentNumbers, FirstParent
  <2>7. Len(q) <= 1 => All(c) \subseteq One(c)
    BY <2>1, <2>4 DEF ParentNumbers, FirstParent
  <2>8. QED
    BY <2>1, <2>5, <2>6, <2>7
<1>3. ASSUME NEW c \in 1 .. m, \A p \in 1 .. m : p < c => Good(p)
      PROVE  Good(c)
  <2> HIDE DEF H, F, All, One
  <2>1. F[c] \subseteq H[c]
    <3>1. ASSUME NEW p \in One(c) PROVE p \in All(c) /\ F[p] \subseteq H[p]
      BY <1>2, <1>3
    <3>2. QED
      BY <1>1, <3>1
  <2>2. ASSUME Linear1(c) PROVE F[c] = H[c]
    <3>1. c \in H[c]
      BY <1>1
    <3>2. One(c) = All(c)
      BY <1>2, <2>2, <3>1
    <3>3. ASSUME NEW p \in All(c) PROVE F[p] = H[p]
      <4>1. H[p] \subseteq H[c]
        BY <1>1
      <4>2. Linear1(p)
        BY <2>2, <4>1
      <4>3. Good(p)
        BY <1>2, <1>3
      <4> HIDE DEF Linear1
      <4>4. QED
        BY <4>2, <4>3
    <3>4. UNION {F[p] : p \in One(c)} = UNION {H[p] : p \in All(c)}
      BY <3>2, <3>3
    <3>5. QED
      BY <1>1, <3>4
  <2>3. QED
    BY <2>1, <2>2
<1>4. \A c \in 1 .. m : Good(c)
  <2> HIDE DEF Good
  <2> DEFINE Bad == {c \in 1 .. m : ~Good(c)}
  <2>1. SUFFICES ASSUME Bad # {} PROVE FALSE
    OBVIOUS
  <2>2. PICK c \in Bad : \A d \in Bad : c <= d
    <3>1. Bad \in SUBSET Nat
      OBVIOUS
    <3>2. QED
      BY <2>1, <3>1, LeastNumber
  <2>3. \A p \in 1 .. m : p < c => Good(p)
    BY <2>2
  <2>4. QED
    BY <1>3, <2>2, <2>3
<1>5. QED
  BY <1>4

\* The commits from m + 1 to n are a line that starts from t.
LineFrom(ds, t, m, n) ==
  \A c \in (m + 1) .. n : ParentNumbers(ds, c) = {IF c = m + 1 THEN t ELSE c - 1}

\* A line of new commits has the history of the commit it starts from.
LEMMA LineHistory ==
  ASSUME NEW cs, NEW m \in Nat, DOMAIN cs = 1 .. m,
         NEW ds, NEW n \in Nat, DOMAIN ds = 1 .. n,
         m <= n, \A c \in 1 .. m : ds[c] = cs[c],
         NEW t \in 1 .. m,
         LineFrom(ds, t, m, n)
  PROVE  \A c \in (m + 1) .. n :
           History(ds)[c] = ((m + 1) .. c) \cup History(cs)[t]
<1> DEFINE H == History(cs)
           K == History(ds)
           Good(c) == K[c] = ((m + 1) .. c) \cup H[t]
<1>1. \A c \in 1 .. n : K[c] = {c} \cup UNION {K[p] : p \in ParentNumbers(ds, c)}
  BY HistoryUnfolds
<1>2. K[t] = H[t]
  BY HistoryKept
<1>3. /\ \A c \in (m + 1) .. n : c \in 1 .. n
      /\ \A c \in (m + 1) .. n : ParentNumbers(ds, c) = {IF c = m + 1 THEN t ELSE c - 1}
  BY DEF LineFrom
<1>4. ASSUME NEW c \in (m + 1) .. n, \A p \in (m + 1) .. n : p < c => Good(p)
      PROVE  Good(c)
  <2> HIDE DEF H, K
  <2>1. CASE c = m + 1
    <3>1. K[c] = {c} \cup K[t]
      BY <1>1, <1>3, <2>1
    <3>2. (m + 1) .. c = {c}
      BY <2>1
    <3>3. QED
      BY <1>2, <3>1, <3>2
  <2>2. CASE c # m + 1
    <3>1. K[c] = {c} \cup K[c - 1]
      BY <1>1, <1>3, <2>2
    <3>2. c - 1 \in (m + 1) .. n /\ c - 1 < c
      BY <2>2
    <3>3. K[c - 1] = ((m + 1) .. (c - 1)) \cup H[t]
      BY <1>4, <3>2
    <3>4. (m + 1) .. c = {c} \cup ((m + 1) .. (c - 1))
      OBVIOUS
    <3>5. QED
      BY <3>1, <3>3, <3>4
  <2>3. QED
    BY <2>1, <2>2
<1>5. \A c \in (m + 1) .. n : Good(c)
  <2> HIDE DEF Good
  <2> DEFINE Bad == {c \in (m + 1) .. n : ~Good(c)}
  <2>1. SUFFICES ASSUME Bad # {} PROVE FALSE
    OBVIOUS
  <2>2. PICK c \in Bad : \A d \in Bad : c <= d
    <3>1. Bad \in SUBSET Nat
      OBVIOUS
    <3>2. QED
      BY <2>1, <3>1, LeastNumber
  <2>3. \A p \in (m + 1) .. n : p < c => Good(p)
    BY <2>2
  <2>4. QED
    BY <1>4, <2>2, <2>3
<1>6. QED
  BY <1>5

\* The old commits that are to be copied, numbered in order, and the copies.
LEMMA OldestFirstTypes ==
  ASSUME NEW W, NEW old \in OldestFirst(W), Cardinality(W) \in Nat
  PROVE  /\ Len(old) = Cardinality(W) /\ DOMAIN old = 1 .. Cardinality(W)
         /\ \A i \in 1 .. Cardinality(W) : old[i] \in W
<1>1. old \in [1 .. Cardinality(W) -> W]
  BY DEF OldestFirst
<1>2. old \in Seq(W) /\ DOMAIN old = 1 .. Cardinality(W)
  BY <1>1
<1>3. QED
  BY <1>1, <1>2

LEMMA IntervalOldestFirst ==
  ASSUME NEW n \in Nat, NEW size \in Nat, size # 0
  PROVE  /\ Cardinality(n .. (n + size - 1)) = size
         /\ [i \in 1 .. size |-> n + i - 1] \in OldestFirst(n .. (n + size - 1))
<1>1. Cardinality(n .. (n + size - 1)) = size
  <2>1. n <= n + size - 1 /\ (n + size - 1) - n + 1 = size /\ n + size - 1 \in Int /\ n \in Int
    OBVIOUS
  <2>2. QED
    BY <2>1, FS_Interval
<1> DEFINE s == [i \in 1 .. size |-> n + i - 1]
<1>2. s \in [1 .. size -> n .. (n + size - 1)]
  OBVIOUS
<1>3. \A i, j \in DOMAIN s : i < j => s[i] < s[j]
  OBVIOUS
<1>4. QED
  BY <1>1, <1>2, <1>3 DEF OldestFirst

\* A rebase, with the commits it copies and the copies it makes.
LEMMA RebaseKeeps ==
  ASSUME Sound, NEW target, Rebase(target)
  PROVE  LET onto == Resolve(target)
             lacking == History(commits)[HeadCommit] \ History(commits)[onto]
             copies == History(commits')[HeadCommit'] \ DOMAIN commits
         IN /\ onto \in History(commits')[HeadCommit']
            /\ \A d \in copies : Len(commits'[d].parents) = 1
            /\ Messages(HeadCommit)' \subseteq Messages(HeadCommit) \cup Messages(onto)
            /\ Linear => \E old \in OldestFirst(lacking), new \in OldestFirst(copies) :
                 /\ Len(old) = Len(new)
                 /\ \A i \in DOMAIN old : commits'[new[i]].message = commits[old[i]].message
<1> DEFINE onto == Resolve(target)
           work == Replayed(onto)
           size == Cardinality(work)
           n == nextCommitNum
           m == n - 1
           top == n + size - 1
           here == HeadCommit
           H == History(commits)
           K == History(commits')
           copies == K[HeadCommit'] \ DOMAIN commits
<1>1. m \in Nat /\ DOMAIN commits = 1 .. m /\ here \in 1 .. m /\ n \in Nat /\ m + 1 = n
  BY SoundNumbers, GitAssumption DEF Sound, TypeOK
<1>2. onto \in 1 .. m
  BY <1>1, ResolveFindsCommits DEF Rebase
<1>3. size \in Nat /\ size # 0
  <2>1. IsFiniteSet(1 .. m)
    BY <1>1, FS_Interval
  <2>2. work \subseteq 1 .. m /\ work # {}
    BY <1>1 DEF Replayed, Rebase
  <2>3. IsFiniteSet(work)
    BY <2>1, <2>2, FS_Subset
  <2>4. QED
    BY <2>2, <2>3, FS_CardinalityType, FS_EmptySet
<1>4. HeadCommit' = top
  BY HeadMoves DEF Rebase
<1>5. PICK old \in OldestFirst(work) :
        commits' = [c \in DOMAIN commits \cup n .. top |->
          IF c < n THEN commits[c]
          ELSE Commit(<<IF c = n THEN onto ELSE c - 1>>, commits[old[c - n + 1]].message)]
  BY DEF Rebase
<1>6. /\ Len(old) = size /\ DOMAIN old = 1 .. size
      /\ \A i \in 1 .. size : old[i] \in work
  <2> HIDE DEF work
  <2>1. QED
    BY <1>3, OldestFirstTypes
<1> HIDE DEF size, work, onto, here
<1>7. /\ DOMAIN commits' = 1 .. top /\ top \in Nat /\ m <= top
      /\ \A c \in 1 .. m : commits'[c] = commits[c]
  BY <1>1, <1>3, <1>5
<1>8. \A c \in n .. top :
        /\ commits'[c].parents = <<IF c = n THEN onto ELSE c - 1>>
        /\ commits'[c].message = commits[old[c - n + 1]].message
        /\ c - n + 1 \in 1 .. size
  <2> SUFFICES ASSUME NEW c \in n .. top
               PROVE  /\ commits'[c].parents = <<IF c = n THEN onto ELSE c - 1>>
                      /\ commits'[c].message = commits[old[c - n + 1]].message
                      /\ c - n + 1 \in 1 .. size
    OBVIOUS
  <2>1. c - n + 1 \in 1 .. size /\ ~(c < n)
    BY <1>1, <1>3
  <2>2. commits'[c] = Commit(<<IF c = n THEN onto ELSE c - 1>>, commits[old[c - n + 1]].message)
    BY <1>5, <2>1
  <2>3. QED
    BY <2>1, <2>2 DEF Commit
<1>9. K[top] = (n .. top) \cup H[onto]
  <2>1. ASSUME NEW c \in (m + 1) .. top
        PROVE  ParentNumbers(commits', c) = {IF c = m + 1 THEN onto ELSE c - 1}
    <3> DEFINE p == IF c = n THEN onto ELSE c - 1
    <3>1. c \in n .. top /\ p \in 1 .. (c - 1)
      BY <1>1, <1>2
    <3> HIDE DEF p, top
    <3>2. commits'[c].parents = <<p>>
      BY <1>8, <3>1 DEF p
    <3>3. ParentNumbers(commits', c) = {p}
      BY <3>1, <3>2 DEF ParentNumbers
    <3>4. QED
      BY <1>1, <3>3 DEF p
  <2>2. \A c \in (m + 1) .. top : K[c] = ((m + 1) .. c) \cup H[onto]
    <3>1. LineFrom(commits', onto, m, top)
      BY <2>1 DEF LineFrom
    <3> HIDE DEF m, top
    <3>2. QED
      BY <1>1, <1>2, <1>7, <3>1, LineHistory
  <2>3. top \in (m + 1) .. top
    BY <1>1, <1>3
  <2> HIDE DEF K, H
  <2>4. QED
    BY <1>1, <2>2, <2>3
<1>10. /\ onto \in H[onto] /\ H[onto] \subseteq 1 .. m /\ H[here] \subseteq 1 .. m
       /\ \A c \in 1 .. m : FirstParents(commits)[c] \subseteq H[c]
       /\ (\A d \in H[here] : Len(commits[d].parents) <= 1)
            => FirstParents(commits)[here] = H[here]
  <2>1. \A c \in 1 .. m : c \in H[c] /\ H[c] \subseteq 1 .. c
    BY <1>1, HistoryFacts
  <2>2. \A c \in 1 .. m : 1 .. c \subseteq 1 .. m
    BY <1>1
  <2>3. \A c \in 1 .. m : commits[c].parents \in Seq(Ids)
    BY <1>1 DEF Sound, TypeOK
  <2>4. \A c \in 1 .. m :
          /\ FirstParents(commits)[c] \subseteq H[c]
          /\ (\A d \in H[c] : Len(commits[d].parents) <= 1) => FirstParents(commits)[c] = H[c]
    BY <1>1, <2>3, FirstParentsFacts
  <2> HIDE DEF H
  <2>5. QED
    BY <1>1, <1>2, <2>1, <2>2, <2>4
<1> HIDE DEF K
<1>11. copies = n .. top
  <2>1. \A c \in n .. top : c \notin 1 .. m
    BY <1>1
  <2> HIDE DEF H, top, m
  <2>2. QED
    BY <1>1, <1>4, <1>9, <1>10, <2>1
<1>12. \A d \in copies : Len(commits'[d].parents) = 1
  <2> SUFFICES ASSUME NEW d \in copies PROVE Len(commits'[d].parents) = 1
    OBVIOUS
  <2> HIDE DEF copies, top
  <2>1. d \in n .. top
    BY <1>11
  <2>2. PICK p : commits'[d].parents = <<p>>
    BY <1>8, <2>1
  <2>3. QED
    BY <2>2
<1>13. work = FirstParents(commits)[here] \ H[onto]
  <2>1. FirstParents(commits)[here] \subseteq 1 .. m
    BY <1>1, <1>10
  <2>2. work = {c \in 1 .. m : c \in FirstParents(commits)[here] /\ c \notin H[onto]}
    BY <1>1 DEF work, here, Replayed
  <2>3. QED
    BY <2>1, <2>2
<1>14. Messages(HeadCommit)' \subseteq Messages(here) \cup Messages(onto)
  <2>1. Messages(HeadCommit)' = {commits'[d].message : d \in K[top]}
    BY <1>4 DEF Messages, K
  <2>2. /\ Messages(here) = {commits[d].message : d \in H[here]}
        /\ Messages(onto) = {commits[d].message : d \in H[onto]}
    BY DEF Messages
  <2>3. ASSUME NEW d \in n .. top
        PROVE  commits'[d].message \in Messages(here)
    <3>1. old[d - n + 1] \in work
      BY <1>6, <1>8
    <3>2. old[d - n + 1] \in H[here]
      BY <1>1, <1>10, <1>13, <3>1
    <3> HIDE DEF H
    <3>3. QED
      BY <1>8, <2>2, <3>2
  <2>4. ASSUME NEW d \in H[onto]
        PROVE  commits'[d].message \in Messages(onto)
    <3> HIDE DEF H, m
    <3>1. QED
      BY <1>7, <1>10, <2>2
  <2> HIDE DEF H, top
  <2>5. QED
    BY <1>9, <2>1, <2>3, <2>4
<1>15. ASSUME Linear
       PROVE  \E was \in OldestFirst(H[here] \ H[onto]), new \in OldestFirst(copies) :
                /\ Len(was) = Len(new)
                /\ \A i \in DOMAIN was : commits'[new[i]].message = commits[was[i]].message
  <2>1. work = H[here] \ H[onto]
    <3>1. \A d \in H[here] : Len(commits[d].parents) <= 1
      BY <1>15 DEF Linear, here
    <3> HIDE DEF H
    <3>2. QED
      BY <1>10, <1>13, <3>1
  <2> DEFINE new == [i \in 1 .. size |-> n + i - 1]
  <2>2. /\ Cardinality(n .. top) = size /\ new \in OldestFirst(n .. top)
    BY <1>1, <1>3, IntervalOldestFirst
  <2>3. Len(new) = size
    BY <1>3
  <2>4. ASSUME NEW i \in 1 .. size
        PROVE  commits'[new[i]].message = commits[old[i]].message
    <3>1. new[i] \in n .. top /\ new[i] - n + 1 = i
      BY <1>1, <1>3
    <3> HIDE DEF new, top
    <3>2. QED
      BY <1>8, <3>1
  <2>5. old \in OldestFirst(H[here] \ H[onto]) /\ new \in OldestFirst(copies)
    BY <1>11, <2>1, <2>2
  <2> HIDE DEF new, copies, H
  <2>6. QED
    BY <1>6, <2>3, <2>4, <2>5
<1>16. onto \in K[HeadCommit']
  BY <1>4, <1>9, <1>10
<1>17. QED
  BY <1>12, <1>14, <1>15, <1>16 DEF K, H, onto, here, copies

\* RebaseKeepsWork: of any number of commits; of a history with merges what is
\* stated of every rebase, since the code replays first parents only.
THEOREM GitRebaseKeepsWork == Spec => RebaseKeepsWork
<1> DEFINE A == nextCommitNum' > nextCommitNum => \A target \in BranchNames : Rebase(target) =>
       LET onto == Resolve(target)
           lacking == History(commits)[HeadCommit] \ History(commits)[onto]
           copies == History(commits')[HeadCommit'] \ DOMAIN commits
       IN /\ onto \in History(commits')[HeadCommit']
          /\ \A d \in copies : Len(commits'[d].parents) = 1
          /\ Messages(HeadCommit)' \subseteq Messages(HeadCommit) \cup Messages(onto)
          /\ Linear => \E old \in OldestFirst(lacking), new \in OldestFirst(copies) :
               /\ Len(old) = Len(new)
               /\ \A i \in DOMAIN old : commits'[new[i]].message = commits[old[i]].message
<1>1. Sound => A
  BY RebaseKeeps
<1>2. QED
  BY <1>1, GitSound, PTL DEF RebaseKeepsWork
-------------------------------------------------------------------------------
(***************************************************************************)
(* For any number of visits, levels and pending requests: progress made    *)
(* once the record has been read is saved. The strengthening follows the   *)
(* mounting get through the queue of requests: until it is answered there  *)
(* is no progress and nothing is written behind it; afterwards the last    *)
(* write still to come, or else the record, is what the page shows.        *)
(***************************************************************************)

Gets == {Get(v) : v \in Nat}
Sets == {Set(x) : x \in SUBSET Levels}

SandboxTypes ==
  /\ completed \subseteq Levels /\ answer \subseteq Levels /\ savedLevels \subseteq Levels
  /\ level \in Levels
  /\ effect.due => effect.saw \subseteq Levels /\ effect.of \in Levels
  /\ requests \in Seq(Gets \cup Sets)
  /\ visits \in Nat
  /\ loading \in {"asked", "read", "done"}

\* Every request but the last is a write or the get of an earlier visit; the last
\* is this visit's get.
Asked ==
  /\ completed = {}
  /\ Len(requests) > 0
  /\ requests[Len(requests)] = Get(visits)
  /\ \A i \in 1 .. (Len(requests) - 1) :
       requests[i].op = "get" => requests[i].visit < visits

Read == completed = {} /\ requests = <<>> /\ answer = savedLevels

\* What the record will be once all writes have been carried out is what the page
\* has.
Done ==
  /\ \A i \in DOMAIN requests : requests[i].op = "set"
  /\ requests = <<>> => savedLevels = completed
  /\ Len(requests) > 0 => requests[Len(requests)].value = completed

Follows ==
  ~spoilt => /\ loading = "asked" => Asked
             /\ loading = "read" => Read
             /\ loading = "done" => Done

SandboxInv == SandboxTypes /\ Follows
-------------------------------------------------------------------------------
(* Sequences of requests *)

LEMMA RequestKinds ==
  /\ \A r \in Gets : r.op = "get" /\ r.visit \in Nat /\ r = Get(r.visit)
  /\ \A r \in Sets : r.op = "set" /\ r.value \subseteq Levels
  /\ \A v \in Nat : Get(v) \in Gets
  /\ \A x \in SUBSET Levels : Set(x) \in Sets /\ Set(x).op = "set" /\ Set(x).value = x
BY DEF Gets, Sets, Get, Set

LEMMA TailOfSeq ==
  ASSUME NEW S, NEW s \in Seq(S), s # <<>>
  PROVE  /\ Tail(s) \in Seq(S) /\ Head(s) \in S /\ Head(s) = s[1]
         /\ Len(s) > 0
         /\ Len(Tail(s)) = Len(s) - 1
         /\ \A i \in 1 .. (Len(s) - 1) : Tail(s)[i] = s[i + 1]
OBVIOUS

LEMMA AppendToSeq ==
  ASSUME NEW S, NEW s \in Seq(S), NEW x \in S
  PROVE  /\ Append(s, x) \in Seq(S)
         /\ Len(Append(s, x)) = Len(s) + 1
         /\ Append(s, x)[Len(s) + 1] = x
         /\ \A i \in 1 .. Len(s) : Append(s, x)[i] = s[i]
OBVIOUS
-------------------------------------------------------------------------------
(* One lemma per action of the page *)

\* A render leaves an effect that saw what the page has.
LEMMA RenderedType ==
  ASSUME Rendered, completed' \subseteq Levels, level' \in Levels
  PROVE  effect'.due => effect'.saw \subseteq Levels /\ effect'.of \in Levels
BY DEF Rendered, Effect, NoEffect

LEMMA InputKeepsInv ==
  ASSUME SandboxInv, HandleCommandSubmit \/ \E l \in Lessons : PickLesson(l)
  PROVE  SandboxInv'
<1>1. /\ UNCHANGED <<completed, loading, answer, requests, savedLevels, visits, spoilt>>
      /\ Rendered
      /\ level' \in Levels
  BY LessonAssumption
     DEF HandleCommandSubmit, PickLesson, SelectLevel, Command, SandboxInv, SandboxTypes, Levels
<1>2. SandboxTypes'
  BY <1>1, RenderedType DEF SandboxInv, SandboxTypes
<1>3. Follows'
  BY <1>1 DEF SandboxInv, Follows, Asked, Read, Done
<1>4. QED
  BY <1>2, <1>3 DEF SandboxInv

LEMMA SaveProgressKeepsInv ==
  ASSUME SandboxInv, SaveProgress
  PROVE  SandboxInv'
<1> DEFINE next == effect.saw \cup {effect.of}
<1>1. /\ completed' = next /\ next \in SUBSET Levels
      /\ requests' = Append(requests, Set(next))
      /\ spoilt' = (spoilt \/ loading # "done")
      /\ UNCHANGED <<level, loading, answer, savedLevels, visits>>
      /\ Rendered
  BY DEF SaveProgress, lesson, SandboxInv, SandboxTypes
<1> HIDE DEF next
<1>2. Set(next) \in Sets /\ Set(next).op = "set" /\ Set(next).value = next
  BY <1>1, RequestKinds
<1>3. requests \in Seq(Gets \cup Sets)
  BY DEF SandboxInv, SandboxTypes
<1>4. SandboxTypes'
  BY <1>1, <1>2, <1>3, AppendToSeq, RenderedType DEF SandboxInv, SandboxTypes
<1>5. ASSUME ~spoilt' PROVE Done' /\ loading' = "done"
  <2>1. ~spoilt /\ loading = "done" /\ Done
    BY <1>1, <1>5 DEF SandboxInv, Follows
  <2>2. /\ Len(requests') = Len(requests) + 1 /\ Len(requests) \in Nat
        /\ requests'[Len(requests) + 1] = Set(next)
        /\ \A i \in 1 .. Len(requests) : requests'[i] = requests[i]
        /\ DOMAIN requests = 1 .. Len(requests)
        /\ requests' \in Seq(Gets \cup Sets)
    BY <1>1, <1>2, <1>3, AppendToSeq
  <2>3. \A i \in DOMAIN requests' : requests'[i].op = "set"
    <3>1. DOMAIN requests' = 1 .. (Len(requests) + 1)
      BY <2>2
    <3>2. \A i \in 1 .. Len(requests) : requests'[i].op = "set"
      BY <2>1, <2>2 DEF Done
    <3>3. QED
      BY <1>2, <2>2, <3>1, <3>2
  <2>4. requests' # <<>> /\ requests'[Len(requests')].value = completed'
    BY <1>1, <1>2, <2>2
  <2>5. QED
    BY <1>1, <2>1, <2>3, <2>4 DEF Done
<1>6. Follows'
  BY <1>5 DEF Follows
<1>7. QED
  BY <1>4, <1>6 DEF SandboxInv

LEMMA CarryOutKeepsInv ==
  ASSUME SandboxInv, CarryOut
  PROVE  SandboxInv'
<1> DEFINE request == Head(requests)
           n == Len(requests)
<1>1. /\ requests # <<>> /\ requests' = Tail(requests)
      /\ UNCHANGED <<level, completed, effect, visits, spoilt>>
  BY DEF CarryOut, lesson
<1>2. /\ requests \in Seq(Gets \cup Sets) /\ n \in Nat \ {0}
      /\ DOMAIN requests = 1 .. n
      /\ requests' \in Seq(Gets \cup Sets) /\ Len(requests') = n - 1
      /\ DOMAIN requests' = 1 .. (n - 1)
      /\ request \in Gets \cup Sets /\ request = requests[1]
      /\ \A i \in 1 .. (n - 1) : requests'[i] = requests[i + 1]
  BY <1>1, TailOfSeq DEF SandboxInv, SandboxTypes
<1>3. /\ visits \in Nat /\ loading \in {"asked", "read", "done"}
  BY DEF SandboxInv, SandboxTypes
<1> HIDE DEF n
<1>4. CASE request.op = "set"
  <2>1. savedLevels' = request.value /\ UNCHANGED <<loading, answer>>
    BY <1>4 DEF CarryOut
  <2>2. request \in Sets
    BY <1>2, <1>4, RequestKinds
  <2>3. SandboxTypes'
    BY <1>1, <1>2, <2>1, <2>2, RequestKinds DEF SandboxInv, SandboxTypes
  <2>4. ASSUME ~spoilt', loading' = "asked" PROVE Asked'
    <3>1. Asked
      BY <1>1, <2>1, <2>4 DEF SandboxInv, Follows
    <3>2. n > 1
      BY <1>2, <1>4, <3>1 DEF Asked, Get, n
    <3>3. requests'[n - 1] = Get(visits)
      BY <1>2, <3>1, <3>2 DEF Asked, n
    <3>4. \A i \in 1 .. (n - 2) : requests'[i].op = "get" => requests'[i].visit < visits
      BY <1>2, <3>1 DEF Asked, n
    <3>5. QED
      BY <1>1, <1>2, <3>1, <3>2, <3>3, <3>4 DEF Asked
  <2>5. ASSUME ~spoilt', loading' = "read" PROVE FALSE
    BY <1>1, <2>1, <2>5 DEF SandboxInv, Follows, Read
  <2>6. ASSUME ~spoilt', loading' = "done" PROVE Done'
    <3>1. Done
      BY <1>1, <2>1, <2>6 DEF SandboxInv, Follows
    <3>2. ASSUME NEW i \in 1 .. (n - 1) PROVE requests'[i].op = "set"
      <4>1. i + 1 \in DOMAIN requests /\ requests'[i] = requests[i + 1]
        BY <1>2
      <4>2. QED
        BY <3>1, <4>1 DEF Done
    <3>3. requests[n].value = completed
      BY <1>2, <3>1 DEF Done, n
    <3>4. CASE n = 1
      BY <1>1, <1>2, <2>1, <3>2, <3>3, <3>4 DEF Done
    <3>5. CASE n # 1
      <4>1. requests'[n - 1] = requests[n]
        BY <1>2, <3>5
      <4>2. requests' # <<>>
        BY <1>2, <3>5
      <4>3. QED
        BY <1>1, <1>2, <3>2, <3>3, <4>1, <4>2 DEF Done
    <3>6. QED
      BY <3>4, <3>5
  <2>7. QED
    BY <2>3, <2>4, <2>5, <2>6 DEF SandboxInv, Follows
<1>5. CASE request.op = "get"
  <2>1. /\ UNCHANGED savedLevels
        /\ request.visit = visits => loading' = "read" /\ answer' = savedLevels
        /\ request.visit # visits => UNCHANGED <<loading, answer>>
    BY <1>5 DEF CarryOut
  <2>2. request \in Gets
    BY <1>2, <1>5, RequestKinds
  <2>3. SandboxTypes'
    BY <1>1, <1>2, <2>1 DEF SandboxInv, SandboxTypes
  <2>4. ASSUME ~spoilt PROVE loading = "asked" /\ Asked
    BY <1>1, <1>2, <1>3, <1>5, <2>4 DEF SandboxInv, Follows, Read, Done
  <2>5. CASE request.visit = visits
    <3>1. ASSUME ~spoilt PROVE Read'
      <4>1. Asked
        BY <2>4, <3>1
      <4>2. n = 1
        BY <1>2, <1>3, <1>5, <2>5, <4>1 DEF Asked, n
      <4>3. requests' = <<>>
        BY <1>2, <4>2
      <4>4. QED
        BY <1>1, <2>1, <2>5, <4>1, <4>3 DEF Asked, Read
    <3>2. QED
      BY <1>1, <2>1, <2>3, <2>5, <3>1 DEF SandboxInv, Follows
  <2>6. CASE request.visit # visits
    <3>1. ASSUME ~spoilt PROVE Asked'
      <4>1. Asked
        BY <2>4, <3>1
      <4>2. n > 1
        BY <1>2, <2>6, <4>1 DEF Asked, Get, n
      <4>3. requests'[n - 1] = Get(visits)
        BY <1>2, <4>1, <4>2 DEF Asked, n
      <4>4. \A i \in 1 .. (n - 2) : requests'[i].op = "get" => requests'[i].visit < visits
        BY <1>2, <4>1 DEF Asked, n
      <4>5. QED
        BY <1>1, <1>2, <4>1, <4>2, <4>3, <4>4 DEF Asked
    <3>2. QED
      BY <1>1, <2>1, <2>3, <2>4, <2>6, <3>1 DEF SandboxInv, Follows
  <2>7. QED
    BY <2>5, <2>6
<1>6. QED
  BY <1>2, <1>4, <1>5, RequestKinds

LEMMA FailRequestKeepsInv ==
  ASSUME SandboxInv, FailRequest
  PROVE  SandboxInv'
<1>1. /\ requests # <<>> /\ requests' = Tail(requests)
      /\ loading' \in {loading, "done"} /\ spoilt' = TRUE
      /\ UNCHANGED <<level, completed, effect, answer, savedLevels, visits>>
  BY DEF FailRequest, lesson
<1>2. requests' \in Seq(Gets \cup Sets)
  BY <1>1, TailOfSeq DEF SandboxInv, SandboxTypes
<1>3. SandboxTypes'
  BY <1>1, <1>2 DEF SandboxInv, SandboxTypes
<1>4. QED
  BY <1>1, <1>3 DEF SandboxInv, Follows

\* The answer was read when nothing was left to write.
LEMMA LoadProgressKeepsInv ==
  ASSUME SandboxInv, LoadProgress
  PROVE  SandboxInv'
<1>1. /\ loading = "read" /\ loading' = "done"
      /\ completed' = IF answer # {} THEN answer ELSE completed
      /\ UNCHANGED <<level, answer, requests, savedLevels, visits, spoilt>>
      /\ UNCHANGED effect \/ Rendered
  BY DEF LoadProgress, lesson
<1>2. completed' \subseteq Levels /\ level' \in Levels
  BY <1>1 DEF SandboxInv, SandboxTypes
<1>3. SandboxTypes'
  BY <1>1, <1>2, RenderedType DEF SandboxInv, SandboxTypes
<1>4. Follows'
  BY <1>1 DEF SandboxInv, Follows, Read, Done
<1>5. QED
  BY <1>3, <1>4 DEF SandboxInv

\* Earlier visits' requests may still be there, before the new get.
LEMMA ReopenKeepsInv ==
  ASSUME SandboxInv, Reopen
  PROVE  SandboxInv'
<1> DEFINE get == Get(visits + 1)
<1>1. /\ visits' = visits + 1 /\ level' = 1
      /\ completed' = {} /\ effect' = NoEffect /\ loading' = "asked"
      /\ requests' = Append(requests, get) \/ requests' = <<get>>
      /\ UNCHANGED <<answer, savedLevels, spoilt>>
  BY DEF Reopen, SelectLevel
<1>2. /\ visits \in Nat /\ visits + 1 \in Nat /\ get \in Gets \cup Sets
      /\ requests \in Seq(Gets \cup Sets)
  <2>1. visits \in Nat /\ visits + 1 \in Nat /\ requests \in Seq(Gets \cup Sets)
    BY DEF SandboxInv, SandboxTypes
  <2>2. QED
    BY <2>1, RequestKinds
<1> HIDE DEF get
<1>3. SandboxTypes'
  <2>1. requests' \in Seq(Gets \cup Sets)
    <3>1. <<get>> \in Seq(Gets \cup Sets)
      BY <1>2
    <3>2. Append(requests, get) \in Seq(Gets \cup Sets)
      BY <1>2, AppendToSeq
    <3>3. QED
      BY <1>1, <3>1, <3>2
  <2>2. ~effect'.due
    BY <1>1 DEF NoEffect
  <2>3. completed' \subseteq Levels /\ level' \in Levels
    BY <1>1 DEF Levels
  <2>4. QED
    BY <1>1, <1>2, <2>1, <2>2, <2>3 DEF SandboxInv, SandboxTypes
<1>4. ASSUME ~spoilt PROVE Asked'
  <2>1. CASE requests' = <<get>>
    BY <1>1, <2>1 DEF Asked, get
  <2>2. CASE requests' = Append(requests, get)
    <3>1. /\ Len(requests) \in Nat /\ Len(requests') = Len(requests) + 1
          /\ requests'[Len(requests) + 1] = get
          /\ \A i \in 1 .. Len(requests) : requests'[i] = requests[i]
      BY <1>2, <2>2, AppendToSeq
    <3>2. \A i \in 1 .. Len(requests) : requests[i].op = "get" => requests[i].visit < visits + 1
      <4>1. CASE loading = "asked"
        <5>1. Asked
          BY <1>4, <4>1 DEF SandboxInv, Follows
        <5>2. \A i \in 1 .. (Len(requests) - 1) :
                requests[i].op = "get" => requests[i].visit \in Nat
          BY <1>2, RequestKinds
        <5>3. requests[Len(requests)].visit = visits
          BY <5>1 DEF Asked, Get
        <5>4. QED
          BY <1>2, <3>1, <5>1, <5>2, <5>3 DEF Asked
      <4>2. CASE loading = "read"
        BY <1>4, <4>2 DEF SandboxInv, Follows, Read
      <4>3. CASE loading = "done"
        BY <1>2, <1>4, <4>3 DEF SandboxInv, Follows, Done
      <4>4. QED
        BY <4>1, <4>2, <4>3 DEF SandboxInv, SandboxTypes
    <3>3. QED
      BY <1>1, <1>2, <3>1, <3>2 DEF Asked, get
  <2>3. QED
    BY <1>1, <2>1, <2>2
<1>5. QED
  BY <1>1, <1>3, <1>4 DEF SandboxInv, Follows
-------------------------------------------------------------------------------
(* The theorem *)

LEMMA PageInitInv == PageInit => SandboxInv
<1> SUFFICES ASSUME PageInit
             PROVE  SandboxInv
  OBVIOUS
<1>1. /\ level = 1 /\ completed = {} /\ effect = NoEffect /\ loading = "asked"
      /\ answer = {} /\ savedLevels = {} /\ visits = 1 /\ requests = <<Get(1)>>
  BY DEF PageInit, PageStart
<1>2. Get(1) \in Gets \cup Sets
  BY RequestKinds
<1>3. requests \in Seq(Gets \cup Sets)
  BY <1>1, <1>2
<1>4. SandboxTypes
  BY <1>1, <1>3 DEF SandboxTypes, Levels, NoEffect
<1>5. Asked
  BY <1>1 DEF Asked
<1>6. QED
  BY <1>1, <1>4, <1>5 DEF SandboxInv, Follows

\* ProgressIsSaved: for any number of visits and requests under way, when nothing
\* is left to do the record in the browser is what the page shows, unless a goal
\* was met before the record had arrived or a request failed.
THEOREM SandboxProgressIsSaved == PageSpec => []ProgressIsSaved
<1>1. SandboxInv /\ [PageNext]_allVars => SandboxInv'
  <2>1. ASSUME SandboxInv, UNCHANGED allVars
        PROVE  SandboxInv'
    BY <2>1
       DEF allVars, page, lesson, SandboxInv, SandboxTypes, Follows, Asked, Read, Done
  <2>2. QED
    BY <2>1, InputKeepsInv, SaveProgressKeepsInv, CarryOutKeepsInv, FailRequestKeepsInv,
       LoadProgressKeepsInv, ReopenKeepsInv DEF PageNext
<1>2. SandboxInv => ProgressIsSaved
  BY DEF SandboxInv, Follows, Done, ProgressIsSaved
<1>3. QED
  BY <1>1, <1>2, PageInitInv, PTL DEF PageSpec

-------------------------------------------------------------------------------
(***************************************************************************)
(* The SQL assistant. Reading and Formatting have values for every text.   *)
(***************************************************************************)

\* What Reading asks for, for the first n lexemes.
ReadTable(f, text, n) ==
  f = [m \in 0 .. n |-> IF m = 0 THEN <<>> ELSE ReadLexeme(f[m - 1], text[m])]

LEMMA LongerReading ==
  ASSUME NEW text, NEW n \in Nat, n # 0, NEW f, ReadTable(f, text, n - 1)
  PROVE  \E g : ReadTable(g, text, n)
<1> DEFINE g == [m \in 0 .. n |-> IF m = n THEN ReadLexeme(f[n - 1], text[n]) ELSE f[m]]
           h == [m \in 0 .. n |-> IF m = 0 THEN <<>> ELSE ReadLexeme(g[m - 1], text[m])]
<1>1. \A m \in 0 .. (n - 1) : f[m] = IF m = 0 THEN <<>> ELSE ReadLexeme(f[m - 1], text[m])
  BY DEF ReadTable
<1>2. ASSUME NEW m \in 0 .. n PROVE g[m] = h[m]
  <2>1. CASE m = n
    <3>1. n - 1 \in 0 .. n /\ n - 1 # n
      BY <2>1
    <3>2. g[n - 1] = f[n - 1]
      BY <3>1
    <3>3. QED
      BY <2>1, <3>2
  <2>2. CASE m # n /\ m = 0
    <3>1. m \in 0 .. (n - 1)
      BY <2>2
    <3>2. QED
      BY <1>1, <2>2, <3>1
  <2>3. CASE m # n /\ m # 0
    <3>1. m \in 0 .. (n - 1) /\ m - 1 \in 0 .. n /\ m - 1 # n
      BY <2>3
    <3>2. g[m - 1] = f[m - 1] /\ g[m] = f[m]
      BY <2>3, <3>1
    <3>3. f[m] = ReadLexeme(f[m - 1], text[m])
      BY <1>1, <2>3, <3>1
    <3>4. QED
      BY <2>3, <3>2, <3>3
  <2>4. QED
    BY <2>1, <2>2, <2>3
<1>3. g = h
  BY <1>2
<1>4. QED
  BY <1>3 DEF ReadTable

LEMMA ReadingIsDefined ==
  ASSUME NEW text, Len(text) \in Nat
  PROVE  /\ Reading(text)[0] = <<>>
         /\ \A n \in 1 .. Len(text) :
              Reading(text)[n] = ReadLexeme(Reading(text)[n - 1], text[n])
<1> DEFINE T == {n \in Nat : ~\E f : ReadTable(f, text, n)}
           l == Len(text)
<1>1. \E f : ReadTable(f, text, l)
  <2>1. SUFFICES ASSUME T # {} PROVE FALSE
    OBVIOUS
  <2>2. PICK n \in T : \A m \in T : n <= m
    BY <2>1, LeastNumber
  <2>3. CASE n = 0
    <3> DEFINE f == [m \in 0 .. 0 |-> <<>>]
    <3>1. f = [m \in 0 .. 0 |-> IF m = 0 THEN <<>> ELSE ReadLexeme(f[m - 1], text[m])]
      OBVIOUS
    <3>2. ReadTable(f, text, 0)
      BY <3>1 DEF ReadTable
    <3>3. QED
      BY <2>2, <2>3, <3>2
  <2>4. CASE n # 0
    <3>1. n \in Nat /\ n - 1 \in Nat /\ n - 1 \notin T
      BY <2>2, <2>4
    <3>2. PICK f : ReadTable(f, text, n - 1)
      BY <3>1
    <3>3. QED
      BY <2>2, <2>4, <3>1, <3>2, LongerReading
  <2>5. QED
    BY <2>3, <2>4
<1>2. Reading(text) = CHOOSE f : ReadTable(f, text, l)
  BY DEF Reading, ReadTable
<1>3. ReadTable(Reading(text), text, l)
  BY <1>1, <1>2
<1> DEFINE R == Reading(text)
<1> HIDE DEF R, l
<1>4. \A n \in 0 .. l : R[n] = IF n = 0 THEN <<>> ELSE ReadLexeme(R[n - 1], text[n])
  BY <1>3 DEF ReadTable, R
<1>5. l \in Nat /\ 0 \in 0 .. l /\ \A n \in 1 .. l : n \in 0 .. l /\ n # 0
  BY DEF l
<1>6. QED
  BY <1>4, <1>5 DEF R, l

\* What Formatting asks for, for the first n tokens.
FormatTable(f, tokens, n) ==
  f = [m \in 0 .. n |-> IF m = 0 THEN Blank ELSE FormatToken(f[m - 1], tokens, m)]

LEMMA LongerFormatting ==
  ASSUME NEW tokens, NEW n \in Nat, n # 0, NEW f, FormatTable(f, tokens, n - 1)
  PROVE  \E g : FormatTable(g, tokens, n)
<1> DEFINE g == [m \in 0 .. n |-> IF m = n THEN FormatToken(f[n - 1], tokens, n) ELSE f[m]]
           h == [m \in 0 .. n |-> IF m = 0 THEN Blank ELSE FormatToken(g[m - 1], tokens, m)]
<1>1. \A m \in 0 .. (n - 1) : f[m] = IF m = 0 THEN Blank ELSE FormatToken(f[m - 1], tokens, m)
  BY DEF FormatTable
<1>2. ASSUME NEW m \in 0 .. n PROVE g[m] = h[m]
  <2>1. CASE m = n
    <3>1. n - 1 \in 0 .. n /\ n - 1 # n
      BY <2>1
    <3>2. g[n - 1] = f[n - 1]
      BY <3>1
    <3>3. QED
      BY <2>1, <3>2
  <2>2. CASE m # n /\ m = 0
    <3>1. m \in 0 .. (n - 1)
      BY <2>2
    <3>2. QED
      BY <1>1, <2>2, <3>1
  <2>3. CASE m # n /\ m # 0
    <3>1. m \in 0 .. (n - 1) /\ m - 1 \in 0 .. n /\ m - 1 # n
      BY <2>3
    <3>2. g[m - 1] = f[m - 1] /\ g[m] = f[m]
      BY <2>3, <3>1
    <3>3. f[m] = FormatToken(f[m - 1], tokens, m)
      BY <1>1, <2>3, <3>1
    <3>4. QED
      BY <2>3, <3>2, <3>3
  <2>4. QED
    BY <2>1, <2>2, <2>3
<1>3. g = h
  BY <1>2
<1>4. QED
  BY <1>3 DEF FormatTable

LEMMA FormattingIsDefined ==
  ASSUME NEW tokens, Len(tokens) \in Nat
  PROVE  /\ Formatting(tokens)[0] = Blank
         /\ \A n \in 1 .. Len(tokens) :
              Formatting(tokens)[n] = FormatToken(Formatting(tokens)[n - 1], tokens, n)
<1> DEFINE T == {n \in Nat : ~\E f : FormatTable(f, tokens, n)}
           l == Len(tokens)
<1>1. \E f : FormatTable(f, tokens, l)
  <2>1. SUFFICES ASSUME T # {} PROVE FALSE
    OBVIOUS
  <2>2. PICK n \in T : \A m \in T : n <= m
    BY <2>1, LeastNumber
  <2>3. CASE n = 0
    <3> DEFINE f == [m \in 0 .. 0 |-> Blank]
    <3>1. f = [m \in 0 .. 0 |-> IF m = 0 THEN Blank ELSE FormatToken(f[m - 1], tokens, m)]
      OBVIOUS
    <3>2. FormatTable(f, tokens, 0)
      BY <3>1 DEF FormatTable
    <3>3. QED
      BY <2>2, <2>3, <3>2
  <2>4. CASE n # 0
    <3>1. n \in Nat /\ n - 1 \in Nat /\ n - 1 \notin T
      BY <2>2, <2>4
    <3>2. PICK f : FormatTable(f, tokens, n - 1)
      BY <3>1
    <3>3. QED
      BY <2>2, <2>4, <3>1, <3>2, LongerFormatting
  <2>5. QED
    BY <2>3, <2>4
<1>2. Formatting(tokens) = CHOOSE f : FormatTable(f, tokens, l)
  BY DEF Formatting, FormatTable
<1>3. FormatTable(Formatting(tokens), tokens, l)
  BY <1>1, <1>2
<1> DEFINE R == Formatting(tokens)
<1> HIDE DEF R, l
<1>4. \A n \in 0 .. l : R[n] = IF n = 0 THEN Blank ELSE FormatToken(R[n - 1], tokens, n)
  BY <1>3 DEF FormatTable, R
<1>5. l \in Nat /\ 0 \in 0 .. l /\ \A n \in 1 .. l : n \in 0 .. l /\ n # 0
  BY DEF l
<1>6. QED
  BY <1>4, <1>5 DEF R, l

-------------------------------------------------------------------------------
\* What is read and what is written.

TokenSet == [type : TokenTypes \cup {"joined"}, upper : STRING, layered : BOOLEAN]
LexemeSet == [before : {"nothing", "blanks", "line"}, token : TokenSet]
FormatterSet == [out : Seq(LexemeSet), empty : BOOLEAN, suppressSpace : BOOLEAN, parenDepth : Nat]

LEMMA AppendedTo ==
  ASSUME NEW S, NEW s \in Seq(S), NEW v \in S
  PROVE  /\ Append(s, v) \in Seq(S) /\ Len(s) \in Nat /\ Len(Append(s, v)) = Len(s) + 1
         /\ Append(s, v)[Len(s) + 1] = v
         /\ \A x \in 1 .. Len(s) : Append(s, v)[x] = s[x]
OBVIOUS

LEMMA LastChanged ==
  ASSUME NEW S, NEW s \in Seq(S), s # <<>>, NEW v \in S
  PROVE  [s EXCEPT ![Len(s)] = v] \in Seq(S)
OBVIOUS

LEMMA JoinedToken ==
  ASSUME NEW word \in STRING
  PROVE  Token("joined", word) \in TokenSet
BY DEF Token, TokenSet

LEMMA ReadLexemeTypes ==
  ASSUME NEW tokens \in Seq(TokenSet), NEW lexeme \in LexemeSet
  PROVE  ReadLexeme(tokens, lexeme) \in Seq(TokenSet)
<1> DEFINE last == tokens[Len(tokens)]
<1>1. lexeme.token \in TokenSet
  BY DEF LexemeSet
<1>2. CASE tokens = <<>>
  <2>1. <<lexeme.token>> \in Seq(TokenSet)
    BY <1>1
  <2>2. QED
    BY <1>2, <2>1 DEF ReadLexeme
<1>3. CASE tokens # <<>>
  <2>1. last \in TokenSet
    BY <1>3
  <2>2. Token("joined", last.upper) \in TokenSet
    <3>1. last.upper \in STRING
      BY <2>1 DEF TokenSet
    <3>2. QED
      BY <3>1, JoinedToken
  <2>3. [tokens EXCEPT ![Len(tokens)] = Token("joined", last.upper)] \in Seq(TokenSet)
    BY <1>3, <2>2, LastChanged
  <2>4. Append(tokens, lexeme.token) \in Seq(TokenSet)
    BY <1>1
  <2>5. QED
    BY <1>3, <2>3, <2>4 DEF ReadLexeme
<1>4. QED
  BY <1>2, <1>3

LEMMA TokenizeTypes ==
  ASSUME NEW text \in Seq(LexemeSet)
  PROVE  TokenizeSql(text) \in Seq(TokenSet)
<1> DEFINE l == Len(text)
           R == Reading(text)
           T == {n \in 0 .. l : R[n] \notin Seq(TokenSet)}
<1>1. l \in Nat /\ \A n \in 1 .. l : text[n] \in LexemeSet
  OBVIOUS
<1>2. R[0] = <<>> /\ \A n \in 1 .. l : R[n] = ReadLexeme(R[n - 1], text[n])
  BY <1>1, ReadingIsDefined
<1> HIDE DEF l, R
<1>3. T = {}
  <2>1. SUFFICES ASSUME T # {} PROVE FALSE
    OBVIOUS
  <2>2. T \in SUBSET Nat
    BY <1>1
  <2>3. PICK n \in T : \A m \in T : n <= m
    BY <2>1, <2>2, LeastNumber
  <2>4. n # 0
    <3>1. <<>> \in Seq(TokenSet)
      OBVIOUS
    <3>2. QED
      BY <1>2, <3>1
  <2>5. n \in 1 .. l /\ n - 1 \in 0 .. l /\ n - 1 \notin T
    BY <1>1, <2>3, <2>4
  <2>6. R[n - 1] \in Seq(TokenSet)
    BY <2>5
  <2>7. R[n] \in Seq(TokenSet)
    BY <1>1, <1>2, <2>5, <2>6, ReadLexemeTypes
  <2>8. QED
    BY <2>7
<1>4. l \in 0 .. l
  BY <1>1
<1>5. QED
  BY <1>3, <1>4 DEF TokenizeSql, l, R

\* What comes before the next token.
Before(f, space) ==
  IF f.empty THEN "line" ELSE IF space /\ ~f.suppressSpace THEN "blanks" ELSE "nothing"

LEMMA Emitted ==
  ASSUME NEW f \in FormatterSet, NEW token \in TokenSet, NEW space \in BOOLEAN
  PROVE  /\ Emit(f, token, space) \in FormatterSet
         /\ Emit(f, token, space).empty = FALSE /\ Emit(f, token, space).suppressSpace = FALSE
         /\ Emit(f, token, space).out = Append(f.out, Lexeme(Before(f, space), token))
         /\ Lexeme(Before(f, space), token) \in LexemeSet
<1> DEFINE word == Lexeme(Before(f, space), token)
           g == Emit(f, token, space)
<1>1. word \in LexemeSet
  BY DEF Lexeme, LexemeSet, Before
<1>2. f.out \in Seq(LexemeSet)
  BY DEF FormatterSet
<1>3. Append(f.out, word) \in Seq(LexemeSet)
  BY <1>1, <1>2
<1>4. g = [f EXCEPT !.out = Append(f.out, word), !.empty = FALSE, !.suppressSpace = FALSE]
  BY DEF Emit, Before
<1> HIDE DEF word, g
<1>5. g \in FormatterSet /\ g.empty = FALSE /\ g.suppressSpace = FALSE /\ g.out = Append(f.out, word)
  BY <1>3, <1>4 DEF FormatterSet
<1>6. QED
  BY <1>1, <1>5 DEF word, g

LEMMA LineStarted ==
  ASSUME NEW f \in FormatterSet
  PROVE  /\ StartLine(f) \in FormatterSet /\ StartLine(f).out = f.out
         /\ StartLine(f).empty = TRUE /\ StartLine(f).suppressSpace = FALSE
BY DEF FormatterSet, StartLine

LEMMA Opened ==
  ASSUME NEW f \in FormatterSet
  PROVE  /\ Open(f) \in FormatterSet /\ Open(f).out = f.out /\ Open(f).empty = f.empty
<1>1. f.parenDepth + 1 \in Nat
  BY DEF FormatterSet
<1>2. Open(f) = [f EXCEPT !.suppressSpace = TRUE, !.parenDepth = f.parenDepth + 1]
  BY DEF Open
<1>3. QED
  BY <1>1, <1>2 DEF FormatterSet

LEMMA Closed ==
  ASSUME NEW f \in FormatterSet
  PROVE  /\ Close(f) \in FormatterSet /\ Close(f).out = f.out /\ Close(f).empty = f.empty
         /\ Close(f).suppressSpace = f.suppressSpace
BY DEF FormatterSet, Close

-------------------------------------------------------------------------------
(* What is written can be read again. *)

LEMMA NothingJoinsAMark ==
  ASSUME NEW a \in TokenSet, NEW b \in TokenSet, a.type = "punct" \/ b.type = "punct"
  PROVE  ~Joins(a, b)
BY DEF Joins, Wordlike, Is

LEMMA NothingJoinsADot ==
  ASSUME NEW a \in TokenSet, NEW b \in TokenSet,
         \/ Is(a, "operator", ".") /\ b.type # "number"
         \/ Is(b, "operator", ".") /\ a.type # "number"
  PROVE  ~Joins(a, b)
<1>1. a.upper = "." \/ b.upper = "." => <<a.upper, b.upper>> \notin TwoCharacters
  BY DEF TwoCharacters
<1>2. QED
  BY <1>1 DEF Joins, Wordlike, Is

\* Between two tokens there is what keeps them two.
KeptApart(before, a, b) ==
  /\ LineComment(a) => before = "line"
  /\ before = "nothing" => ~Joins(a, b)

\* The first n tokens have been written, and will be read as themselves.
WellWritten(out, tokens, n) ==
  /\ Len(out) = n
  /\ \A x \in 1 .. n : out[x].token = tokens[x]
  /\ Understood(tokens) => \A x \in 2 .. n : KeptApart(out[x].before, tokens[x - 1], tokens[x])

\* With what the formatter remembers of the last of them.
Written(f, tokens, n) ==
  /\ f \in FormatterSet
  /\ WellWritten(f.out, tokens, n)
  /\ n # 0 /\ ~f.empty =>
       /\ tokens[n].type # "comment"
       /\ f.suppressSpace => tokens[n].type = "punct" \/ Is(tokens[n], "operator", ".")

\* What may be written without a space before it.
Tight(token) == token.type = "punct" \/ Is(token, "operator", ".")

\* What Emit writes keeps apart from the token before it, given what the formatter
\* remembers of that one.
LEMMA EmitRenders ==
  ASSUME NEW tokens \in Seq(TokenSet), NEW n \in 1 .. Len(tokens), NEW f, Written(f, tokens, n - 1),
         NEW space \in BOOLEAN, f.empty \/ space \/ Tight(tokens[n]),
         NEW g, g = Emit(f, tokens[n], space)
  PROVE  /\ g \in FormatterSet /\ WellWritten(g.out, tokens, n)
         /\ g.empty = FALSE /\ g.suppressSpace = FALSE
<1> DEFINE before == Before(f, space)
           word == Lexeme(before, tokens[n])
           out == f.out
           more == Append(out, word)
<1>1. n \in Int /\ n - 1 \in Nat /\ (n - 1) + 1 = n /\ tokens[n] \in TokenSet
  OBVIOUS
<1>2. f \in FormatterSet /\ WellWritten(out, tokens, n - 1)
  BY DEF Written
<1>3. /\ g \in FormatterSet /\ g.empty = FALSE /\ g.suppressSpace = FALSE
      /\ g.out = more /\ word \in LexemeSet
  BY <1>1, <1>2, Emitted
<1>4. out \in Seq(LexemeSet) /\ Len(out) = n - 1
  BY <1>2 DEF FormatterSet, WellWritten
<1>5. word.before = before /\ word.token = tokens[n]
  BY DEF Lexeme
<1>6. Understood(tokens) /\ n \in 2 .. n => KeptApart(before, tokens[n - 1], tokens[n])
  <2>1. SUFFICES ASSUME Understood(tokens), n \in 2 .. n
                 PROVE  KeptApart(before, tokens[n - 1], tokens[n])
    OBVIOUS
  <2>2. n - 1 # 0 /\ n - 1 \in 1 .. Len(tokens) /\ n \in 1 .. Len(tokens)
    BY <2>1
  <2>3. tokens[n - 1] \in TokenSet
    BY <2>2
  <2>4. ~f.empty => /\ tokens[n - 1].type # "comment"
                    /\ f.suppressSpace => Tight(tokens[n - 1])
    BY <2>2 DEF Written, Tight
  <2>5. LineComment(tokens[n - 1]) => before = "line"
    BY <2>4 DEF LineComment, Is, Before
  <2>6. before = "nothing" => Tight(tokens[n - 1]) \/ Tight(tokens[n])
    BY <2>4 DEF Before
  <2>7. /\ Is(tokens[n - 1], "operator", ".") => tokens[n].type # "number"
        /\ Is(tokens[n], "operator", ".") => tokens[n - 1].type # "number"
    <3>1. DOMAIN tokens = 1 .. Len(tokens)
      OBVIOUS
    <3>2. n \in {(n - 1) - 1, (n - 1) + 1} \cap DOMAIN tokens /\ n - 1 \in {n - 1, n + 1} \cap DOMAIN tokens
      BY <1>1, <2>2, <3>1
    <3>3. n \in DOMAIN tokens /\ n - 1 \in DOMAIN tokens
      BY <3>2
    <3>4. QED
      BY <2>1, <3>2, <3>3 DEF Understood
  <2>8. before = "nothing" => ~Joins(tokens[n - 1], tokens[n])
    BY <1>1, <2>3, <2>6, <2>7, NothingJoinsAMark, NothingJoinsADot DEF Tight
  <2>9. QED
    BY <2>5, <2>8 DEF KeptApart
<1> HIDE DEF before, word, out
<1>7. /\ Len(more) = n /\ more[n] = word
      /\ \A x \in 1 .. (n - 1) : more[x] = out[x]
  <2>1. /\ Len(more) = (n - 1) + 1 /\ more[(n - 1) + 1] = word
        /\ \A x \in 1 .. (n - 1) : more[x] = out[x]
    BY <1>3, <1>4, AppendedTo
  <2>2. QED
    BY <1>1, <2>1
<1> HIDE DEF more
<1>8. ASSUME NEW x \in 1 .. n PROVE more[x].token = tokens[x]
  <2>1. CASE x = n
    BY <1>5, <1>7, <2>1
  <2>2. CASE x # n
    <3>1. x \in 1 .. (n - 1)
      BY <1>1, <2>2
    <3>2. QED
      BY <1>2, <1>7, <3>1 DEF WellWritten
  <2>3. QED
    BY <2>1, <2>2
<1>9. ASSUME Understood(tokens), NEW x \in 2 .. n
      PROVE  KeptApart(more[x].before, tokens[x - 1], tokens[x])
  <2>1. CASE x = n
    <3>1. n \in 2 .. n
      BY <2>1
    <3>2. QED
      BY <1>5, <1>6, <1>7, <1>9, <2>1, <3>1
  <2>2. CASE x # n
    <3>1. x \in 2 .. (n - 1) /\ x \in 1 .. (n - 1)
      BY <1>1, <2>2
    <3>2. KeptApart(out[x].before, tokens[x - 1], tokens[x])
      BY <1>2, <1>9, <3>1 DEF WellWritten
    <3>3. QED
      BY <1>7, <3>1, <3>2
  <2>3. QED
    BY <2>1, <2>2
<1>10. WellWritten(more, tokens, n)
  BY <1>7, <1>8, <1>9 DEF WellWritten
<1>11. QED
  BY <1>3, <1>10

LEMMA Suppressed ==
  ASSUME NEW f \in FormatterSet
  PROVE  /\ [f EXCEPT !.suppressSpace = TRUE] \in FormatterSet
         /\ [f EXCEPT !.suppressSpace = TRUE].out = f.out
BY DEF FormatterSet

LEMMA StartLineFollows ==
  ASSUME NEW tokens, NEW n, NEW f \in FormatterSet, WellWritten(f.out, tokens, n)
  PROVE  Written(StartLine(f), tokens, n)
<1>1. /\ StartLine(f) \in FormatterSet /\ StartLine(f).out = f.out /\ StartLine(f).empty = TRUE
  BY LineStarted
<1>2. QED
  BY <1>1 DEF Written

LEMMA CloseFollows ==
  ASSUME NEW tokens, NEW n, NEW f, Written(f, tokens, n)
  PROVE  Written(Close(f), tokens, n)
<1>1. f \in FormatterSet
  BY DEF Written
<1>2. /\ Close(f) \in FormatterSet /\ Close(f).out = f.out /\ Close(f).empty = f.empty
      /\ Close(f).suppressSpace = f.suppressSpace
  BY <1>1, Closed
<1>3. QED
  BY <1>2 DEF Written

\* A token other than a comment may be written on the line as it is.
LEMMA EmitFollows ==
  ASSUME NEW tokens \in Seq(TokenSet), NEW n \in 1 .. Len(tokens), NEW f, Written(f, tokens, n - 1),
         NEW space \in BOOLEAN, f.empty \/ space \/ Tight(tokens[n]), tokens[n].type # "comment"
  PROVE  Written(Emit(f, tokens[n], space), tokens, n)
<1> DEFINE g == Emit(f, tokens[n], space)
<1> HIDE DEF g
<1>1. /\ g \in FormatterSet /\ WellWritten(g.out, tokens, n)
      /\ g.empty = FALSE /\ g.suppressSpace = FALSE
  BY EmitRenders DEF g
<1>2. Written(g, tokens, n)
  BY <1>1 DEF Written
<1>3. QED
  BY <1>2 DEF g

LEMMA PunctuateKeeps ==
  ASSUME NEW tokens \in Seq(TokenSet), NEW n \in 1 .. Len(tokens), NEW f, Written(f, tokens, n - 1),
         tokens[n].type = "punct"
  PROVE  Written(Punctuate(f, tokens, n), tokens, n)
<1> DEFINE token == tokens[n]
<1>1. Tight(token) /\ token.type # "comment"
  BY DEF Tight
<1>2. ASSUME NEW space \in BOOLEAN PROVE Written(Emit(f, token, space), tokens, n)
  BY <1>1, EmitFollows
<1>3. IsFunctionCall(tokens, n) \in BOOLEAN
  BY DEF IsFunctionCall, Keyword
<1>4. CASE token.upper = "("
  <2> DEFINE g == Emit(f, token, ~IsFunctionCall(tokens, n))
  <2>1. Written(g, tokens, n)
    BY <1>2, <1>3
  <2> HIDE DEF g
  <2>2. /\ g \in FormatterSet /\ WellWritten(g.out, tokens, n)
    BY <2>1 DEF Written
  <2>3. /\ Open(g) \in FormatterSet /\ Open(g).out = g.out
    BY <2>2, Opened
  <2>4. Written(Open(g), tokens, n)
    BY <1>1, <2>2, <2>3 DEF Written
  <2>5. Punctuate(f, tokens, n) = Open(g)
    BY <1>4 DEF Punctuate, g
  <2>6. QED
    BY <2>4, <2>5
<1>5. CASE token.upper = ")"
  <2>1. Written(Close(f), tokens, n - 1)
    BY CloseFollows
  <2>2. Written(Emit(Close(f), token, FALSE), tokens, n)
    BY <1>1, <2>1, EmitFollows
  <2>3. Punctuate(f, tokens, n) = Emit(Close(f), token, FALSE)
    BY <1>5 DEF Punctuate
  <2>4. QED
    BY <2>2, <2>3
<1>6. CASE token.upper \notin {"(", ")"}
  <2> DEFINE g == Emit(f, token, FALSE)
  <2>1. Written(g, tokens, n)
    BY <1>2
  <2>2. Punctuate(f, tokens, n) \in {g, StartLine(g)}
    BY <1>6 DEF Punctuate
  <2> HIDE DEF g
  <2>3. Written(StartLine(g), tokens, n)
    BY <2>1, StartLineFollows DEF Written
  <2>4. QED
    BY <2>1, <2>2, <2>3
<1>7. QED
  BY <1>4, <1>5, <1>6

\* The invariant of the formatter's loop, over each of its branches.
LEMMA FormatTokenKeeps ==
  ASSUME NEW tokens \in Seq(TokenSet), NEW n \in 1 .. Len(tokens), NEW f, Written(f, tokens, n - 1)
  PROVE  Written(FormatToken(f, tokens, n), tokens, n)
<1> DEFINE token == tokens[n]
           line == StartLine(f)
<1>1. /\ f \in FormatterSet /\ WellWritten(f.out, tokens, n - 1)
  BY DEF Written
<1>2. Written(line, tokens, n - 1) /\ line.empty
  BY <1>1, StartLineFollows, LineStarted
<1>3. CASE token.type = "comment"
  <2> DEFINE g == Emit(line, token, FALSE)
  <2> HIDE DEF line
  <2>1. g \in FormatterSet /\ WellWritten(g.out, tokens, n)
    BY <1>2, EmitRenders
  <2> HIDE DEF g
  <2>2. Written(StartLine(g), tokens, n)
    BY <2>1, StartLineFollows
  <2>3. FormatToken(f, tokens, n) = StartLine(g)
    BY <1>3 DEF FormatToken, g, line
  <2>4. QED
    BY <2>2, <2>3
<1>4. CASE token.type = "punct"
  <2>1. FormatToken(f, tokens, n) = Punctuate(f, tokens, n)
    BY <1>4 DEF FormatToken
  <2>2. QED
    BY <1>4, <2>1, PunctuateKeeps
<1>5. CASE token.type \notin {"comment", "punct"}
  <2> DEFINE fresh == Emit(line, token, FALSE)
             spaced == Emit(f, token, TRUE)
             tight == Emit(f, token, FALSE)
             dot == [tight EXCEPT !.suppressSpace = TRUE]
  <2>1. \/ FormatToken(f, tokens, n) \in {fresh, StartLine(fresh), spaced, StartLine(spaced)}
        \/ Is(token, "operator", ".") /\ FormatToken(f, tokens, n) = dot
    BY <1>5 DEF FormatToken
  <2> HIDE DEF line
  <2>2. Written(fresh, tokens, n)
    BY <1>2, <1>5, EmitFollows
  <2>3. Written(spaced, tokens, n)
    BY <1>5, EmitFollows
  <2> HIDE DEF fresh, spaced
  <2>4. Written(StartLine(fresh), tokens, n) /\ Written(StartLine(spaced), tokens, n)
    BY <2>2, <2>3, StartLineFollows DEF Written
  <2>5. ASSUME Is(token, "operator", ".") PROVE Written(dot, tokens, n)
    <3>1. Written(tight, tokens, n)
      BY <1>5, <2>5, EmitFollows DEF Tight
    <3> HIDE DEF tight
    <3>2. tight \in FormatterSet /\ WellWritten(tight.out, tokens, n)
      BY <3>1 DEF Written
    <3>3. dot \in FormatterSet /\ dot.out = tight.out
      BY <3>2, Suppressed
    <3> HIDE DEF dot
    <3>4. QED
      BY <1>5, <2>5, <3>2, <3>3 DEF Written
  <2>6. QED
    BY <2>1, <2>2, <2>3, <2>4, <2>5
<1>6. QED
  BY <1>3, <1>4, <1>5

LEMMA FormattingRenders ==
  ASSUME NEW tokens \in Seq(TokenSet)
  PROVE  Written(Formatting(tokens)[Len(tokens)], tokens, Len(tokens))
<1> DEFINE l == Len(tokens)
           R == Formatting(tokens)
           T == {n \in 0 .. l : ~Written(R[n], tokens, n)}
<1>1. l \in Nat
  OBVIOUS
<1>2. R[0] = Blank /\ \A n \in 1 .. l : R[n] = FormatToken(R[n - 1], tokens, n)
  BY <1>1, FormattingIsDefined
<1> HIDE DEF R
<1>3. Written(Blank, tokens, 0)
  <2>1. Blank \in FormatterSet
    BY DEF Blank, FormatterSet
  <2>2. WellWritten(Blank.out, tokens, 0)
    BY DEF Blank, WellWritten
  <2>3. QED
    BY <2>1, <2>2 DEF Written
<1>4. T = {}
  <2>1. SUFFICES ASSUME T # {} PROVE FALSE
    OBVIOUS
  <2>2. T \in SUBSET Nat
    BY <1>1
  <2>3. PICK n \in T : \A m \in T : n <= m
    BY <2>1, <2>2, LeastNumber
  <2>4. n # 0
    BY <1>2, <1>3, <2>3
  <2>5. n \in 1 .. l /\ n - 1 \in 0 .. l /\ n - 1 \notin T
    BY <1>1, <2>3, <2>4
  <2>6. Written(R[n - 1], tokens, n - 1)
    BY <2>5
  <2>7. Written(R[n], tokens, n)
    BY <1>2, <2>5, <2>6, FormatTokenKeeps
  <2>8. QED
    BY <2>3, <2>7
<1>5. l \in 0 .. l
  BY <1>1
<1>6. QED
  BY <1>4, <1>5 DEF R

-------------------------------------------------------------------------------
(* What is written is read back. *)

LEMMA TableAsSequence ==
  ASSUME NEW S, NEW l \in Nat, NEW s \in [1 .. l -> S]
  PROVE  s \in Seq(S) /\ Len(s) = l
OBVIOUS

\* The trimming at the end changes nothing in a readable text.
LEMMA FormatSqlWrites ==
  ASSUME NEW text \in Seq(LexemeSet)
  PROVE  LET tokens == TokenizeSql(text)
             written == FormatSql(text)
         IN /\ written \in Seq(LexemeSet)
            /\ Understood(tokens) =>
                 /\ Len(written) = Len(tokens)
                 /\ \A x \in 1 .. Len(tokens) : written[x].token = tokens[x]
                 /\ \A x \in 2 .. Len(tokens) : KeptApart(written[x].before, tokens[x - 1], tokens[x])
<1> DEFINE tokens == TokenizeSql(text)
           l == Len(tokens)
           f == Formatting(tokens)[l]
           out == f.out
           Plain(x) == Lexeme(out[x].before, [out[x].token EXCEPT !.layered = FALSE])
           written == FormatSql(text)
<1>1. tokens \in Seq(TokenSet)
  BY TokenizeTypes
<1> HIDE DEF tokens
<1>2. l \in Nat /\ DOMAIN tokens = 1 .. l /\ \A x \in 1 .. l : tokens[x] \in TokenSet
  BY <1>1
<1>3. Written(f, tokens, l)
  BY <1>1, FormattingRenders
<1> HIDE DEF f
<1>4. out \in Seq(LexemeSet) /\ WellWritten(out, tokens, l)
  BY <1>3 DEF Written, FormatterSet
<1>5. written = [x \in DOMAIN out |-> Plain(x)]
  BY DEF FormatSql, tokens, f
<1> HIDE DEF out, l, written
<1>6. Len(out) = l /\ DOMAIN out = 1 .. l
  BY <1>4 DEF WellWritten
<1>7. ASSUME NEW x \in 1 .. l
      PROVE  /\ Plain(x) \in LexemeSet /\ Plain(x).before = out[x].before
             /\ Plain(x).token = [out[x].token EXCEPT !.layered = FALSE]
  <2>1. out[x] \in LexemeSet
    BY <1>4, <1>6
  <2>2. QED
    BY <2>1 DEF LexemeSet, Lexeme, TokenSet
<1> HIDE DEF Plain
<1>8. written \in Seq(LexemeSet) /\ Len(written) = l /\ \A x \in 1 .. l : written[x] = Plain(x)
  <2>1. written = [x \in 1 .. l |-> Plain(x)]
    BY <1>5, <1>6
  <2>2. written \in [1 .. l -> LexemeSet] /\ \A x \in 1 .. l : written[x] = Plain(x)
    BY <1>7, <2>1
  <2>3. QED
    BY <1>2, <2>2, TableAsSequence
<1>9. ASSUME Understood(tokens), NEW x \in 1 .. l PROVE written[x].token = tokens[x]
  <2>1. out[x].token = tokens[x] /\ tokens[x] \in TokenSet
    BY <1>2, <1>4 DEF WellWritten
  <2>2. tokens[x].layered = FALSE
    BY <1>2, <1>9, <2>1 DEF Understood, TokenSet
  <2>3. [tokens[x] EXCEPT !.layered = FALSE] = tokens[x]
    BY <2>1, <2>2 DEF TokenSet
  <2>4. QED
    BY <1>7, <1>8, <2>1, <2>3
<1>10. ASSUME Understood(tokens), NEW x \in 2 .. l
       PROVE  KeptApart(written[x].before, tokens[x - 1], tokens[x])
  <2>1. x \in 1 .. l
    BY <1>2
  <2>2. KeptApart(out[x].before, tokens[x - 1], tokens[x])
    BY <1>4, <1>10 DEF WellWritten
  <2>3. QED
    BY <1>7, <1>8, <2>1, <2>2
<1>11. QED
  BY <1>8, <1>9, <1>10 DEF tokens, l, written

\* The first n tokens have been read again.
Reread(read, tokens, n) ==
  read \in Seq(TokenSet) /\ Len(read) = n /\ \A x \in 1 .. n : read[x] = tokens[x]

LEMMA ReadLexemeAgain ==
  ASSUME NEW tokens \in Seq(TokenSet), NEW n \in 1 .. Len(tokens),
         NEW read, Reread(read, tokens, n - 1),
         NEW lexeme \in LexemeSet, lexeme.token = tokens[n],
         n \in 2 .. Len(tokens) => KeptApart(lexeme.before, tokens[n - 1], tokens[n])
  PROVE  Reread(ReadLexeme(read, lexeme), tokens, n)
<1> DEFINE token == tokens[n]
           more == ReadLexeme(read, lexeme)
<1>1. token \in TokenSet /\ n \in Int /\ n - 1 \in Nat /\ (n - 1) + 1 = n
  OBVIOUS
<1>2. read \in Seq(TokenSet) /\ Len(read) = n - 1 /\ \A x \in 1 .. (n - 1) : read[x] = tokens[x]
  BY DEF Reread
<1>3. more = Append(read, token)
  <2>1. CASE n = 1
    <3>1. read = <<>>
      BY <1>2, <2>1
    <3>2. Append(read, token) = <<token>>
      BY <3>1
    <3>3. more = <<token>>
      BY <3>1 DEF ReadLexeme
    <3>4. QED
      BY <3>2, <3>3
  <2>2. CASE n # 1
    <3>1. n \in 2 .. Len(tokens) /\ n - 1 \in 1 .. (n - 1)
      BY <1>1, <2>2
    <3>2. read # <<>> /\ read[Len(read)] = tokens[n - 1]
      BY <1>2, <3>1
    <3>3. KeptApart(lexeme.before, tokens[n - 1], token)
      BY <3>1
    <3>4. QED
      BY <3>2, <3>3 DEF ReadLexeme, KeptApart
  <2>3. QED
    BY <2>1, <2>2
<1> HIDE DEF more, token
<1>4. /\ Append(read, token) \in Seq(TokenSet) /\ Len(Append(read, token)) = (n - 1) + 1
      /\ Append(read, token)[(n - 1) + 1] = token
      /\ \A x \in 1 .. (n - 1) : Append(read, token)[x] = read[x]
  BY <1>1, <1>2, AppendedTo
<1>5. more \in Seq(TokenSet) /\ Len(more) = n /\ more[n] = token
      /\ \A x \in 1 .. (n - 1) : more[x] = tokens[x]
  BY <1>1, <1>2, <1>3, <1>4
<1>6. ASSUME NEW x \in 1 .. n PROVE more[x] = tokens[x]
  <2>1. CASE x = n
    BY <1>5, <2>1 DEF token
  <2>2. CASE x # n
    <3>1. x \in 1 .. (n - 1)
      BY <1>1, <2>2
    <3>2. QED
      BY <1>5, <3>1
  <2>3. QED
    BY <2>1, <2>2
<1>7. QED
  BY <1>5, <1>6 DEF Reread, more

\* A readable text is read back as the tokens it was formatted from.
LEMMA ReadBack ==
  ASSUME NEW text \in Seq(LexemeSet), Understood(TokenizeSql(text))
  PROVE  TokenizeSql(FormatSql(text)) = TokenizeSql(text)
<1> DEFINE tokens == TokenizeSql(text)
           written == FormatSql(text)
           l == Len(tokens)
           R == Reading(written)
           T == {n \in 0 .. l : ~Reread(R[n], tokens, n)}
<1>1. tokens \in Seq(TokenSet) /\ l \in Nat
  BY TokenizeTypes
<1>2. /\ written \in Seq(LexemeSet) /\ Len(written) = l
      /\ \A x \in 1 .. l : written[x].token = tokens[x]
      /\ \A x \in 2 .. l : KeptApart(written[x].before, tokens[x - 1], tokens[x])
  BY FormatSqlWrites
<1> HIDE DEF tokens, written
<1>3. R[0] = <<>> /\ \A n \in 1 .. l : R[n] = ReadLexeme(R[n - 1], written[n])
  BY <1>1, <1>2, ReadingIsDefined
<1> HIDE DEF l, R
<1>4. T = {}
  <2>1. SUFFICES ASSUME T # {} PROVE FALSE
    OBVIOUS
  <2>2. T \in SUBSET Nat
    BY <1>1
  <2>3. PICK n \in T : \A m \in T : n <= m
    BY <2>1, <2>2, LeastNumber
  <2>4. n # 0
    <3>1. Reread(<<>>, tokens, 0)
      BY DEF Reread
    <3>2. QED
      BY <1>3, <2>3, <3>1
  <2>5. n \in 1 .. l /\ n - 1 \in 0 .. l /\ n - 1 \notin T
    BY <1>1, <2>3, <2>4
  <2>6. Reread(R[n - 1], tokens, n - 1)
    BY <2>5
  <2>7. written[n] \in LexemeSet /\ n \in 1 .. Len(tokens)
    BY <1>2, <2>5 DEF l
  <2>8. n \in 2 .. Len(tokens) => KeptApart(written[n].before, tokens[n - 1], tokens[n])
    BY <1>2 DEF l
  <2>9. Reread(ReadLexeme(R[n - 1], written[n]), tokens, n)
    BY <1>1, <1>2, <2>5, <2>6, <2>7, <2>8, ReadLexemeAgain
  <2>10. QED
    BY <1>3, <2>3, <2>5, <2>9
<1>5. Reread(R[l], tokens, l)
  <2>1. l \in 0 .. l
    BY <1>1
  <2>2. QED
    BY <1>4, <2>1
<1>6. R[l] = tokens
  <2>1. R[l] \in Seq(TokenSet) /\ Len(R[l]) = Len(tokens) /\ \A x \in 1 .. Len(tokens) : R[l][x] = tokens[x]
    BY <1>5 DEF Reread, l
  <2>2. QED
    BY <1>1, <2>1
<1>7. QED
  BY <1>2, <1>6 DEF TokenizeSql, R, tokens, written

-------------------------------------------------------------------------------
(* The page *)

LEMMA TextTypes ==
  ASSUME sql \in Seq(LexemeSet), SqlNext \/ UNCHANGED sqlVars
  PROVE  sql' \in Seq(LexemeSet)
<1>1. CASE TypeSql
  <2>1. PICK before \in {"nothing", "line"}, token \in Lexemes : sql' = Append(sql, Lexeme(before, token))
    BY <1>1 DEF TypeSql
  <2>2. token \in TokenSet
    BY SqlAssumption DEF TokenSet
  <2>3. Lexeme(before, token) \in LexemeSet
    BY <2>2 DEF Lexeme, LexemeSet
  <2>4. QED
    BY <2>1, <2>3
<1>2. CASE ApplyFormatted
  BY <1>2, FormatSqlWrites DEF ApplyFormatted
<1>3. CASE SetDialect \/ UNCHANGED sqlVars
  BY <1>3 DEF SetDialect, sqlVars
<1>4. QED
  BY <1>1, <1>2, <1>3 DEF SqlNext

\* Whatever is typed, and however often it is formatted, in every dialect: where
\* the text is readable, formatting it and reading it again finds its tokens, and
\* so what the linter finds.
THEOREM SqlFormattingKeepsTheQuery ==
  SqlInit /\ [][SqlNext]_sqlVars => []FormattingKeepsTheQuery
<1>1. SqlInit => sql \in Seq(LexemeSet)
  BY DEF SqlInit
<1>2. sql \in Seq(LexemeSet) /\ [SqlNext]_sqlVars => (sql \in Seq(LexemeSet))'
  BY TextTypes
<1>3. sql \in Seq(LexemeSet) => FormattingKeepsTheQuery
  BY ReadBack DEF FormattingKeepsTheQuery, LintSql
<1>4. QED
  BY <1>1, <1>2, <1>3, PTL

-------------------------------------------------------------------------------
(* Arithmetic *)

LEMMA Division ==
  ASSUME NEW d \in Nat, NEW s \in Nat \ {0}
  PROVE  d \div s \in Nat /\ d % s \in 0 .. (s - 1) /\ d % s = d - s * (d \div s)
OBVIOUS

LEMMA ProductsInOrder ==
  ASSUME NEW m \in Nat, NEW n \in Nat, NEW s \in Nat \ {0}, m < n
  PROVE  m * s \in Nat /\ n * s \in Nat /\ m * s + s <= n * s
<1>1. n - m \in Nat /\ n - m >= 1 /\ s >= 1
  OBVIOUS
<1>2. (n - m) * s >= s
  <2>1. \E k \in Nat : n - m = k + 1
    BY <1>1
  <2>2. PICK k \in Nat : n - m = k + 1
    BY <2>1
  <2>3. (k + 1) * s = k * s + s /\ k * s \in Nat
    OBVIOUS
  <2>4. QED
    BY <2>2, <2>3
<1>3. (n - m) * s = n * s - m * s
  OBVIOUS
<1>4. m * s \in Nat /\ n * s \in Nat
  OBVIOUS
<1>5. QED
  BY <1>2, <1>3, <1>4

LEMMA QuotientOfProduct ==
  ASSUME NEW n \in Nat, NEW s \in Nat \ {0}
  PROVE  (n * s) % s = 0 /\ (n * s) \div s = n
<1> DEFINE d == n * s
           q == d \div s
<1>1. d \in Nat
  OBVIOUS
<1>2. q \in Nat /\ d % s \in 0 .. (s - 1) /\ d % s = d - s * q
  BY <1>1, Division
<1>3. s * q = q * s
  BY <1>2
<1> HIDE DEF q
<1>4. ~(q < n)
  <2>1. SUFFICES ASSUME q < n PROVE FALSE
    OBVIOUS
  <2>2. q * s + s <= n * s /\ q * s \in Nat
    BY <1>2, <2>1, ProductsInOrder
  <2>3. QED
    BY <1>1, <1>2, <1>3, <2>2
<1>5. ~(n < q)
  <2>1. SUFFICES ASSUME n < q PROVE FALSE
    OBVIOUS
  <2>2. n * s + s <= q * s /\ q * s \in Nat
    BY <1>2, <2>1, ProductsInOrder
  <2>3. QED
    BY <1>1, <1>2, <1>3, <2>2
<1>6. q = n
  BY <1>2, <1>4, <1>5
<1>7. d % s = 0
  BY <1>1, <1>2, <1>3, <1>6
<1>8. QED
  BY <1>6, <1>7 DEF q

LEMMA QuotientBelow ==
  ASSUME NEW d \in Nat, NEW s \in Nat \ {0}, NEW n \in Nat, d < n * s
  PROVE  d \div s < n
<1> DEFINE q == d \div s
<1>1. q \in Nat /\ d % s \in 0 .. (s - 1) /\ d % s = d - s * q
  BY Division
<1>2. s * q = q * s
  BY <1>1
<1> HIDE DEF q
<1>3. SUFFICES ASSUME n <= q PROVE FALSE
  BY <1>1 DEF q
<1>4. CASE n = q
  BY <1>1, <1>2, <1>4
<1>5. CASE n < q
  <2>1. n * s + s <= q * s /\ q * s \in Nat /\ n * s \in Nat
    BY <1>1, <1>5, ProductsInOrder
  <2>2. QED
    BY <1>1, <1>2, <2>1
<1>6. QED
  BY <1>1, <1>3, <1>4, <1>5

-------------------------------------------------------------------------------
(* The fields *)

FieldNames == <<"second", "minute", "hour", "dayOfMonth", "month", "dayOfWeek">>
Mins == <<0, 0, 0, 1, 1, 0>>
Maxs == <<SecondsPerMinute - 1, MinutesPerHour - 1, HoursPerDay - 1, 31, 12, 7>>

SpecSet == [name : STRING, min : Nat, max : Nat]

LEMMA NamesDiffer ==
  \A i, j \in 1 .. 6 : FieldNames[i] = FieldNames[j] => i = j
BY DEF FieldNames

LEMMA FiveFieldsAre ==
  /\ Len(FiveFields) = 5 /\ DOMAIN FiveFields = 1 .. 5
  /\ \A i \in 1 .. 5 : /\ FiveFields[i].name = FieldNames[i + 1]
                       /\ FiveFields[i].min = Mins[i + 1] /\ FiveFields[i].max = Maxs[i + 1]
BY DEF FiveFields, FieldNames, Mins, Maxs

LEMMA SixFieldsAre ==
  /\ Len(SixFields) = 6 /\ DOMAIN SixFields = 1 .. 6
  /\ SixFields[1] = [name |-> "second", min |-> 0, max |-> SecondsPerMinute - 1]
  /\ \A i \in 1 .. 5 : SixFields[i + 1] = FiveFields[i]
BY DEF FiveFields, SixFields

\* Where the fields of an expression stand in FieldNames.
Place(fields, i) == i + 6 - Len(fields)

LEMMA SpecsAre ==
  ASSUME NEW fields, Len(fields) \in {5, 6}
  PROVE  /\ DOMAIN Specs(fields) = 1 .. Len(fields)
         /\ \A i \in 1 .. Len(fields) :
              /\ Place(fields, i) \in 1 .. 6
              /\ Specs(fields)[i].name = FieldNames[Place(fields, i)]
              /\ Specs(fields)[i].min = Mins[Place(fields, i)]
              /\ Specs(fields)[i].max = Maxs[Place(fields, i)]
<1>1. CASE Len(fields) = 5
  <2>1. Specs(fields) = FiveFields
    BY <1>1 DEF Specs
  <2>2. \A i \in 1 .. 5 : Place(fields, i) = i + 1
    BY <1>1 DEF Place
  <2>3. QED
    BY <1>1, <2>1, <2>2, FiveFieldsAre
<1>2. CASE Len(fields) = 6
  <2>1. Specs(fields) = SixFields
    BY <1>2 DEF Specs
  <2>2. \A i \in 1 .. 6 : Place(fields, i) = i
    BY <1>2 DEF Place
  <2>3. ASSUME NEW i \in 1 .. 6
        PROVE  /\ SixFields[i].name = FieldNames[i] /\ SixFields[i].min = Mins[i]
               /\ SixFields[i].max = Maxs[i]
    <3>1. CASE i = 1
      BY <3>1, SixFieldsAre DEF FieldNames, Mins, Maxs
    <3>2. CASE i # 1
      <4>1. i - 1 \in 1 .. 5 /\ (i - 1) + 1 = i
        BY <3>2
      <4>2. QED
        BY <4>1, SixFieldsAre, FiveFieldsAre
    <3>3. QED
      BY <3>1, <3>2
  <2>4. QED
    BY <1>2, <2>1, <2>2, <2>3, SixFieldsAre
<1>3. QED
  BY <1>1, <1>2

LEMMA BoundsAreNumbers ==
  \A i \in 1 .. 6 : Mins[i] \in Nat /\ Maxs[i] \in Nat
<1>1. SecondsPerMinute - 1 \in Nat /\ MinutesPerHour - 1 \in Nat /\ HoursPerDay - 1 \in Nat
  BY CronAssumption
<1>2. QED
  BY <1>1 DEF Mins, Maxs

\* A field is found by its name.
LEMMA FieldByName ==
  ASSUME NEW fields, Len(fields) \in {5, 6}, NEW i \in 1 .. Len(fields),
         NEW name, name = Specs(fields)[i].name
  PROVE  (CHOOSE j \in DOMAIN Specs(fields) : Specs(fields)[j].name = name) = i
<1>1. DOMAIN Specs(fields) = 1 .. Len(fields)
  BY SpecsAre
<1>2. ASSUME NEW j \in 1 .. Len(fields), Specs(fields)[j].name = name PROVE j = i
  <2>1. /\ FieldNames[Place(fields, j)] = FieldNames[Place(fields, i)]
        /\ Place(fields, j) \in 1 .. 6 /\ Place(fields, i) \in 1 .. 6
    BY <1>2, SpecsAre
  <2>2. Place(fields, j) = Place(fields, i)
    BY <2>1, NamesDiffer
  <2>3. QED
    BY <2>2 DEF Place
<1>3. QED
  BY <1>1, <1>2

-------------------------------------------------------------------------------
(* What terms and fields match *)

LEMMA TermMeaning ==
  ASSUME NEW spec, spec.min \in Nat, spec.max \in Nat, NEW term \in Terms, ~TermFails(term, spec),
         NEW v \in spec.min .. spec.max
  PROVE  v \in ExpandTerm(term, spec) <=> Covers(term, spec, v)
<1> DEFINE start == IF term.range = "all" THEN spec.min ELSE term.from
           end == CASE term.range = "span" -> term.to
                    [] term.range = "one" /\ ~term.stepped -> term.from
                    [] OTHER -> spec.max
           step == term.step
           Hit(n) == /\ v = start + n * step
                     /\ term.range = "one" => (term.stepped \/ n = 0)
                     /\ term.range = "span" => v <= term.to
<1>1. /\ term.range \in {"all", "one", "span"} /\ term.from \in Int /\ term.to \in Int
      /\ term.stepped \in BOOLEAN /\ term.step \in Int /\ (term.stepped \/ term.step = 1)
  BY DEF Terms
<1>2. step \in Nat \ {0} /\ start \in Nat /\ end \in Int
  BY <1>1 DEF TermFails, Readable
<1>3. ExpandTerm(term, spec) = {w \in start .. end : (w - start) % step = 0}
  BY <1>1 DEF ExpandTerm
<1>4. Covers(term, spec, v) <=> \E n \in 0 .. spec.max : Hit(n)
  BY DEF Covers
<1>5. end = IF term.range = "span" THEN term.to
            ELSE IF term.range = "one" /\ ~term.stepped THEN start ELSE spec.max
  BY <1>1
<1>6. term.range = "one" /\ ~term.stepped => step = 1
  BY <1>1
<1> HIDE DEF start, end, step
<1>7. ASSUME v \in start .. end, (v - start) % step = 0 PROVE \E n \in 0 .. spec.max : Hit(n)
  <2> DEFINE d == v - start
             q == d \div step
  <2>1. d \in Nat
    BY <1>2, <1>7
  <2>2. q \in Nat /\ d % step = d - step * q
    BY <1>2, <2>1, Division
  <2>3. step * q = q * step
    BY <1>2, <2>2
  <2> HIDE DEF q
  <2>4. d = q * step
    BY <1>2, <1>7, <2>1, <2>2, <2>3
  <2>5. q <= d
    <3>1. CASE q = 0
      BY <2>1, <3>1
    <3>2. CASE q # 0
      <4>1. \E k \in Nat : step = k + 1
        <5>1. step - 1 \in Nat /\ step = (step - 1) + 1
          BY <1>2
        <5>2. QED
          BY <5>1
      <4>2. PICK k \in Nat : step = k + 1
        BY <4>1
      <4>3. q * (k + 1) = q * k + q /\ q * k \in Nat
        BY <2>2
      <4>4. QED
        BY <2>1, <2>2, <2>4, <4>2, <4>3
    <3>3. QED
      BY <3>1, <3>2
  <2>6. q \in 0 .. spec.max
    BY <1>2, <2>1, <2>2, <2>5
  <2>7. term.range = "one" /\ ~term.stepped => q = 0
    <3>1. SUFFICES ASSUME term.range = "one", ~term.stepped PROVE q = 0
      OBVIOUS
    <3>2. d = 0 /\ step = 1
      BY <1>2, <1>5, <1>6, <1>7, <3>1
    <3>3. QED
      BY <2>2, <2>4, <3>2
  <2>8. v = start + q * step
    BY <1>2, <2>1, <2>4
  <2>9. term.range = "span" => v <= term.to
    BY <1>2, <1>5, <1>7
  <2>10. QED
    BY <2>6, <2>7, <2>8, <2>9
<1>8. ASSUME NEW n \in 0 .. spec.max, Hit(n) PROVE v \in start .. end /\ (v - start) % step = 0
  <2>1. n \in Nat /\ n * step \in Nat /\ v - start = n * step
    <3>1. n * step \in Nat
      BY <1>2
    <3>2. QED
      BY <1>2, <1>8, <3>1
  <2>2. (v - start) % step = 0
    BY <1>2, <2>1, QuotientOfProduct
  <2>3. term.range = "one" /\ ~term.stepped => v = start
    <3>1. n = 0 => n * step = 0
      BY <1>2
    <3>2. QED
      BY <1>2, <1>8, <2>1, <3>1
  <2>4. v <= end
    BY <1>1, <1>2, <1>5, <1>8, <2>3
  <2>5. QED
    BY <1>2, <2>1, <2>2, <2>4
<1>9. QED
  BY <1>3, <1>4, <1>7, <1>8

LEMMA TermBounds ==
  ASSUME NEW spec, spec.min \in Nat, spec.max \in Nat, NEW term \in Terms, ~TermFails(term, spec)
  PROVE  ExpandTerm(term, spec) \subseteq Int
<1>1. /\ term.range \in {"all", "one", "span"} /\ term.from \in Int /\ term.to \in Int
  BY DEF Terms
<1>2. QED
  BY <1>1 DEF ExpandTerm

\* The spellings of a reading in a field.
Spelt(spec, v) == IF spec.name = "dayOfWeek" /\ v = 0 THEN {0, 7} ELSE {v}

LEMMA FieldMeaning ==
  ASSUME NEW spec, spec.min \in Nat, spec.max \in Nat, spec.name = "dayOfWeek" => spec.min = 0 /\ spec.max = 7,
         NEW field \in Seq(Terms), ~FieldFails(field, spec),
         NEW v \in spec.min .. spec.max, spec.name = "dayOfWeek" => v # 7
  PROVE  v \in FieldValues(field, spec) <=>
           \E j \in DOMAIN field, w \in Spelt(spec, v) : Covers(field[j], spec, w)
<1> DEFINE all == UNION {ExpandTerm(field[i], spec) : i \in DOMAIN field}
<1>1. ASSUME NEW w \in spec.min .. spec.max
      PROVE  w \in all <=> \E j \in DOMAIN field : Covers(field[j], spec, w)
  <2>1. \A j \in DOMAIN field : field[j] \in Terms /\ ~TermFails(field[j], spec)
    BY DEF FieldFails
  <2>2. \A j \in DOMAIN field : w \in ExpandTerm(field[j], spec) <=> Covers(field[j], spec, w)
    BY <2>1, TermMeaning
  <2>3. QED
    BY <2>2
<1>2. FieldValues(field, spec) =
        IF spec.name = "dayOfWeek" /\ 7 \in all THEN (all \ {7}) \cup {0} ELSE all
  BY DEF FieldValues
<1> HIDE DEF all
<1>3. CASE spec.name = "dayOfWeek"
  <2>1. v \in FieldValues(field, spec) <=> v \in all \/ (v = 0 /\ 7 \in all)
    BY <1>2, <1>3
  <2>2. 7 \in spec.min .. spec.max
    BY <1>3
  <2>3. QED
    BY <1>1, <1>3, <2>1, <2>2 DEF Spelt
<1>4. CASE spec.name # "dayOfWeek"
  BY <1>1, <1>2, <1>4 DEF Spelt
<1>5. QED
  BY <1>3, <1>4

-------------------------------------------------------------------------------
(* The clock *)

LEMMA ClockUnits ==
  /\ SecondsPerMinute \in Nat \ {0} /\ MinutesPerHour \in Nat \ {0} /\ HoursPerDay \in Nat \ {0}
  /\ HourLength \in Nat \ {0} /\ DayLength \in Nat \ {0}
<1>1. SecondsPerMinute \in Nat \ {0} /\ MinutesPerHour \in Nat \ {0} /\ HoursPerDay \in Nat \ {0}
  BY CronAssumption
<1>2. ASSUME NEW a \in Nat \ {0}, NEW b \in Nat \ {0} PROVE a * b \in Nat \ {0}
  <2>1. 0 * b + b <= a * b /\ a * b \in Nat
    BY ProductsInOrder
  <2>2. QED
    BY <2>1
<1>3. HourLength \in Nat \ {0}
  BY <1>1, <1>2 DEF HourLength
<1>4. QED
  BY <1>1, <1>2, <1>3 DEF DayLength

Days == [year : Nat, month : 1 .. 12, date : 1 .. 31, weekday : 0 .. 6]

LEMMA NextDayIsADay ==
  ASSUME NEW d \in Days, d.date <= MonthLength(d.year, d.month)
  PROVE  NextDay(d) \in Days /\ NextDay(d).date <= MonthLength(NextDay(d).year, NextDay(d).month)
<1>1. \A y \in Nat, m \in 1 .. 12 : MonthLength(y, m) \in 28 .. 31
  BY DEF MonthLength
<1>2. d.year \in Nat /\ d.month \in 1 .. 12 /\ d.date \in 1 .. 31 /\ d.weekday \in 0 .. 6
  BY DEF Days
<1> DEFINE last == d.date = MonthLength(d.year, d.month)
           y == IF last /\ d.month = 12 THEN d.year + 1 ELSE d.year
           m == IF last THEN (d.month % 12) + 1 ELSE d.month
           n == IF last THEN 1 ELSE d.date + 1
           w == (d.weekday + 1) % 7
<1>3. NextDay(d) = [year |-> y, month |-> m, date |-> n, weekday |-> w]
  BY DEF NextDay
<1>4. y \in Nat /\ m \in 1 .. 12 /\ w \in 0 .. 6
  BY <1>2
<1>5. n \in 1 .. 31 /\ n <= MonthLength(y, m)
  <2>1. CASE last
    BY <1>1, <1>4, <2>1
  <2>2. CASE ~last
    <3>1. y = d.year /\ m = d.month /\ n = d.date + 1
      BY <2>2
    <3>2. MonthLength(d.year, d.month) \in 28 .. 31
      BY <1>1, <1>2
    <3>3. QED
      BY <1>2, <2>2, <3>1, <3>2
  <2>3. QED
    BY <2>1, <2>2
<1> HIDE DEF y, m, n, w
<1>6. QED
  BY <1>3, <1>4, <1>5 DEF Days

\* What Calendar asks for, up to the nth day.
CalendarTable(f, n) ==
  f = [m \in 0 .. n |-> IF m = 0 THEN FirstDay ELSE NextDay(f[m - 1])]

LEMMA LongerCalendar ==
  ASSUME NEW n \in Nat, n # 0, NEW f, CalendarTable(f, n - 1)
  PROVE  \E g : CalendarTable(g, n)
<1> DEFINE g == [m \in 0 .. n |-> IF m = n THEN NextDay(f[n - 1]) ELSE f[m]]
           h == [m \in 0 .. n |-> IF m = 0 THEN FirstDay ELSE NextDay(g[m - 1])]
<1>1. \A m \in 0 .. (n - 1) : f[m] = IF m = 0 THEN FirstDay ELSE NextDay(f[m - 1])
  BY DEF CalendarTable
<1>2. ASSUME NEW m \in 0 .. n PROVE g[m] = h[m]
  <2>1. CASE m = n
    <3>1. n - 1 \in 0 .. n /\ n - 1 # n
      BY <2>1
    <3>2. g[n - 1] = f[n - 1]
      BY <3>1
    <3>3. QED
      BY <2>1, <3>2
  <2>2. CASE m # n /\ m = 0
    <3>1. m \in 0 .. (n - 1)
      BY <2>2
    <3>2. QED
      BY <1>1, <2>2, <3>1
  <2>3. CASE m # n /\ m # 0
    <3>1. m \in 0 .. (n - 1) /\ m - 1 \in 0 .. n /\ m - 1 # n
      BY <2>3
    <3>2. g[m - 1] = f[m - 1] /\ g[m] = f[m]
      BY <2>3, <3>1
    <3>3. f[m] = NextDay(f[m - 1])
      BY <1>1, <2>3, <3>1
    <3>4. QED
      BY <2>3, <3>2, <3>3
  <2>4. QED
    BY <2>1, <2>2, <2>3
<1>3. g = h
  BY <1>2
<1>4. QED
  BY <1>3 DEF CalendarTable

LEMMA CalendarIsDefined ==
  /\ Calendar[0] = FirstDay
  /\ \A n \in 1 .. CalendarDays : Calendar[n] = NextDay(Calendar[n - 1])
<1> DEFINE T == {n \in Nat : ~\E f : CalendarTable(f, n)}
           l == CalendarDays
<1>0. l \in Nat
  BY CronAssumption
<1>1. \E f : CalendarTable(f, l)
  <2>1. SUFFICES ASSUME T # {} PROVE FALSE
    BY <1>0
  <2>2. PICK n \in T : \A m \in T : n <= m
    BY <2>1, LeastNumber
  <2>3. CASE n = 0
    <3> DEFINE f == [m \in 0 .. 0 |-> FirstDay]
    <3>1. f = [m \in 0 .. 0 |-> IF m = 0 THEN FirstDay ELSE NextDay(f[m - 1])]
      OBVIOUS
    <3>2. CalendarTable(f, 0)
      BY <3>1 DEF CalendarTable
    <3>3. QED
      BY <2>2, <2>3, <3>2
  <2>4. CASE n # 0
    <3>1. n \in Nat /\ n - 1 \in Nat /\ n - 1 \notin T
      BY <2>2, <2>4
    <3>2. PICK f : CalendarTable(f, n - 1)
      BY <3>1
    <3>3. QED
      BY <2>2, <2>4, <3>1, <3>2, LongerCalendar
  <2>5. QED
    BY <2>3, <2>4
<1>2. Calendar = CHOOSE f : CalendarTable(f, l)
  BY DEF Calendar, CalendarTable
<1>3. CalendarTable(Calendar, l)
  BY <1>1, <1>2
<1> DEFINE R == Calendar
<1> HIDE DEF R, l
<1>4. \A n \in 0 .. l : R[n] = IF n = 0 THEN FirstDay ELSE NextDay(R[n - 1])
  BY <1>3 DEF CalendarTable, R
<1>5. 0 \in 0 .. l /\ \A n \in 1 .. l : n \in 0 .. l /\ n # 0
  BY <1>0
<1>6. QED
  BY <1>4, <1>5 DEF R, l

LEMMA CalendarHasDays ==
  \A n \in 0 .. CalendarDays : Calendar[n] \in Days
<1> DEFINE Good(d) == d \in Days /\ d.date <= MonthLength(d.year, d.month)
           T == {n \in 0 .. CalendarDays : ~Good(Calendar[n])}
<1>1. T = {}
  <2>1. SUFFICES ASSUME T # {} PROVE FALSE
    OBVIOUS
  <2>2. T \in SUBSET Nat
    BY CronAssumption
  <2>3. PICK n \in T : \A m \in T : n <= m
    BY <2>1, <2>2, LeastNumber
  <2>4. n # 0
    BY <2>3, CalendarIsDefined, CalendarAssumption DEF Days
  <2>5. n \in 1 .. CalendarDays /\ n - 1 \in 0 .. CalendarDays /\ n - 1 \notin T
    BY <2>3, <2>4, CronAssumption
  <2>6. Good(Calendar[n - 1])
    BY <2>5
  <2>7. Good(NextDay(Calendar[n - 1]))
    BY <2>6, NextDayIsADay
  <2>8. QED
    BY <2>3, <2>5, <2>7, CalendarIsDefined
<1>2. QED
  BY <1>1

\* An instant that the calendar reaches, whatever the clock's change.
OnCalendar(t) == t \in Nat /\ t + HourLength < CalendarDays * DayLength

\* What the clock reads is within the bounds of the fields.
LEMMA ReadingsInBounds ==
  ASSUME NEW t, OnCalendar(t)
  PROVE  /\ \A i \in 1 .. 6 : LocalReading(t)[FieldNames[i]] \in Mins[i] .. Maxs[i]
         /\ LocalReading(t)["dayOfWeek"] \in 0 .. 6
<1> DEFINE l == IF t < ClockChange THEN t ELSE t + HourLength
           n == l \div DayLength
           day == Calendar[n]
           now == LocalReading(t)
<1>1. l \in Nat /\ l < CalendarDays * DayLength
  BY CronAssumption, ClockUnits DEF OnCalendar
<1>2. n \in 0 .. CalendarDays
  <2>1. CalendarDays \in Nat
    BY CronAssumption
  <2>2. n \in Nat /\ n < CalendarDays
    BY <1>1, <2>1, ClockUnits, QuotientBelow, Division
  <2>3. QED
    BY <2>1, <2>2
<1>3. day \in Days
  BY <1>2, CalendarHasDays
<1>4. now = [second |-> l % SecondsPerMinute,
             minute |-> (l \div SecondsPerMinute) % MinutesPerHour,
             hour |-> (l \div HourLength) % HoursPerDay,
             dayOfMonth |-> day.date, month |-> day.month, dayOfWeek |-> day.weekday]
  BY DEF LocalReading
<1> HIDE DEF day, n, now
<1>5. l % SecondsPerMinute \in 0 .. (SecondsPerMinute - 1)
  BY <1>1, ClockUnits, Division
<1>6. (l \div SecondsPerMinute) % MinutesPerHour \in 0 .. (MinutesPerHour - 1)
  <2>1. l \div SecondsPerMinute \in Nat
    BY <1>1, ClockUnits, Division
  <2>2. QED
    BY <2>1, ClockUnits, Division
<1>7. (l \div HourLength) % HoursPerDay \in 0 .. (HoursPerDay - 1)
  <2>1. l \div HourLength \in Nat
    BY <1>1, ClockUnits, Division
  <2>2. QED
    BY <2>1, ClockUnits, Division
<1>8. day.date \in 1 .. 31 /\ day.month \in 1 .. 12 /\ day.weekday \in 0 .. 6
  BY <1>3 DEF Days
<1>9. /\ now["second"] \in 0 .. (SecondsPerMinute - 1) /\ now["minute"] \in 0 .. (MinutesPerHour - 1)
      /\ now["hour"] \in 0 .. (HoursPerDay - 1) /\ now["dayOfMonth"] \in 1 .. 31
      /\ now["month"] \in 1 .. 12 /\ now["dayOfWeek"] \in 0 .. 6
  BY <1>4, <1>5, <1>6, <1>7, <1>8
<1>10. \A i \in 1 .. 6 : now[FieldNames[i]] \in Mins[i] .. Maxs[i]
  BY <1>9 DEF FieldNames, Mins, Maxs
<1>11. QED
  BY <1>9, <1>10 DEF now

-------------------------------------------------------------------------------
(* An instant matches when the expression fires *)

LEMMA StarIsATerm ==
  Star \in Terms
BY DEF Star, Terms

LEMMA JustIsATerm ==
  ASSUME NEW v \in Int
  PROVE  Just(v) \in Terms
<1>1. /\ Star \in [range : {"all", "one", "span"}, from : Int, to : Int, stepped : BOOLEAN, step : Int]
      /\ Star.step = 1
  BY DEF Star
<1>2. Just(v) = [Star EXCEPT !.range = "one", !.from = v]
  BY DEF Just
<1> HIDE DEF Star, Just
<1>3. /\ Just(v) \in [range : {"all", "one", "span"}, from : Int, to : Int, stepped : BOOLEAN, step : Int]
      /\ Just(v).step = 1
  BY <1>1, <1>2
<1>4. QED
  BY <1>3 DEF Terms

LEMMA ShorthandTypes ==
  ASSUME NEW name \in DOMAIN Shorthands
  PROVE  Shorthands[name] \in Seq(Seq(Terms))
<1> DEFINE zero == <<Just(0)>>
           one == <<Just(1)>>
           all == <<Star>>
<1>1. zero \in Seq(Terms) /\ one \in Seq(Terms) /\ all \in Seq(Terms)
  BY StarIsATerm, JustIsATerm
<1>2. Shorthands = [yearly |-> <<zero, zero, one, one, all>>, monthly |-> <<zero, zero, one, all, all>>,
                    weekly |-> <<zero, zero, all, all, zero>>, daily |-> <<zero, zero, all, all, all>>,
                    hourly |-> <<zero, all, all, all, all>>]
  BY DEF Shorthands
<1> HIDE DEF zero, one, all
<1>3. /\ <<zero, zero, one, one, all>> \in Seq(Seq(Terms)) /\ <<zero, zero, one, all, all>> \in Seq(Seq(Terms))
      /\ <<zero, zero, all, all, zero>> \in Seq(Seq(Terms)) /\ <<zero, zero, all, all, all>> \in Seq(Seq(Terms))
      /\ <<zero, all, all, all, all>> \in Seq(Seq(Terms))
  BY <1>1
<1>4. name \in {"yearly", "monthly", "weekly", "daily", "hourly"}
  BY <1>2
<1>5. CASE name = "yearly"
  BY <1>2, <1>3, <1>5
<1>6. CASE name = "monthly"
  BY <1>2, <1>3, <1>6
<1>7. CASE name = "weekly"
  BY <1>2, <1>3, <1>7
<1>8. CASE name = "daily"
  BY <1>2, <1>3, <1>8
<1>9. CASE name = "hourly"
  BY <1>2, <1>3, <1>9
<1>10. QED
  BY <1>4, <1>5, <1>6, <1>7, <1>8, <1>9

\* What s, parsed from the fields, holds.
ParsedFrom(s, fields) ==
  /\ fields \in Seq(Seq(Terms)) /\ Len(fields) \in {5, 6}
  /\ \A i \in 1 .. Len(fields) : ~FieldFails(fields[i], Specs(fields)[i])
  /\ DOMAIN s = {Specs(fields)[i].name : i \in 1 .. Len(fields)}
  /\ \A i \in 1 .. Len(fields) :
       /\ s[Specs(fields)[i].name].values = FieldValues(fields[i], Specs(fields)[i])
       /\ s[Specs(fields)[i].name].wildcard <=> fields[i] = <<Star>>

LEMMA EntryHolds ==
  ASSUME NEW v, NEW star \in BOOLEAN, NEW entry, entry = [values |-> v, wildcard |-> star]
  PROVE  entry.values = v /\ (entry.wildcard <=> star)
OBVIOUS

LEMMA ParseCronParses ==
  ASSUME NEW e, e.fields \in Seq(Seq(Terms)), Parsed(ParseCron(e))
  PROVE  ParsedFrom(ParseCron(e), Normalized(e))
<1> DEFINE fields == Normalized(e)
           specs == Specs(fields)
           s == ParseCron(e)
           At(name) == CHOOSE j \in DOMAIN specs : specs[j].name = name
           Entry(name) == [values |-> FieldValues(fields[At(name)], specs[At(name)]),
                           wildcard |-> fields[At(name)] = <<Star>>]
<1>1. fields \in Seq(Seq(Terms))
  BY ShorthandTypes DEF Normalized
<1>2. /\ Len(fields) \in {5, 6}
      /\ \A i \in DOMAIN fields : ~FieldFails(fields[i], specs[i])
      /\ s = [name \in {specs[i].name : i \in DOMAIN specs} |-> Entry(name)]
  BY DEF ParseCron, Parsed
<1>3. DOMAIN fields = 1 .. Len(fields)
  BY <1>1
<1>4. DOMAIN specs = 1 .. Len(fields)
  BY <1>2, SpecsAre
<1>5. ASSUME NEW i \in 1 .. Len(fields) PROVE At(specs[i].name) = i
  BY <1>2, <1>5, FieldByName
<1>6. ASSUME NEW i \in 1 .. Len(fields)
      PROVE  s[specs[i].name] = [values |-> FieldValues(fields[i], specs[i]), wildcard |-> fields[i] = <<Star>>]
  <2>1. specs[i].name \in {specs[j].name : j \in DOMAIN specs}
    BY <1>4
  <2>2. s[specs[i].name] = Entry(specs[i].name)
    BY <1>2, <2>1
  <2>3. QED
    BY <1>5, <2>2
<1>7. DOMAIN s = {specs[i].name : i \in 1 .. Len(fields)}
  BY <1>2, <1>4
<1> HIDE DEF fields, s
<1>8. ASSUME NEW i \in 1 .. Len(fields)
      PROVE  /\ s[specs[i].name].values = FieldValues(fields[i], specs[i])
             /\ s[specs[i].name].wildcard <=> fields[i] = <<Star>>
  <2> DEFINE star == fields[i] = <<Star>>
             v == FieldValues(fields[i], specs[i])
             entry == s[specs[i].name]
  <2>1. star \in BOOLEAN
    OBVIOUS
  <2>2. entry = [values |-> v, wildcard |-> star]
    BY <1>6
  <2> HIDE DEF star, v, entry
  <2>3. entry.values = v /\ (entry.wildcard <=> star)
    BY <2>1, <2>2, EntryHolds
  <2>4. QED
    BY <2>3 DEF star, v, entry
<1>9. QED
  BY <1>1, <1>2, <1>3, <1>7, <1>8 DEF ParsedFrom, fields, s

\* A field fits what the clock reads, in one of its spellings.
Fitting(fields, i, now) ==
  LET spec == Specs(fields)[i]
  IN \E j \in DOMAIN fields[i], v \in Spelt(spec, now[spec.name]) : Covers(fields[i][j], spec, v)

LEMMA ValuesFit ==
  ASSUME NEW s, NEW fields, ParsedFrom(s, fields), NEW t, OnCalendar(t), NEW i \in 1 .. Len(fields)
  PROVE  LocalReading(t)[Specs(fields)[i].name] \in s[Specs(fields)[i].name].values
           <=> Fitting(fields, i, LocalReading(t))
<1> DEFINE spec == Specs(fields)[i]
           p == Place(fields, i)
           v == LocalReading(t)[spec.name]
           field == fields[i]
<1>1. /\ fields \in Seq(Seq(Terms)) /\ Len(fields) \in {5, 6} /\ ~FieldFails(field, spec)
      /\ s[spec.name].values = FieldValues(field, spec)
  BY DEF ParsedFrom
<1>2. p \in 1 .. 6 /\ spec.name = FieldNames[p] /\ spec.min = Mins[p] /\ spec.max = Maxs[p]
  BY <1>1, SpecsAre
<1>3. spec.min \in Nat /\ spec.max \in Nat
  BY <1>2, BoundsAreNumbers
<1>4. spec.name = "dayOfWeek" => spec.min = 0 /\ spec.max = 7
  BY <1>2, NamesDiffer DEF FieldNames, Mins, Maxs
<1>5. v \in spec.min .. spec.max /\ (spec.name = "dayOfWeek" => v # 7)
  <2>1. /\ LocalReading(t)[FieldNames[p]] \in Mins[p] .. Maxs[p]
        /\ LocalReading(t)["dayOfWeek"] \in 0 .. 6
    BY <1>2, ReadingsInBounds
  <2>2. v = LocalReading(t)[FieldNames[p]]
    BY <1>2
  <2> HIDE DEF v
  <2>3. v \in spec.min .. spec.max
    BY <1>2, <2>1, <2>2
  <2>4. spec.name = "dayOfWeek" => v \in 0 .. 6
    BY <2>1 DEF v
  <2>5. QED
    BY <2>3, <2>4
<1>6. field \in Seq(Terms)
  BY <1>1
<1> HIDE DEF spec, v, field
<1>7. v \in FieldValues(field, spec) <=>
        \E j \in DOMAIN field, w \in Spelt(spec, v) : Covers(field[j], spec, w)
  BY <1>1, <1>3, <1>4, <1>5, <1>6, FieldMeaning
<1>8. QED
  BY <1>1, <1>7 DEF Fitting, spec, v, field

LEMMA DayFields ==
  ASSUME NEW fields, Len(fields) \in {5, 6}
  PROVE  LET k == Len(fields)
         IN /\ k - 2 \in 1 .. k /\ k \in 1 .. k
            /\ Specs(fields)[k - 2].name = "dayOfMonth" /\ Specs(fields)[k].name = "dayOfWeek"
            /\ \A i \in 1 .. k : /\ Specs(fields)[i].name = "dayOfMonth" <=> i = k - 2
                                 /\ Specs(fields)[i].name = "dayOfWeek" <=> i = k
<1> DEFINE k == Len(fields)
           spec(i) == Specs(fields)[i].name
<1>1. k \in {5, 6}
  OBVIOUS
<1>2. \A i \in 1 .. k : Place(fields, i) \in 1 .. 6 /\ spec(i) = FieldNames[Place(fields, i)]
  BY <1>1, SpecsAre
<1>3. \A i : Place(fields, i) = i + 6 - k
  BY DEF Place
<1>4. \A i \in 1 .. 6 : (FieldNames[i] = "dayOfMonth" <=> i = 4) /\ (FieldNames[i] = "dayOfWeek" <=> i = 6)
  BY DEF FieldNames
<1> HIDE DEF k, spec
<1>5. k - 2 \in 1 .. k /\ k \in 1 .. k
  BY <1>1
<1>6. \A i \in 1 .. k : (Place(fields, i) = 4 <=> i = k - 2) /\ (Place(fields, i) = 6 <=> i = k)
  BY <1>1, <1>3
<1>7. \A i \in 1 .. k : (spec(i) = "dayOfMonth" <=> i = k - 2) /\ (spec(i) = "dayOfWeek" <=> i = k)
  BY <1>2, <1>4, <1>6
<1>8. spec(k - 2) = "dayOfMonth" /\ spec(k) = "dayOfWeek"
  BY <1>5, <1>7
<1>9. QED
  BY <1>5, <1>7, <1>8 DEF k, spec

LEMMA MatchesWhereItFires ==
  ASSUME NEW s, NEW fields, ParsedFrom(s, fields), NEW t, OnCalendar(t)
  PROVE  Fires(fields, t) <=> Matches(s, t) /\ (Len(fields) = 5 => t % SecondsPerMinute = 0)
<1> DEFINE k == Len(fields)
           specs == Specs(fields)
           now == LocalReading(t)
           Holds(name) == now[name] \in s[name].values
           Fits(i) == Fitting(fields, i, now)
<1>1. k \in {5, 6} /\ DOMAIN s = {specs[i].name : i \in 1 .. k} /\ DOMAIN specs = 1 .. k
  BY SpecsAre DEF ParsedFrom
<1>2. /\ k - 2 \in 1 .. k /\ k \in 1 .. k
      /\ specs[k - 2].name = "dayOfMonth" /\ specs[k].name = "dayOfWeek"
      /\ \A i \in 1 .. k : /\ specs[i].name = "dayOfMonth" <=> i = k - 2
                           /\ specs[i].name = "dayOfWeek" <=> i = k
  BY <1>1, DayFields
<1>3. \A i \in 1 .. k : Holds(specs[i].name) <=> Fits(i)
  BY ValuesFit
<1>4. /\ (CHOOSE i \in DOMAIN specs : specs[i].name = "dayOfMonth") = k - 2
      /\ (CHOOSE i \in DOMAIN specs : specs[i].name = "dayOfWeek") = k
  BY <1>1, <1>2, FieldByName
<1>5. \A i \in 1 .. k : s[specs[i].name].wildcard <=> fields[i] = <<Star>>
  BY DEF ParsedFrom
<1>6. Matches(s, t) <=>
        /\ \A name \in DOMAIN s \ {"dayOfMonth", "dayOfWeek"} : Holds(name)
        /\ \/ s["dayOfMonth"].wildcard /\ s["dayOfWeek"].wildcard
           \/ ~s["dayOfWeek"].wildcard /\ Holds("dayOfWeek")
           \/ ~s["dayOfMonth"].wildcard /\ Holds("dayOfMonth")
  BY DEF Matches
<1>7. Fires(fields, t) <=>
        /\ k = 5 => t % SecondsPerMinute = 0
        /\ \A i \in 1 .. k \ {k - 2, k} : Fits(i)
        /\ {i \in {k - 2, k} : fields[i] # <<Star>>} # {} =>
             \E i \in {j \in {k - 2, k} : fields[j] # <<Star>>} : Fits(i)
  BY <1>1, <1>4 DEF Fires, Fitting, Spelt
<1> HIDE DEF k, specs, now, Holds, Fits
<1>8. (\A name \in DOMAIN s \ {"dayOfMonth", "dayOfWeek"} : Holds(name))
        <=> \A i \in 1 .. k \ {k - 2, k} : Fits(i)
  BY <1>1, <1>2, <1>3
<1>9. (\/ s["dayOfMonth"].wildcard /\ s["dayOfWeek"].wildcard
       \/ ~s["dayOfWeek"].wildcard /\ Holds("dayOfWeek")
       \/ ~s["dayOfMonth"].wildcard /\ Holds("dayOfMonth"))
        <=> ({i \in {k - 2, k} : fields[i] # <<Star>>} # {} =>
               \E i \in {j \in {k - 2, k} : fields[j] # <<Star>>} : Fits(i))
  <2>1. /\ s["dayOfMonth"].wildcard <=> fields[k - 2] = <<Star>>
        /\ s["dayOfWeek"].wildcard <=> fields[k] = <<Star>>
    BY <1>2, <1>5
  <2>2. (Holds("dayOfMonth") <=> Fits(k - 2)) /\ (Holds("dayOfWeek") <=> Fits(k))
    BY <1>2, <1>3
  <2>3. QED
    BY <2>1, <2>2
<1>10. QED
  BY <1>6, <1>7, <1>8, <1>9 DEF k

LEMMA SecondsOfSix ==
  ASSUME NEW s, NEW fields, ParsedFrom(s, fields)
  PROVE  HasSeconds(s) <=> Len(fields) = 6
<1>1. Len(fields) \in {5, 6} /\ DOMAIN s = {Specs(fields)[i].name : i \in 1 .. Len(fields)}
  BY DEF ParsedFrom
<1>2. \A i \in 1 .. Len(fields) : Specs(fields)[i].name = FieldNames[Place(fields, i)] /\ Place(fields, i) \in 1 .. 6
  BY <1>1, SpecsAre
<1>3. \A i \in 1 .. 6 : FieldNames[i] = "second" <=> i = 1
  BY DEF FieldNames
<1>4. \A i \in 1 .. Len(fields) : Place(fields, i) = 1 <=> i = 1 /\ Len(fields) = 6
  <2>1. CASE Len(fields) = 5
    BY <2>1 DEF Place
  <2>2. CASE Len(fields) = 6
    BY <2>2 DEF Place
  <2>3. QED
    BY <1>1, <2>1, <2>2
<1>5. \A i \in 1 .. Len(fields) : Specs(fields)[i].name = "second" <=> i = 1 /\ Len(fields) = 6
  BY <1>2, <1>3, <1>4
<1>6. HasSeconds(s) <=> \E i \in 1 .. Len(fields) : Specs(fields)[i].name = "second"
  BY <1>1 DEF HasSeconds
<1>7. Len(fields) = 6 => 1 \in 1 .. Len(fields)
  OBVIOUS
<1>8. QED
  BY <1>5, <1>6, <1>7

-------------------------------------------------------------------------------
(* The search *)

\* The nth instant the search looks at.
Cursor(s, first, n) == first + n * StepSeconds(s)

\* What Search asks for, in its first n turns.
SearchTable(f, s, first, count, n) ==
  f = [m \in 0 .. n |-> IF m = 0 THEN <<>> ELSE TakeTurn(f[m - 1], s, first + (m - 1) * StepSeconds(s), count)]

LEMMA LongerSearch ==
  ASSUME NEW s, NEW first, NEW count, NEW n \in Nat, n # 0, NEW f, SearchTable(f, s, first, count, n - 1)
  PROVE  \E g : SearchTable(g, s, first, count, n)
<1> DEFINE Turn(r, m) == TakeTurn(r, s, first + (m - 1) * StepSeconds(s), count)
<1>0. ASSUME NEW h, NEW k
      PROVE  SearchTable(h, s, first, count, k) <=> h = [m \in 0 .. k |-> IF m = 0 THEN <<>> ELSE Turn(h[m - 1], m)]
  BY DEF SearchTable
<1> HIDE DEF Turn
<1> DEFINE g == [m \in 0 .. n |-> IF m = n THEN Turn(f[n - 1], n) ELSE f[m]]
           h == [m \in 0 .. n |-> IF m = 0 THEN <<>> ELSE Turn(g[m - 1], m)]
<1>1. \A m \in 0 .. (n - 1) : f[m] = IF m = 0 THEN <<>> ELSE Turn(f[m - 1], m)
  BY <1>0
<1>2. ASSUME NEW m \in 0 .. n PROVE g[m] = h[m]
  <2>1. CASE m = n
    <3>1. n - 1 \in 0 .. n /\ n - 1 # n
      BY <2>1
    <3>2. g[n - 1] = f[n - 1]
      BY <3>1
    <3>3. QED
      BY <2>1, <3>2
  <2>2. CASE m # n /\ m = 0
    <3>1. m \in 0 .. (n - 1)
      BY <2>2
    <3>2. QED
      BY <1>1, <2>2, <3>1
  <2>3. CASE m # n /\ m # 0
    <3>1. m \in 0 .. (n - 1) /\ m - 1 \in 0 .. n /\ m - 1 # n
      BY <2>3
    <3>2. g[m - 1] = f[m - 1] /\ g[m] = f[m]
      BY <2>3, <3>1
    <3>3. f[m] = Turn(f[m - 1], m)
      BY <1>1, <2>3, <3>1
    <3>4. QED
      BY <2>3, <3>2, <3>3
  <2>4. QED
    BY <2>1, <2>2, <2>3
<1>3. g = h
  BY <1>2
<1>4. QED
  BY <1>0, <1>3

LEMMA SearchIsDefined ==
  ASSUME NEW s, NEW first, NEW count, MaxIterations(s) \in Nat
  PROVE  /\ Search(s, first, count)[0] = <<>>
         /\ \A n \in 1 .. MaxIterations(s) :
              Search(s, first, count)[n] =
                TakeTurn(Search(s, first, count)[n - 1], s, first + (n - 1) * StepSeconds(s), count)
<1> DEFINE T == {n \in Nat : ~\E f : SearchTable(f, s, first, count, n)}
           l == MaxIterations(s)
<1>1. \E f : SearchTable(f, s, first, count, l)
  <2>1. SUFFICES ASSUME T # {} PROVE FALSE
    OBVIOUS
  <2>2. PICK n \in T : \A m \in T : n <= m
    BY <2>1, LeastNumber
  <2>3. CASE n = 0
    <3> DEFINE f == [m \in 0 .. 0 |-> <<>>]
    <3>1. f = [m \in 0 .. 0 |-> IF m = 0 THEN <<>>
                                ELSE TakeTurn(f[m - 1], s, first + (m - 1) * StepSeconds(s), count)]
      OBVIOUS
    <3>2. SearchTable(f, s, first, count, 0)
      BY <3>1 DEF SearchTable
    <3>3. QED
      BY <2>2, <2>3, <3>2
  <2>4. CASE n # 0
    <3>1. n \in Nat /\ n - 1 \in Nat /\ n - 1 \notin T
      BY <2>2, <2>4
    <3>2. PICK f : SearchTable(f, s, first, count, n - 1)
      BY <3>1
    <3>3. QED
      BY <2>2, <2>4, <3>1, <3>2, LongerSearch
  <2>5. QED
    BY <2>3, <2>4
<1>2. Search(s, first, count) = CHOOSE f : SearchTable(f, s, first, count, l)
  BY DEF Search, SearchTable
<1>3. SearchTable(Search(s, first, count), s, first, count, l)
  BY <1>1, <1>2
<1> DEFINE R == Search(s, first, count)
           Turn(n) == TakeTurn(R[n - 1], s, first + (n - 1) * StepSeconds(s), count)
<1>4. \A n \in 0 .. l : R[n] = IF n = 0 THEN <<>> ELSE Turn(n)
  <2> HIDE DEF R
  <2>1. R = [n \in 0 .. l |-> IF n = 0 THEN <<>> ELSE Turn(n)]
    BY <1>3 DEF SearchTable, R
  <2> HIDE DEF Turn
  <2>2. QED
    BY <2>1
<1> HIDE DEF R, l, Turn
<1>5. l \in Nat /\ 0 \in 0 .. l /\ \A n \in 1 .. l : n \in 0 .. l /\ n # 0
  BY DEF l
<1>6. R[0] = <<>> /\ \A n \in 1 .. l : R[n] = Turn(n)
  BY <1>4, <1>5
<1>7. QED
  BY <1>6 DEF R, l, Turn

\* After n turns the results are the matches among the instants looked at, in
\* order, up to the one that filled the list.
Found(results, s, first, count, n) ==
  /\ results \in Seq(Nat) /\ Len(results) <= count
  /\ \A i \in 1 .. Len(results) :
       \E m \in 0 .. (n - 1) : results[i] = Cursor(s, first, m) /\ Matches(s, Cursor(s, first, m))
  /\ \A i, j \in 1 .. Len(results) : i < j => results[i] < results[j]
  /\ \A m \in 0 .. (n - 1) : Matches(s, Cursor(s, first, m)) =>
       \/ \E i \in 1 .. Len(results) : results[i] = Cursor(s, first, m)
       \/ Len(results) = count /\ results[count] < Cursor(s, first, m)

LEMMA CursorsInOrder ==
  ASSUME NEW s, NEW first \in Nat, StepSeconds(s) \in Nat \ {0}, NEW m \in Nat, NEW n \in Nat, m < n
  PROVE  /\ Cursor(s, first, m) \in Nat /\ Cursor(s, first, n) \in Nat
         /\ Cursor(s, first, m) + StepSeconds(s) <= Cursor(s, first, n)
<1> DEFINE step == StepSeconds(s)
<1> HIDE DEF step
<1>1. step \in Nat \ {0}
  BY DEF step
<1>2. m * step \in Nat /\ n * step \in Nat /\ m * step + step <= n * step
  BY <1>1, ProductsInOrder
<1>3. QED
  BY <1>1, <1>2 DEF Cursor, step

LEMMA TakeTurnFinds ==
  ASSUME NEW s, NEW first \in Nat, StepSeconds(s) \in Nat \ {0}, NEW count \in Nat \ {0},
         NEW n \in Nat, n # 0, NEW results, Found(results, s, first, count, n - 1)
  PROVE  Found(TakeTurn(results, s, Cursor(s, first, n - 1), count), s, first, count, n)
<1> DEFINE c == Cursor(s, first, n - 1)
           C(m) == Cursor(s, first, m)
           Hit(m) == Matches(s, C(m))
           l == Len(results)
           more == Append(results, c)
<1>1. n - 1 \in Nat /\ (n - 1) - 1 \in Int
  OBVIOUS
<1>2. \A m \in Nat : C(m) \in Nat
  <2>1. \A m \in Nat : m + 1 \in Nat /\ m < m + 1
    OBVIOUS
  <2>2. QED
    BY <2>1, CursorsInOrder
<1>3. \A m \in 0 .. ((n - 1) - 1) : C(m) < c
  <2>1. SUFFICES ASSUME NEW m \in 0 .. ((n - 1) - 1) PROVE C(m) < c
    OBVIOUS
  <2>2. m \in Nat /\ m < n - 1
    BY <1>1
  <2>3. C(m) \in Nat /\ c \in Nat /\ C(m) + StepSeconds(s) <= c
    BY <1>1, <2>2, CursorsInOrder
  <2>4. QED
    BY <2>3
<1>4. /\ results \in Seq(Nat) /\ l <= count
      /\ \A i \in 1 .. l : \E m \in 0 .. ((n - 1) - 1) : results[i] = C(m) /\ Hit(m)
      /\ \A i, j \in 1 .. l : i < j => results[i] < results[j]
      /\ \A m \in 0 .. ((n - 1) - 1) : Hit(m) =>
           \/ \E i \in 1 .. l : results[i] = C(m)
           \/ l = count /\ results[count] < C(m)
  BY DEF Found
<1>5. l \in Nat /\ c \in Nat /\ c = C(n - 1) /\ \A i \in 1 .. l : results[i] \in Nat
  <2>1. c = C(n - 1)
    OBVIOUS
  <2>2. c \in Nat
    BY <1>1, <1>2
  <2>3. l \in Nat /\ \A i \in 1 .. l : results[i] \in Nat
    BY <1>4
  <2>4. QED
    BY <2>1, <2>2, <2>3
<1>6. \A i \in 1 .. l : results[i] < c
  BY <1>3, <1>4
<1>7. Matches(s, c) <=> Hit(n - 1)
  OBVIOUS
<1>8. \A m \in 0 .. (n - 1) : m = n - 1 \/ m \in 0 .. ((n - 1) - 1)
  BY <1>1
<1>9. \A m \in 0 .. ((n - 1) - 1) : m \in 0 .. (n - 1)
  BY <1>1
<1> HIDE DEF c, C, Hit
<1>10. CASE l < count /\ Matches(s, c)
  <2>1. /\ more \in Seq(Nat) /\ Len(more) = l + 1 /\ more[l + 1] = c
        /\ \A i \in 1 .. l : more[i] = results[i]
    BY <1>4, <1>5, AppendedTo
  <2> HIDE DEF more, l
  <2>2. \A i \in 1 .. Len(more) : i = l + 1 \/ i \in 1 .. l
    BY <1>5, <2>1
  <2>3. \A i \in 1 .. l : i \in 1 .. Len(more)
    BY <1>5, <2>1
  <2>4. ASSUME NEW i \in 1 .. Len(more) PROVE \E m \in 0 .. (n - 1) : more[i] = C(m) /\ Hit(m)
    <3>1. CASE i = l + 1
      <4>1. n - 1 \in 0 .. (n - 1)
        BY <1>1
      <4>2. QED
        BY <1>5, <1>7, <1>10, <2>1, <3>1, <4>1
    <3>2. CASE i \in 1 .. l
      BY <1>4, <1>9, <2>1, <3>2
    <3>3. QED
      BY <2>2, <3>1, <3>2
  <2>5. ASSUME NEW i \in 1 .. Len(more), NEW j \in 1 .. Len(more), i < j PROVE more[i] < more[j]
    <3>1. CASE j = l + 1
      <4>1. i \in 1 .. l
        BY <1>5, <2>2, <2>5, <3>1
      <4>2. QED
        BY <1>6, <2>1, <3>1, <4>1
    <3>2. CASE j \in 1 .. l
      <4>1. i \in 1 .. l
        BY <1>5, <2>2, <2>5, <3>2
      <4>2. QED
        BY <1>4, <2>1, <2>5, <3>2, <4>1
    <3>3. QED
      BY <2>2, <3>1, <3>2
  <2>6. ASSUME NEW m \in 0 .. (n - 1), Hit(m) PROVE \E i \in 1 .. Len(more) : more[i] = C(m)
    <3>1. CASE m = n - 1
      <4>1. l + 1 \in 1 .. Len(more)
        BY <1>5, <2>1
      <4>2. QED
        BY <1>5, <2>1, <3>1, <4>1
    <3>2. CASE m \in 0 .. ((n - 1) - 1)
      <4>1. PICK i \in 1 .. l : results[i] = C(m)
        BY <1>4, <1>5, <1>10, <2>6, <3>2
      <4>2. QED
        BY <2>1, <2>3, <4>1
    <3>3. QED
      BY <1>8, <3>1, <3>2
  <2>7. Len(more) <= count
    BY <1>5, <1>10, <2>1
  <2>8. Found(more, s, first, count, n)
    BY <2>1, <2>4, <2>5, <2>6, <2>7 DEF Found, C, Hit
  <2>9. TakeTurn(results, s, c, count) = more
    BY <1>10 DEF TakeTurn, more, l
  <2>10. QED
    BY <2>8, <2>9 DEF c
<1>11. CASE ~(l < count /\ Matches(s, c))
  <2>1. ASSUME NEW i \in 1 .. l PROVE \E m \in 0 .. (n - 1) : results[i] = C(m) /\ Hit(m)
    BY <1>4, <1>9
  <2>2. ASSUME NEW m \in 0 .. (n - 1), Hit(m)
        PROVE  \/ \E i \in 1 .. l : results[i] = C(m)
               \/ l = count /\ results[count] < C(m)
    <3>1. CASE m = n - 1
      <4>1. l = count /\ count \in 1 .. l
        BY <1>4, <1>5, <1>7, <1>11, <2>2, <3>1
      <4>2. QED
        BY <1>5, <1>6, <3>1, <4>1
    <3>2. CASE m \in 0 .. ((n - 1) - 1)
      BY <1>4, <2>2, <3>2
    <3>3. QED
      BY <1>8, <3>1, <3>2
  <2>3. Found(results, s, first, count, n)
    BY <1>4, <2>1, <2>2 DEF Found, C, Hit
  <2>4. TakeTurn(results, s, c, count) = results
    BY <1>11 DEF TakeTurn
  <2>5. QED
    BY <2>3, <2>4 DEF c
<1>12. QED
  BY <1>10, <1>11

LEMMA SearchFinds ==
  ASSUME NEW s, NEW first \in Nat, StepSeconds(s) \in Nat \ {0}, MaxIterations(s) \in Nat,
         NEW count \in Nat \ {0}
  PROVE  Found(Search(s, first, count)[MaxIterations(s)], s, first, count, MaxIterations(s))
<1> DEFINE l == MaxIterations(s)
           R == Search(s, first, count)
           T == {n \in 0 .. l : ~Found(R[n], s, first, count, n)}
<1>1. l \in Nat
  OBVIOUS
<1>2. R[0] = <<>> /\ \A n \in 1 .. l : R[n] = TakeTurn(R[n - 1], s, Cursor(s, first, n - 1), count)
  BY SearchIsDefined DEF Cursor
<1> HIDE DEF R, l
<1>3. T = {}
  <2>1. SUFFICES ASSUME T # {} PROVE FALSE
    OBVIOUS
  <2>2. T \in SUBSET Nat
    BY <1>1
  <2>3. PICK n \in T : \A m \in T : n <= m
    BY <2>1, <2>2, LeastNumber
  <2>4. n # 0
    <3>1. Found(<<>>, s, first, count, 0)
      BY DEF Found
    <3>2. QED
      BY <1>2, <2>3, <3>1
  <2>5. n \in 1 .. l /\ n \in Nat /\ n - 1 \in 0 .. l /\ n - 1 \notin T
    BY <1>1, <2>3, <2>4
  <2>6. Found(R[n - 1], s, first, count, n - 1)
    BY <2>5
  <2>7. Found(R[n], s, first, count, n)
    BY <1>2, <2>4, <2>5, <2>6, TakeTurnFinds
  <2>8. QED
    BY <2>3, <2>7
<1>4. l \in 0 .. l
  BY <1>1
<1>5. QED
  BY <1>3, <1>4 DEF R, l

-------------------------------------------------------------------------------
(* The page *)

LEMMA StepsAreNumbers ==
  ASSUME NEW s
  PROVE  StepSeconds(s) \in Nat \ {0} /\ MaxIterations(s) \in Nat
BY CronAssumption DEF StepSeconds, MaxIterations

\* The search starts after the present, at most one step later, on a whole step.
LEMMA FirstCursorIsNext ==
  ASSUME NEW s, NEW t \in Nat
  PROVE  /\ FirstCursor(s, t) \in Nat /\ t < FirstCursor(s, t)
         /\ FirstCursor(s, t) <= t + StepSeconds(s)
         /\ FirstCursor(s, t) = (t \div StepSeconds(s) + 1) * StepSeconds(s)
         /\ t \div StepSeconds(s) \in Nat
<1> DEFINE step == StepSeconds(s)
           q == t \div step
<1>1. step \in Nat \ {0}
  BY StepsAreNumbers
<1>2. FirstCursor(s, t) = (q + 1) * step
  BY DEF FirstCursor
<1> HIDE DEF step
<1>3. q \in Nat /\ t % step \in 0 .. (step - 1) /\ t % step = t - step * q
  BY <1>1, Division
<1> HIDE DEF q
<1>4. (q + 1) * step = step * q + step /\ step * q \in Nat
  BY <1>1, <1>3
<1>5. QED
  BY <1>1, <1>2, <1>3, <1>4 DEF step, q

\* All that a search looks at, and all that is judged, is on the calendar.
LEMMA SearchIsOnCalendar ==
  ASSUME NEW s, NEW from \in Instants, NEW t \in Nat,
         t < FirstCursor(s, from) + MaxIterations(s) * StepSeconds(s)
  PROVE  OnCalendar(t)
<1> DEFINE step == StepSeconds(s)
           max == MaxIterations(s)
           limit == CalendarDays * DayLength
<1>1. from \in Nat /\ step \in Nat \ {0} /\ max \in Nat
  BY CronAssumption, StepsAreNumbers
<1>2. FirstCursor(s, from) \in Nat /\ FirstCursor(s, from) <= from + step
  BY <1>1, FirstCursorIsNext
<1>3. HourLength \in Nat /\ limit \in Nat
  <2>1. CalendarDays \in Nat
    BY CronAssumption
  <2>2. QED
    BY <2>1, ClockUnits
<1>4. from + (max + 1) * step + HourLength < limit
  <2>1. CASE HasSeconds(s)
    <3>1. step = 1 /\ max = SecondIterations
      BY <2>1 DEF StepSeconds, MaxIterations
    <3>2. (max + 1) * step = SecondIterations + 1
      BY <1>1, <3>1
    <3>3. QED
      BY <3>2, CronAssumption
  <2>2. CASE ~HasSeconds(s)
    <3>1. (max + 1) * step = (MinuteIterations + 1) * SecondsPerMinute
      BY <2>2 DEF StepSeconds, MaxIterations
    <3>2. QED
      BY <3>1, CronAssumption
  <2>3. QED
    BY <2>1, <2>2
<1>5. (max + 1) * step = max * step + step /\ max * step \in Nat
  BY <1>1
<1> HIDE DEF step, max, limit
<1>6. t + HourLength < limit
  BY <1>1, <1>2, <1>3, <1>4, <1>5 DEF step, max
<1>7. QED
  BY <1>6 DEF OnCalendar, limit

\* An instant at which an expression can fire is one the search looks at.
LEMMA DueIsACursor ==
  ASSUME NEW s, NEW from \in Nat, NEW t \in Nat, from < t,
         t < FirstCursor(s, from) + MaxIterations(s) * StepSeconds(s),
         t % StepSeconds(s) = 0
  PROVE  \E m \in 0 .. (MaxIterations(s) - 1) : t = Cursor(s, FirstCursor(s, from), m)
<1> DEFINE step == StepSeconds(s)
           max == MaxIterations(s)
           first == FirstCursor(s, from)
           p == from \div step
           q == t \div step
<1>1. step \in Nat \ {0} /\ max \in Nat
  BY StepsAreNumbers
<1>2. first \in Nat /\ first <= from + step /\ first = (p + 1) * step /\ p \in Nat
  BY FirstCursorIsNext
<1> HIDE DEF step, max, first
<1>3. from % step \in 0 .. (step - 1) /\ from % step = from - step * p
  BY <1>1, Division
<1>4. q \in Nat /\ t % step = t - step * q
  BY <1>1, Division
<1>5. step * p = p * step /\ step * q = q * step
  BY <1>1, <1>2, <1>4
<1> HIDE DEF p, q
<1>6. t = q * step
  <2>1. t % step = 0
    BY DEF step
  <2>2. q * step \in Nat
    BY <1>1, <1>4
  <2>3. QED
    BY <1>4, <1>5, <2>1, <2>2
<1>7. (p + 1) * step = p * step + step /\ p * step \in Nat
  BY <1>1, <1>2
<1>8. p < q
  <2>1. SUFFICES ASSUME q <= p PROVE FALSE
    BY <1>2, <1>4
  <2>2. q * step <= p * step
    <3>1. CASE q = p
      BY <1>7, <3>1
    <3>2. CASE q # p
      <4>1. q < p
        BY <1>2, <1>4, <2>1, <3>2
      <4>2. q * step + step <= p * step /\ q * step \in Nat
        BY <1>1, <1>2, <1>4, <4>1, ProductsInOrder
      <4>3. QED
        BY <1>1, <1>7, <4>2
    <3>3. QED
      BY <3>1, <3>2
  <2>3. p * step <= from
    BY <1>1, <1>3, <1>5, <1>7
  <2>4. QED
    BY <1>6, <1>7, <2>2, <2>3
<1> DEFINE m == q - (p + 1)
<1>9. m \in Nat /\ q = (p + 1) + m
  BY <1>2, <1>4, <1>8
<1> HIDE DEF m
<1>10. q * step = (p + 1) * step + m * step /\ m * step \in Nat
  BY <1>1, <1>2, <1>9
<1>11. t = first + m * step
  BY <1>2, <1>6, <1>10
<1>12. m < max
  <2>1. SUFFICES ASSUME max <= m PROVE FALSE
    BY <1>1, <1>9
  <2>2. max * step <= m * step
    <3>1. CASE max = m
      BY <1>10, <3>1
    <3>2. CASE max # m
      <4>1. max < m
        BY <1>1, <1>9, <2>1, <3>2
      <4>2. max * step + step <= m * step /\ max * step \in Nat
        BY <1>1, <1>9, <4>1, ProductsInOrder
      <4>3. QED
        BY <1>1, <1>10, <4>2
    <3>3. QED
      BY <3>1, <3>2
  <2>3. t < first + max * step
    BY DEF first, max, step
  <2>4. max * step \in Nat
    BY <1>1
  <2>5. QED
    BY <1>2, <1>10, <1>11, <2>2, <2>3, <2>4
<1>13. m \in 0 .. (max - 1)
  BY <1>1, <1>9, <1>12
<1>14. QED
  BY <1>11, <1>13 DEF Cursor, first, max, step

LEMMA CursorsAreDue ==
  ASSUME NEW s, NEW from \in Nat, NEW m \in 0 .. (MaxIterations(s) - 1)
  PROVE  LET t == Cursor(s, FirstCursor(s, from), m)
         IN /\ t \in Nat /\ from < t
            /\ t < FirstCursor(s, from) + MaxIterations(s) * StepSeconds(s)
            /\ t % StepSeconds(s) = 0
<1> DEFINE step == StepSeconds(s)
           max == MaxIterations(s)
           first == FirstCursor(s, from)
           p == from \div step
           t == Cursor(s, first, m)
<1>1. step \in Nat \ {0} /\ max \in Nat
  BY StepsAreNumbers
<1>2. first \in Nat /\ from < first /\ first = (p + 1) * step /\ p \in Nat
  BY FirstCursorIsNext
<1>3. m \in Nat /\ m < max
  BY <1>1
<1>4. t = first + m * step
  BY DEF Cursor
<1> HIDE DEF step, max, first, p, t
<1>5. m * step \in Nat /\ max * step \in Nat /\ m * step + step <= max * step
  BY <1>1, <1>3, ProductsInOrder
<1>6. t \in Nat /\ from < t /\ t < first + max * step
  BY <1>1, <1>2, <1>4, <1>5
<1>7. t = ((p + 1) + m) * step
  BY <1>1, <1>2, <1>3, <1>4
<1>8. t % step = 0
  <2>1. (p + 1) + m \in Nat
    BY <1>2, <1>3
  <2>2. QED
    BY <1>1, <1>7, <2>1, QuotientOfProduct
<1>9. QED
  BY <1>6, <1>8 DEF step, max, first, t

CronTypes == expression \in Expressions /\ asked \in Instants

LEMMA OccurrencesFound ==
  ASSUME CronTypes
  PROVE  OccurrencesAreTheNextOnes
<1> DEFINE s == ParseCron(expression)
           fields == Normalized(expression)
           first == FirstCursor(s, asked)
           max == MaxIterations(s)
           step == StepSeconds(s)
           listed == NextOccurrences(s, asked, Upcoming)
           end == first + max * step
           due == {t \in asked + 1 .. end - 1 : Fires(fields, t)}
<1>1. SUFFICES ASSUME Parsed(s)
               PROVE  /\ \A i \in DOMAIN listed : listed[i] \in due
                      /\ \A i, j \in DOMAIN listed : i < j => listed[i] < listed[j]
                      /\ \A t \in due : \/ \E i \in DOMAIN listed : listed[i] = t
                                        \/ Len(listed) = Upcoming /\ t > listed[Upcoming]
  BY DEF OccurrencesAreTheNextOnes
<1>2. asked \in Instants /\ asked \in Nat /\ Upcoming \in Nat \ {0}
  BY CronAssumption DEF CronTypes
<1>3. ParsedFrom(s, fields)
  <2>1. expression.fields \in Seq(Seq(Terms))
    BY CronAssumption DEF CronTypes
  <2>2. QED
    BY <1>1, <2>1, ParseCronParses
<1> HIDE DEF s, fields
<1>4. first \in Nat /\ step \in Nat \ {0} /\ max \in Nat /\ end \in Nat
  <2>1. first \in Nat /\ step \in Nat \ {0} /\ max \in Nat
    BY <1>2, StepsAreNumbers, FirstCursorIsNext
  <2> HIDE DEF first, step, max
  <2>2. QED
    BY <2>1
<1>5. Found(listed, s, first, Upcoming, max)
  BY <1>2, <1>4, SearchFinds DEF NextOccurrences
<1>6. ASSUME NEW t \in Nat, t < end
      PROVE  Fires(fields, t) <=> Matches(s, t) /\ t % step = 0
  <2>1. OnCalendar(t)
    BY <1>2, <1>6, SearchIsOnCalendar
  <2>2. Fires(fields, t) <=> Matches(s, t) /\ (Len(fields) = 5 => t % SecondsPerMinute = 0)
    BY <1>3, <2>1, MatchesWhereItFires
  <2>3. CASE HasSeconds(s)
    <3>1. step = 1 /\ Len(fields) = 6
      BY <1>3, <2>3, SecondsOfSix DEF StepSeconds
    <3>2. (t * 1) % 1 = 0 /\ t * 1 = t
      BY QuotientOfProduct
    <3>3. QED
      BY <2>2, <3>1, <3>2
  <2>4. CASE ~HasSeconds(s)
    <3>1. step = SecondsPerMinute /\ Len(fields) = 5
      BY <1>3, <2>4, SecondsOfSix DEF StepSeconds, ParsedFrom
    <3>2. QED
      BY <2>2, <3>1
  <2>5. QED
    BY <2>3, <2>4
<1>7. \A m \in 0 .. (max - 1) :
        /\ Cursor(s, first, m) \in Nat /\ asked < Cursor(s, first, m) /\ Cursor(s, first, m) < end
        /\ Cursor(s, first, m) % step = 0
  BY <1>2, CursorsAreDue
<1>8. ASSUME NEW t \in Nat, asked < t, t < end, t % step = 0
      PROVE  \E m \in 0 .. (max - 1) : t = Cursor(s, first, m)
  BY <1>2, <1>8, DueIsACursor
<1> HIDE DEF first, max, step, listed, end
<1>9. /\ listed \in Seq(Nat) /\ Len(listed) <= Upcoming
      /\ \A i \in 1 .. Len(listed) :
           \E m \in 0 .. (max - 1) : listed[i] = Cursor(s, first, m) /\ Matches(s, Cursor(s, first, m))
      /\ \A i, j \in 1 .. Len(listed) : i < j => listed[i] < listed[j]
      /\ \A m \in 0 .. (max - 1) : Matches(s, Cursor(s, first, m)) =>
           \/ \E i \in 1 .. Len(listed) : listed[i] = Cursor(s, first, m)
           \/ Len(listed) = Upcoming /\ listed[Upcoming] < Cursor(s, first, m)
  BY <1>5 DEF Found
<1>10. DOMAIN listed = 1 .. Len(listed)
  BY <1>9
<1>11. ASSUME NEW i \in 1 .. Len(listed) PROVE listed[i] \in due
  <2>1. PICK m \in 0 .. (max - 1) : listed[i] = Cursor(s, first, m) /\ Matches(s, Cursor(s, first, m))
    BY <1>9
  <2>2. listed[i] \in Nat /\ asked < listed[i] /\ listed[i] < end /\ listed[i] % step = 0
    BY <1>7, <2>1
  <2>3. Fires(fields, listed[i])
    BY <1>6, <2>1, <2>2
  <2>4. listed[i] \in asked + 1 .. end - 1
    BY <1>2, <1>4, <2>2
  <2>5. QED
    BY <2>3, <2>4
<1>12. ASSUME NEW t \in due
       PROVE  \/ \E i \in 1 .. Len(listed) : listed[i] = t
              \/ Len(listed) = Upcoming /\ t > listed[Upcoming]
  <2>1. t \in Nat /\ asked < t /\ t < end /\ Fires(fields, t)
    BY <1>2, <1>4
  <2>2. Matches(s, t) /\ t % step = 0
    BY <1>6, <2>1
  <2>3. PICK m \in 0 .. (max - 1) : t = Cursor(s, first, m)
    BY <1>8, <2>1, <2>2
  <2>4. \/ \E i \in 1 .. Len(listed) : listed[i] = t
        \/ Len(listed) = Upcoming /\ listed[Upcoming] < t
    BY <1>9, <2>2, <2>3
  <2>5. Len(listed) = Upcoming => listed[Upcoming] \in Nat
    BY <1>2, <1>9
  <2>6. QED
    BY <2>1, <2>4, <2>5
<1>13. QED
  BY <1>9, <1>10, <1>11, <1>12

\* Whatever is typed and whenever, on a clock with units of any length, a calendar
\* from any day and one change of the clock at any time: the occurrences listed are
\* the next ones, up to the end of the search.
THEOREM CronListsTheNextOccurrences ==
  CronInit /\ [][SetExpression]_cronVars => []OccurrencesAreTheNextOnes
<1>1. CronInit => CronTypes
  BY DEF CronInit, CronTypes
<1>2. CronTypes /\ [SetExpression]_cronVars => CronTypes'
  BY DEF CronTypes, SetExpression, cronVars
<1>3. CronTypes => OccurrencesAreTheNextOnes
  BY OccurrencesFound
<1>4. QED
  BY <1>1, <1>2, <1>3, PTL
-------------------------------------------------------------------------------
(* The diff: what the operators on numbers and sequences return *)

\* The smaller and the greater of two numbers.
LEMMA MinOfTwo ==
  ASSUME NEW m \in Int, NEW n \in Int
  PROVE  Min({m, n}) = IF m <= n THEN m ELSE n
<1> DEFINE l == IF m <= n THEN m ELSE n
<1>1. l \in {m, n} /\ \A y \in {m, n} : l <= y
  OBVIOUS
<1>2. \A x \in {m, n} : (\A y \in {m, n} : x <= y) => x = l
  OBVIOUS
<1>3. QED
  BY <1>1, <1>2 DEF Min

LEMMA MaxOfTwo ==
  ASSUME NEW m \in Int, NEW n \in Int
  PROVE  Max({m, n}) = IF m >= n THEN m ELSE n
<1> DEFINE l == IF m >= n THEN m ELSE n
<1>1. l \in {m, n} /\ \A y \in {m, n} : l >= y
  OBVIOUS
<1>2. \A x \in {m, n} : (\A y \in {m, n} : x >= y) => x = l
  OBVIOUS
<1>3. QED
  BY <1>1, <1>2 DEF Max

\* The least and the greatest member of a set of numbers belong to it.
LEMMA MinIsLeast ==
  ASSUME NEW T \in SUBSET Nat, T # {}
  PROVE  Min(T) \in T /\ \A y \in T : Min(T) <= y
BY LeastNumber DEF Min

LEMMA MaxIsGreatest ==
  ASSUME NEW T \in SUBSET Nat, T # {}, NEW bound \in Nat, \A y \in T : y <= bound
  PROVE  Max(T) \in T /\ \A y \in T : Max(T) >= y
<1> DEFINE U == {bound - y : y \in T}
<1>1. \A y \in T : bound - y \in Nat
  OBVIOUS
<1>2. U \in SUBSET Nat /\ U # {}
  BY <1>1
<1>3. PICK u \in U : \A w \in U : u <= w
  BY <1>2, LeastNumber
<1>4. PICK x \in T : u = bound - x
  BY <1>3
<1>5. \A y \in T : bound - x <= bound - y
  BY <1>3, <1>4
<1>6. x \in Nat /\ \A y \in T : y \in Nat
  OBVIOUS
<1>7. \A y \in T : x >= y
  BY <1>5, <1>6
<1>8. QED
  BY <1>4, <1>7 DEF Max

Kinds == {"equal", "insert", "delete"}

Counted(s, K, i) == IF s[i] \in K THEN 1 ELSE 0

\* How many of the first i changes are of a kind, one change at a time.
LEMMA PassedSteps ==
  ASSUME NEW s, s \in Seq(Kinds), NEW K
  PROVE  /\ Passed(s, K, 0) = 0
         /\ \A i \in 1 .. Len(s) : /\ Passed(s, K, i - 1) \in Nat
                                   /\ Passed(s, K, i) = Passed(s, K, i - 1) + Counted(s, K, i)
<1> DEFINE P(i) == {j \in 1 .. i : s[j] \in K}
<1>1. \A i \in Nat : IsFiniteSet(P(i)) /\ Cardinality(P(i)) \in Nat
  <2>1. TAKE i \in Nat
  <2>2. IsFiniteSet(1 .. i) /\ P(i) \subseteq 1 .. i
    BY FS_Interval
  <2>3. QED
    BY <2>2, FS_Subset, FS_CardinalityType
<1>2. P(0) = {}
  OBVIOUS
<1>3. Passed(s, K, 0) = 0
  BY <1>2, FS_EmptySet DEF Passed
<1>4. ASSUME NEW i \in 1 .. Len(s)
      PROVE  /\ Passed(s, K, i - 1) \in Nat
             /\ Passed(s, K, i) = Passed(s, K, i - 1) + Counted(s, K, i)
  <2>1. i - 1 \in Nat /\ Cardinality(P(i - 1)) \in Nat /\ IsFiniteSet(P(i - 1))
    BY <1>1
  <2>2. Passed(s, K, i - 1) = Cardinality(P(i - 1)) /\ Passed(s, K, i) = Cardinality(P(i))
    BY DEF Passed
  <2>3. CASE s[i] \in K
    <3>1. P(i) = P(i - 1) \cup {i} /\ i \notin P(i - 1)
      BY <2>3
    <3>2. Cardinality(P(i)) = Cardinality(P(i - 1)) + 1
      BY <2>1, <3>1, FS_AddElement
    <3>3. Counted(s, K, i) = 1
      BY <2>3 DEF Counted
    <3>4. QED
      BY <2>1, <2>2, <3>2, <3>3
  <2>4. CASE s[i] \notin K
    <3>1. P(i) = P(i - 1)
      BY <2>4
    <3>2. Counted(s, K, i) = 0
      BY <2>4 DEF Counted
    <3> HIDE DEF P
    <3>3. QED
      BY <2>1, <2>2, <3>1, <3>2
  <2>5. QED
    BY <2>3, <2>4
<1>5. QED
  BY <1>3, <1>4

\* How many changes have passed: a number that adds up and grows along a script,
\* and what it is in a run of one kind.
LEMMA PassedNumber ==
  ASSUME NEW s, s \in Seq(Kinds), NEW K, NEW i \in 0 .. Len(s)
  PROVE  Passed(s, K, i) \in 0 .. i
<1> DEFINE T == {h \in 0 .. Len(s) : Passed(s, K, h) \notin 0 .. h}
<1>1. SUFFICES ASSUME T # {} PROVE FALSE
  OBVIOUS
<1>2. T \in SUBSET Nat
  OBVIOUS
<1> HIDE DEF T
<1>21. PICK h \in T : \A j \in T : h <= j
  BY <1>1, <1>2, LeastNumber
<1> USE DEF T
<1>3. h # 0
  BY <1>21, PassedSteps
<1>4. h \in 1 .. Len(s) /\ h - 1 \in 0 .. Len(s) /\ h - 1 \notin T
  BY <1>21, <1>3
<1>5. Passed(s, K, h - 1) \in 0 .. h - 1
  BY <1>4
<1>6. Passed(s, K, h) = Passed(s, K, h - 1) + Counted(s, K, h)
  BY <1>4, PassedSteps
<1>7. Counted(s, K, h) \in {0, 1}
  BY DEF Counted
<1>8. Passed(s, K, h) \in 0 .. h
  BY <1>4, <1>5, <1>6, <1>7
<1>9. QED
  BY <1>21, <1>8

LEMMA PassedJoined ==
  ASSUME NEW s, s \in Seq(Kinds), NEW t, t \in Seq(Kinds), NEW K
  PROVE  /\ \A i \in 0 .. Len(s) : Passed(s \o t, K, i) = Passed(s, K, i)
         /\ \A i \in 0 .. Len(t) : Passed(s \o t, K, Len(s) + i) = Passed(s, K, Len(s)) + Passed(t, K, i)
<1> DEFINE u == s \o t
           l == Len(s)
<1>1. u \in Seq(Kinds) /\ l \in Nat /\ Len(t) \in Nat /\ Len(u) = l + Len(t)
  OBVIOUS
<1>2. (\A i \in 1 .. l : u[i] = s[i]) /\ (\A i \in 1 .. Len(t) : u[l + i] = t[i])
  OBVIOUS
<1> HIDE DEF u, l
<1>3. \A i \in 0 .. l : Passed(u, K, i) = Passed(s, K, i)
  <2>1. ASSUME NEW i \in 0 .. l
        PROVE  {j \in 1 .. i : u[j] \in K} = {j \in 1 .. i : s[j] \in K}
    <3>1. \A j \in 1 .. i : j \in 1 .. l
      BY <1>1
    <3>2. QED
      BY <1>2, <3>1
  <2>2. QED
    BY <2>1 DEF Passed
<1>4. \A i \in 0 .. Len(t) : Passed(u, K, l + i) = Passed(s, K, l) + Passed(t, K, i)
  <2> DEFINE Good(i) == Passed(u, K, l + i) = Passed(s, K, l) + Passed(t, K, i)
             T == {i \in 0 .. Len(t) : ~Good(i)}
  <2>1. SUFFICES ASSUME T # {} PROVE FALSE
    OBVIOUS
  <2>2. PICK i \in T : \A j \in T : i <= j
    <3>1. T \in SUBSET Nat
      BY <1>1
    <3>2. QED
      BY <2>1, <3>1, LeastNumber
  <2>3. Passed(s, K, l) \in Nat
    BY PassedNumber DEF l
  <2>4. i # 0
    <3>1. Good(0)
      BY <1>1, <1>3, <2>3, PassedSteps
    <3>2. QED
      BY <2>2, <3>1
  <2>5. i \in 1 .. Len(t) /\ i - 1 \in 0 .. Len(t) /\ Good(i - 1)
    BY <1>1, <2>2, <2>4
  <2>6. /\ Passed(t, K, i - 1) \in Nat
        /\ Passed(t, K, i) = Passed(t, K, i - 1) + Counted(t, K, i)
    BY <2>5, PassedSteps
  <2>7. l + i \in 1 .. Len(u) /\ (l + i) - 1 = l + (i - 1)
    BY <1>1, <2>5
  <2>8. Passed(u, K, l + i) = Passed(u, K, (l + i) - 1) + Counted(u, K, l + i)
    BY <1>1, <2>7, PassedSteps
  <2>9. Counted(u, K, l + i) = Counted(t, K, i) /\ Counted(t, K, i) \in {0, 1}
    BY <1>2, <2>5 DEF Counted
  <2>10. Passed(u, K, l + i) = Passed(u, K, l + (i - 1)) + Counted(t, K, i)
    BY <2>7, <2>8, <2>9
  <2>11. Passed(u, K, l + (i - 1)) = Passed(s, K, l) + Passed(t, K, i - 1)
    BY <2>5
  <2>12. Good(i)
    BY <2>3, <2>6, <2>9, <2>10, <2>11
  <2>13. QED
    BY <2>2, <2>12
<1>5. QED
  BY <1>3, <1>4 DEF u, l

LEMMA PassedGrows ==
  ASSUME NEW s, s \in Seq(Kinds), NEW K, NEW i \in 0 .. Len(s), NEW j \in i .. Len(s)
  PROVE  Passed(s, K, i) <= Passed(s, K, j)
<1> DEFINE T == {h \in i .. Len(s) : ~(Passed(s, K, i) <= Passed(s, K, h))}
<1>1. SUFFICES ASSUME T # {} PROVE FALSE
  OBVIOUS
<1>2. T \in SUBSET Nat
  OBVIOUS
<1> HIDE DEF T
<1>3. PICK h \in T : \A k \in T : h <= k
  BY <1>1, <1>2, LeastNumber
<1> USE DEF T
<1>4. \A k \in 0 .. Len(s) : Passed(s, K, k) \in Nat
  BY PassedNumber
<1>5. h # i /\ h \in 0 .. Len(s)
  BY <1>3, <1>4
<1>6. h \in 1 .. Len(s) /\ h - 1 \in i .. Len(s) /\ h - 1 \notin T
  BY <1>3, <1>5
<1>7. Passed(s, K, i) <= Passed(s, K, h - 1)
  BY <1>6
<1>8. Passed(s, K, h) = Passed(s, K, h - 1) + Counted(s, K, h) /\ Counted(s, K, h) \in {0, 1}
  <2>1. Counted(s, K, h) \in {0, 1}
    BY DEF Counted
  <2>2. h \in 1 .. Len(s)
    BY <1>6
  <2>3. QED
    BY <2>1, <2>2, PassedSteps
<1>9. Passed(s, K, i) \in Nat /\ Passed(s, K, h - 1) \in Nat
  BY <1>4, <1>6
<1>10. Passed(s, K, i) <= Passed(s, K, h)
  BY <1>7, <1>8, <1>9
<1>11. QED
  BY <1>3, <1>10

LEMMA PassedTimes ==
  ASSUME NEW n \in Nat, NEW kind \in Kinds, NEW K
  PROVE  /\ Times(n, kind) \in Seq(Kinds) /\ Len(Times(n, kind)) = n
         /\ \A i \in 1 .. n : Times(n, kind)[i] = kind
         /\ \A i \in 0 .. n : Passed(Times(n, kind), K, i) = IF kind \in K THEN i ELSE 0
<1>1. /\ Times(n, kind) \in Seq(Kinds) /\ Len(Times(n, kind)) = n
      /\ \A i \in 1 .. n : Times(n, kind)[i] = kind
  BY DEF Times
<1>2. ASSUME NEW i \in 0 .. n
      PROVE  Passed(Times(n, kind), K, i) = IF kind \in K THEN i ELSE 0
  <2> DEFINE P == {j \in 1 .. i : Times(n, kind)[j] \in K}
  <2>1. \A j \in 1 .. i : j \in 1 .. n
    OBVIOUS
  <2>2. P = IF kind \in K THEN 1 .. i ELSE {}
    BY <1>1, <2>1
  <2>3. Cardinality(1 .. i) = i /\ Cardinality({}) = 0
    BY FS_Interval, FS_EmptySet
  <2>4. QED
    BY <2>2, <2>3 DEF Passed
<1>3. QED
  BY <1>1, <1>2

-------------------------------------------------------------------------------
(* What a script does: it leads from (x, y) in a and b to (x2, y2) and keeps e. *)

OnLeft == {"equal", "delete"}
OnRight == {"equal", "insert"}
OnBoth == {"equal"}

\* Which sides a change of each kind is on.
LEMMA KindsDiffer ==
  /\ {"equal", "insert", "delete"} \subseteq Kinds
  /\ "equal" \in OnLeft /\ "delete" \in OnLeft /\ "insert" \notin OnLeft
  /\ "equal" \in OnRight /\ "insert" \in OnRight /\ "delete" \notin OnRight
  /\ \A kind \in Kinds : kind \in OnBoth <=> kind = "equal"
BY DEF Kinds, OnLeft, OnRight, OnBoth

Aligned(s, a, b, x, y, x2, y2, e) ==
  /\ s \in Seq(Kinds)
  /\ x + Passed(s, OnLeft, Len(s)) = x2 /\ y + Passed(s, OnRight, Len(s)) = y2
  /\ Passed(s, OnBoth, Len(s)) = e
  /\ \A i \in 1 .. Len(s) :
       s[i] = "equal" => a[x + Passed(s, OnLeft, i)] = b[y + Passed(s, OnRight, i)]

\* Scripts are joined end to end, and a run of one kind is a script.
LEMMA AlignedNothing ==
  ASSUME NEW a, NEW b, NEW x \in Int, NEW y \in Int
  PROVE  Aligned(<<>>, a, b, x, y, x, y, 0)
<1>1. <<>> \in Seq(Kinds) /\ Len(<<>>) = 0 /\ 1 .. 0 = {}
  OBVIOUS
<1>2. \A K : Passed(<<>>, K, 0) = 0
  BY <1>1, PassedSteps
<1>3. QED
  BY <1>1, <1>2 DEF Aligned

LEMMA AlignedJoined ==
  ASSUME NEW s, NEW t, NEW a, NEW b, NEW x \in Int, NEW y \in Int, NEW x1, NEW y1, NEW x2, NEW y2,
         NEW e, NEW f, Aligned(s, a, b, x, y, x1, y1, e), Aligned(t, a, b, x1, y1, x2, y2, f),
         NEW g, g = e + f
  PROVE  Aligned(s \o t, a, b, x, y, x2, y2, g)
<1> DEFINE u == s \o t
           l == Len(s)
<1>1. /\ s \in Seq(Kinds) /\ t \in Seq(Kinds) /\ u \in Seq(Kinds)
      /\ l \in Nat /\ Len(t) \in Nat /\ Len(u) = l + Len(t)
  BY DEF Aligned
<1>2. (\A i \in 1 .. l : u[i] = s[i]) /\ (\A i \in 1 .. Len(t) : u[l + i] = t[i])
  BY <1>1
<1>3. /\ \A K : \A i \in 0 .. l : Passed(u, K, i) = Passed(s, K, i)
      /\ \A K : \A i \in 0 .. Len(t) : Passed(u, K, l + i) = Passed(s, K, l) + Passed(t, K, i)
  <2>1. s \in Seq(Kinds) /\ t \in Seq(Kinds)
    BY <1>1
  <2> HIDE DEF u, l
  <2>2. ASSUME NEW K
        PROVE  /\ \A i \in 0 .. l : Passed(u, K, i) = Passed(s, K, i)
               /\ \A i \in 0 .. Len(t) : Passed(u, K, l + i) = Passed(s, K, l) + Passed(t, K, i)
    BY <2>1, PassedJoined DEF u, l
  <2>3. QED
    BY <2>2
<1>4. /\ \A K : \A i \in 0 .. l : Passed(s, K, i) \in Nat
      /\ \A K : \A i \in 0 .. Len(t) : Passed(t, K, i) \in Nat
  BY <1>1, PassedNumber
<1> HIDE DEF u, l
<1>5. l \in 0 .. l /\ Len(t) \in 0 .. Len(t)
  BY <1>1
<1>6. /\ x + Passed(s, OnLeft, l) = x1 /\ y + Passed(s, OnRight, l) = y1 /\ Passed(s, OnBoth, l) = e
      /\ x1 + Passed(t, OnLeft, Len(t)) = x2 /\ y1 + Passed(t, OnRight, Len(t)) = y2
      /\ Passed(t, OnBoth, Len(t)) = f
  BY DEF Aligned, l
<1>7. /\ x + Passed(u, OnLeft, Len(u)) = x2 /\ y + Passed(u, OnRight, Len(u)) = y2
      /\ Passed(u, OnBoth, Len(u)) = e + f
  <2>1. ASSUME NEW K
        PROVE  /\ Passed(u, K, Len(u)) = Passed(s, K, l) + Passed(t, K, Len(t))
               /\ Passed(s, K, l) \in Nat /\ Passed(t, K, Len(t)) \in Nat
    <3>1. Passed(u, K, l + Len(t)) = Passed(s, K, l) + Passed(t, K, Len(t))
      BY <1>3, <1>5
    <3>2. Passed(s, K, l) \in Nat /\ Passed(t, K, Len(t)) \in Nat
      BY <1>4, <1>5
    <3>3. QED
      BY <1>1, <3>1, <3>2
  <2>2. /\ Passed(u, OnLeft, Len(u)) = Passed(s, OnLeft, l) + Passed(t, OnLeft, Len(t))
        /\ Passed(s, OnLeft, l) \in Nat /\ Passed(t, OnLeft, Len(t)) \in Nat
    BY <2>1
  <2>3. /\ Passed(u, OnRight, Len(u)) = Passed(s, OnRight, l) + Passed(t, OnRight, Len(t))
        /\ Passed(s, OnRight, l) \in Nat /\ Passed(t, OnRight, Len(t)) \in Nat
    BY <2>1
  <2>4. Passed(u, OnBoth, Len(u)) = Passed(s, OnBoth, l) + Passed(t, OnBoth, Len(t))
    BY <2>1
  <2>5. QED
    BY <1>6, <2>2, <2>3, <2>4
<1>8. ASSUME NEW i \in 1 .. Len(u), u[i] = "equal"
      PROVE  a[x + Passed(u, OnLeft, i)] = b[y + Passed(u, OnRight, i)]
  <2>1. CASE i <= l
    <3>1. i \in 1 .. l /\ i \in 0 .. l
      BY <1>1, <2>1
    <3>2. s[i] = "equal"
      BY <1>2, <1>8, <3>1
    <3>3. a[x + Passed(s, OnLeft, i)] = b[y + Passed(s, OnRight, i)]
      BY <3>1, <3>2 DEF Aligned, l
    <3>4. QED
      BY <1>3, <3>1, <3>3
  <2>2. CASE ~(i <= l)
    <3> DEFINE j == i - l
    <3>1. j \in 1 .. Len(t) /\ j \in 0 .. Len(t) /\ i = l + j
      BY <1>1, <2>2
    <3> HIDE DEF j
    <3>2. t[j] = "equal"
      BY <1>2, <1>8, <3>1
    <3>3. a[x1 + Passed(t, OnLeft, j)] = b[y1 + Passed(t, OnRight, j)]
      BY <3>1, <3>2 DEF Aligned
    <3>4. /\ x + Passed(u, OnLeft, i) = x1 + Passed(t, OnLeft, j)
          /\ y + Passed(u, OnRight, i) = y1 + Passed(t, OnRight, j)
      BY <1>3, <1>4, <1>5, <1>6, <3>1
    <3>5. QED
      BY <3>3, <3>4
  <2>3. QED
    BY <2>1, <2>2
<1>9. Aligned(u, a, b, x, y, x2, y2, g)
  BY <1>1, <1>7, <1>8 DEF Aligned
<1>10. QED
  BY <1>9 DEF u

LEMMA AlignedInsert ==
  ASSUME NEW a, NEW b, NEW x \in Int, NEW y \in Int, NEW n \in Nat, NEW y2, y2 = y + n
  PROVE  Aligned(Times(n, "insert"), a, b, x, y, x, y2, 0)
<1>1. "insert" \in Kinds /\ n \in 0 .. n
  BY KindsDiffer
<1>2. /\ Times(n, "insert") \in Seq(Kinds) /\ Len(Times(n, "insert")) = n
      /\ \A i \in 1 .. n : Times(n, "insert")[i] = "insert"
  BY <1>1, PassedTimes
<1>3. /\ Passed(Times(n, "insert"), OnLeft, n) = 0 /\ Passed(Times(n, "insert"), OnRight, n) = n
      /\ Passed(Times(n, "insert"), OnBoth, n) = 0
  BY <1>1, PassedTimes, KindsDiffer
<1>4. QED
  BY <1>2, <1>3 DEF Aligned

LEMMA AlignedDelete ==
  ASSUME NEW a, NEW b, NEW x \in Int, NEW y \in Int, NEW n \in Nat, NEW x2, x2 = x + n
  PROVE  Aligned(Times(n, "delete"), a, b, x, y, x2, y, 0)
<1>1. "delete" \in Kinds /\ n \in 0 .. n
  BY KindsDiffer
<1>2. /\ Times(n, "delete") \in Seq(Kinds) /\ Len(Times(n, "delete")) = n
      /\ \A i \in 1 .. n : Times(n, "delete")[i] = "delete"
  BY <1>1, PassedTimes
<1>3. /\ Passed(Times(n, "delete"), OnLeft, n) = n /\ Passed(Times(n, "delete"), OnRight, n) = 0
      /\ Passed(Times(n, "delete"), OnBoth, n) = 0
  BY <1>1, PassedTimes, KindsDiffer
<1>4. QED
  BY <1>2, <1>3 DEF Aligned

SameItems(a, b, x, y, n) == \A i \in 1 .. n : a[x + i] = b[y + i]

LEMMA AlignedEqual ==
  ASSUME NEW a, NEW b, NEW x \in Int, NEW y \in Int, NEW n \in Nat, SameItems(a, b, x, y, n),
         NEW x2, x2 = x + n, NEW y2, y2 = y + n
  PROVE  Aligned(Times(n, "equal"), a, b, x, y, x2, y2, n)
<1>1. "equal" \in Kinds /\ n \in 0 .. n /\ \A i \in 1 .. n : i \in 0 .. n
  BY KindsDiffer
<1>2. Times(n, "equal") \in Seq(Kinds) /\ Len(Times(n, "equal")) = n
  BY <1>1, PassedTimes
<1>3. \A i \in 0 .. n : /\ Passed(Times(n, "equal"), OnLeft, i) = i
                        /\ Passed(Times(n, "equal"), OnRight, i) = i
                        /\ Passed(Times(n, "equal"), OnBoth, i) = i
  BY <1>1, PassedTimes, KindsDiffer
<1>4. QED
  BY <1>1, <1>2, <1>3 DEF Aligned, SameItems

\* A script for parts of a and b does the same to the whole.
LEMMA AlignedWithin ==
  ASSUME NEW s, NEW a, NEW b, NEW c, NEW d, NEW p \in Nat, NEW q \in Nat, NEW n \in Nat, NEW m \in Nat, NEW e,
         \A i \in 1 .. n : c[i] = a[p + i], \A i \in 1 .. m : d[i] = b[q + i],
         Aligned(s, c, d, 0, 0, n, m, e)
  PROVE  Aligned(s, a, b, p, q, p + n, q + m, e)
<1>1. s \in Seq(Kinds) /\ Len(s) \in Nat
  BY DEF Aligned
<1>2. \A K : \A i \in 0 .. Len(s) : Passed(s, K, i) \in Nat /\ Passed(s, K, i) <= Passed(s, K, Len(s))
  BY <1>1, PassedNumber, PassedGrows
<1>3. Passed(s, OnLeft, Len(s)) = n /\ Passed(s, OnRight, Len(s)) = m /\ Passed(s, OnBoth, Len(s)) = e
  BY <1>1, <1>2 DEF Aligned
<1>4. ASSUME NEW i \in 1 .. Len(s), s[i] = "equal"
      PROVE  a[p + Passed(s, OnLeft, i)] = b[q + Passed(s, OnRight, i)]
  <2> DEFINE l == Passed(s, OnLeft, i)
             r == Passed(s, OnRight, i)
  <2>1. i - 1 \in 0 .. Len(s) /\ i \in 0 .. Len(s)
    BY <1>1
  <2>2. l = Passed(s, OnLeft, i - 1) + 1 /\ r = Passed(s, OnRight, i - 1) + 1
    <3>1. Counted(s, OnLeft, i) = 1 /\ Counted(s, OnRight, i) = 1
      BY <1>4, KindsDiffer DEF Counted
    <3>2. \A K : Passed(s, K, i) = Passed(s, K, i - 1) + Counted(s, K, i)
      BY <1>1, PassedSteps
    <3>3. QED
      BY <3>1, <3>2
  <2>3. l <= n /\ r <= m /\ Passed(s, OnLeft, i - 1) \in Nat /\ Passed(s, OnRight, i - 1) \in Nat
    BY <1>2, <1>3, <2>1
  <2>4. c[0 + l] = d[0 + r]
    BY <1>4 DEF Aligned
  <2> HIDE DEF l, r
  <2>5. l \in 1 .. n /\ r \in 1 .. m
    BY <2>2, <2>3
  <2>6. c[l] = d[r]
    BY <2>4, <2>5
  <2>7. a[p + l] = b[q + r]
    BY <2>5, <2>6
  <2>8. QED
    BY <2>7 DEF l, r
<1>5. QED
  BY <1>1, <1>3, <1>4 DEF Aligned

-------------------------------------------------------------------------------
(* The longest common subsequence *)

LongestHere(f, a, b, p) ==
  LET i == p[1] j == p[2]
  IN IF i = 0 \/ j = 0 THEN 0
     ELSE IF a[i] = b[j] THEN f[<<i - 1, j - 1>>] + 1
     ELSE Max({f[<<i - 1, j>>], f[<<i, j - 1>>]})

Corner(a, b, n) == {p \in (0 .. Len(a)) \X (0 .. Len(b)) : p[1] + p[2] <= n}

\* What Longest asks for, near the beginnings of a and b.
LongestTable(f, a, b, n) == f = [p \in Corner(a, b, n) |-> LongestHere(f, a, b, p)]

\* The recursion of Longest defines a function, entry by entry.
LEMMA LongerLongest ==
  ASSUME NEW a, NEW b, Len(a) \in Nat, Len(b) \in Nat, NEW n \in Nat \ {0}, NEW f, LongestTable(f, a, b, n - 1)
  PROVE  \E g : LongestTable(g, a, b, n)
<1> DEFINE g == [p \in Corner(a, b, n) |-> LongestHere(f, a, b, p)]
<1>1. \A p \in Corner(a, b, n - 1) : p \in Corner(a, b, n) /\ f[p] = LongestHere(f, a, b, p)
  <2>1. \A p \in Corner(a, b, n - 1) : p \in Corner(a, b, n)
    BY DEF Corner
  <2>2. QED
    BY <2>1 DEF LongestTable
<1>2. \A p \in Corner(a, b, n - 1) : g[p] = f[p]
  BY <1>1
<1> HIDE DEF g
<1>3. ASSUME NEW p \in Corner(a, b, n)
      PROVE  LongestHere(f, a, b, p) = LongestHere(g, a, b, p)
  <2> DEFINE i == p[1]
             j == p[2]
  <2>1. i \in 0 .. Len(a) /\ j \in 0 .. Len(b) /\ i + j <= n
    BY DEF Corner
  <2> HIDE DEF i, j
  <2>2. CASE i = 0 \/ j = 0
    BY <2>2 DEF LongestHere, i, j
  <2>3. CASE i # 0 /\ j # 0
    <3>1. /\ <<i - 1, j - 1>> \in Corner(a, b, n - 1) /\ <<i - 1, j>> \in Corner(a, b, n - 1)
          /\ <<i, j - 1>> \in Corner(a, b, n - 1)
      BY <2>1, <2>3 DEF Corner
    <3>2. /\ f[<<i - 1, j - 1>>] = g[<<i - 1, j - 1>>] /\ f[<<i - 1, j>>] = g[<<i - 1, j>>]
          /\ f[<<i, j - 1>>] = g[<<i, j - 1>>]
      BY <1>2, <3>1
    <3>3. QED
      BY <3>2 DEF LongestHere, i, j
  <2>4. QED
    BY <2>2, <2>3
<1>4. g = [p \in Corner(a, b, n) |-> LongestHere(g, a, b, p)]
  BY <1>3 DEF g
<1>5. QED
  BY <1>4 DEF LongestTable

\* Longest satisfies its equations for sequences of any length.
LEMMA LongestIsDefined ==
  ASSUME NEW a, NEW b, Len(a) \in Nat, Len(b) \in Nat
  PROVE  LongestTable(Longest(a, b), a, b, Len(a) + Len(b))
<1> DEFINE S == {m \in Nat : ~\E f : LongestTable(f, a, b, m)}
<1>1. \E f : LongestTable(f, a, b, Len(a) + Len(b))
  <2>1. SUFFICES ASSUME S # {} PROVE FALSE
    OBVIOUS
  <2>2. PICK m \in S : \A h \in S : m <= h
    BY <2>1, LeastNumber
  <2>3. CASE m = 0
    <3> DEFINE f == [p \in Corner(a, b, 0) |-> 0]
    <3>1. \A p \in Corner(a, b, 0) : p[1] = 0
      BY DEF Corner
    <3>2. f = [p \in Corner(a, b, 0) |-> LongestHere(f, a, b, p)]
      BY <3>1 DEF LongestHere
    <3>3. LongestTable(f, a, b, 0)
      BY <3>2 DEF LongestTable
    <3>4. QED
      BY <2>2, <2>3, <3>3
  <2>4. CASE m # 0
    <3>1. m \in Nat \ {0} /\ m - 1 \in Nat /\ m - 1 \notin S
      BY <2>2, <2>4
    <3>2. PICK f : LongestTable(f, a, b, m - 1)
      BY <3>1
    <3>3. QED
      BY <2>2, <3>1, <3>2, LongerLongest
  <2>5. QED
    BY <2>3, <2>4
<1>2. Corner(a, b, Len(a) + Len(b)) = (0 .. Len(a)) \X (0 .. Len(b))
  BY DEF Corner
<1>3. Longest(a, b) = CHOOSE f : LongestTable(f, a, b, Len(a) + Len(b))
  BY <1>2 DEF Longest, LongestTable, LongestHere
<1>4. QED
  BY <1>1, <1>3

Common(a, b, i, j) == Longest(a, b)[<<i, j>>]

\* The recursion, case by case.
LEMMA LongestUnfolds ==
  ASSUME NEW a, NEW b, Len(a) \in Nat, Len(b) \in Nat, NEW i \in 0 .. Len(a), NEW j \in 0 .. Len(b)
  PROVE  /\ i = 0 \/ j = 0 => Common(a, b, i, j) = 0
         /\ i # 0 /\ j # 0 /\ a[i] = b[j] => Common(a, b, i, j) = Common(a, b, i - 1, j - 1) + 1
         /\ i # 0 /\ j # 0 /\ a[i] # b[j] =>
              Common(a, b, i, j) = Max({Common(a, b, i - 1, j), Common(a, b, i, j - 1)})
<1>1. <<i, j>> \in Corner(a, b, Len(a) + Len(b))
  BY DEF Corner
<1>2. Longest(a, b)[<<i, j>>] = LongestHere(Longest(a, b), a, b, <<i, j>>)
  BY <1>1, LongestIsDefined DEF LongestTable
<1>3. QED
  BY <1>2 DEF LongestHere, Common

\* What two beginnings have in common is no longer than either.
LEMMA LongestIsNumber ==
  ASSUME NEW a, NEW b, Len(a) \in Nat, Len(b) \in Nat, NEW x \in 0 .. Len(a), NEW y \in 0 .. Len(b)
  PROVE  Common(a, b, x, y) \in Nat /\ Common(a, b, x, y) <= x /\ Common(a, b, x, y) <= y
<1> DEFINE L(i, j) == Common(a, b, i, j)
           Good(i, j) == L(i, j) \in Nat /\ L(i, j) <= i /\ L(i, j) <= j
           T == {n \in Nat : \E i \in 0 .. Len(a), j \in 0 .. Len(b) : i + j = n /\ ~Good(i, j)}
<1>1. \A i \in 0 .. Len(a), j \in 0 .. Len(b) :
        /\ i = 0 \/ j = 0 => L(i, j) = 0
        /\ i # 0 /\ j # 0 /\ a[i] = b[j] => L(i, j) = L(i - 1, j - 1) + 1
        /\ i # 0 /\ j # 0 /\ a[i] # b[j] => L(i, j) = Max({L(i - 1, j), L(i, j - 1)})
  BY LongestUnfolds
<1>2. T \in SUBSET Nat /\ \A h \in 0 .. Len(a), k \in 0 .. Len(b) : h + k \in Nat /\ (~Good(h, k) => h + k \in T)
  OBVIOUS
<1> HIDE DEF L
<1>3. ASSUME T # {} PROVE FALSE
  <2> HIDE DEF T
  <2>1. PICK n \in T : \A m \in T : n <= m
    BY <1>2, <1>3, LeastNumber
  <2>2. PICK i \in 0 .. Len(a), j \in 0 .. Len(b) : i + j = n /\ ~Good(i, j)
    BY <2>1 DEF T
  <2>3. i # 0 /\ j # 0
    <3>1. i = 0 \/ j = 0 => Good(i, j)
      <4>1. i = 0 \/ j = 0 => L(i, j) = 0
        BY <1>1
      <4>2. i \in Nat /\ j \in Nat
        BY <2>2
      <4>3. QED
        BY <4>1, <4>2
    <3>2. QED
      BY <2>2, <3>1
  <2>4. ASSUME NEW h \in 0 .. Len(a), NEW k \in 0 .. Len(b), h + k < n
        PROVE  Good(h, k)
    <3> HIDE DEF Good
    <3>1. n \in Nat
      BY <1>2
    <3>2. QED
      BY <1>2, <2>1, <2>4, <3>1
  <2>5. i - 1 \in 0 .. Len(a) /\ j - 1 \in 0 .. Len(b) /\ (i - 1) + (j - 1) < n /\ (i - 1) + j < n /\ i + (j - 1) < n
    BY <2>2, <2>3
  <2>6. Good(i - 1, j - 1) /\ Good(i - 1, j) /\ Good(i, j - 1)
    BY <2>4, <2>5
  <2>7. CASE a[i] = b[j]
    <3>1. L(i, j) = L(i - 1, j - 1) + 1
      BY <1>1, <2>3, <2>7
    <3>2. Good(i, j)
      BY <2>6, <3>1
    <3>3. QED
      BY <2>2, <3>2
  <2>8. CASE a[i] # b[j]
    <3>1. L(i, j) = Max({L(i - 1, j), L(i, j - 1)})
      BY <1>1, <2>3, <2>8
    <3>2. L(i, j) = IF L(i - 1, j) >= L(i, j - 1) THEN L(i - 1, j) ELSE L(i, j - 1)
      BY <2>6, <3>1, MaxOfTwo
    <3>3. Good(i, j)
      BY <2>6, <3>2
    <3>4. QED
      BY <2>2, <3>3
  <2>9. QED
    BY <2>7, <2>8
<1>4. Good(x, y)
  <2> HIDE DEF T, Good
  <2>1. QED
    BY <1>2, <1>3
<1>5. QED
  BY <1>4 DEF L

\* With one element more there is at most one more in common, and not less.
LEMMA LongestGrows ==
  ASSUME NEW a, NEW b, Len(a) \in Nat, Len(b) \in Nat, NEW x \in 0 .. Len(a), NEW y \in 0 .. Len(b)
  PROVE  /\ x > 0 => /\ Common(a, b, x - 1, y) <= Common(a, b, x, y)
                     /\ Common(a, b, x, y) <= Common(a, b, x - 1, y) + 1
         /\ y > 0 => /\ Common(a, b, x, y - 1) <= Common(a, b, x, y)
                     /\ Common(a, b, x, y) <= Common(a, b, x, y - 1) + 1
<1> DEFINE L(i, j) == Common(a, b, i, j)
           Good(i, j) == /\ i > 0 => L(i - 1, j) <= L(i, j) /\ L(i, j) <= L(i - 1, j) + 1
                         /\ j > 0 => L(i, j - 1) <= L(i, j) /\ L(i, j) <= L(i, j - 1) + 1
           T == {n \in Nat : \E i \in 0 .. Len(a), j \in 0 .. Len(b) : i + j = n /\ ~Good(i, j)}
<1>0. \A i \in 0 .. Len(a), j \in 0 .. Len(b) : L(i, j) \in Nat
  BY LongestIsNumber
<1>1. \A i \in 0 .. Len(a), j \in 0 .. Len(b) :
        /\ i = 0 \/ j = 0 => L(i, j) = 0
        /\ i # 0 /\ j # 0 /\ a[i] = b[j] => L(i, j) = L(i - 1, j - 1) + 1
        /\ i # 0 /\ j # 0 /\ a[i] # b[j] => L(i, j) = Max({L(i - 1, j), L(i, j - 1)})
  BY LongestUnfolds
<1>2. T \in SUBSET Nat /\ \A h \in 0 .. Len(a), k \in 0 .. Len(b) : h + k \in Nat /\ (~Good(h, k) => h + k \in T)
  OBVIOUS
<1> HIDE DEF L
<1>3. ASSUME T # {} PROVE FALSE
  <2> HIDE DEF T
  <2>1. PICK n \in T : \A m \in T : n <= m
    BY <1>2, <1>3, LeastNumber
  <2>2. PICK i \in 0 .. Len(a), j \in 0 .. Len(b) : i + j = n /\ ~Good(i, j)
    BY <2>1 DEF T
  <2>3. ASSUME NEW h \in 0 .. Len(a), NEW k \in 0 .. Len(b), h + k < n
        PROVE  Good(h, k)
    <3> HIDE DEF Good
    <3>1. n \in Nat
      BY <1>2
    <3>2. QED
      BY <1>2, <2>1, <2>3, <3>1
  <2>4. CASE i = 0 \/ j = 0
    <3>1. /\ i > 0 => i - 1 \in 0 .. Len(a) /\ j = 0
          /\ j > 0 => j - 1 \in 0 .. Len(b) /\ i = 0
      BY <2>4
    <3>2. /\ L(i, j) = 0
          /\ i > 0 => L(i - 1, j) = 0
          /\ j > 0 => L(i, j - 1) = 0
      BY <1>1, <2>4, <3>1
    <3>3. Good(i, j)
      BY <3>2
    <3>4. QED
      BY <2>2, <3>3
  <2>5. CASE i # 0 /\ j # 0
    <3>1. i - 1 \in 0 .. Len(a) /\ j - 1 \in 0 .. Len(b) /\ (i - 1) + j < n /\ i + (j - 1) < n /\ i > 0 /\ j > 0
      BY <2>2, <2>5
    <3>2. /\ L(i - 1, j - 1) <= L(i - 1, j) /\ L(i - 1, j) <= L(i - 1, j - 1) + 1
          /\ L(i - 1, j - 1) <= L(i, j - 1) /\ L(i, j - 1) <= L(i - 1, j - 1) + 1
      <4>1. Good(i - 1, j) /\ Good(i, j - 1)
        BY <2>3, <3>1
      <4>2. QED
        BY <3>1, <4>1
    <3>3. /\ L(i, j) \in Nat /\ L(i - 1, j) \in Nat /\ L(i, j - 1) \in Nat /\ L(i - 1, j - 1) \in Nat
      BY <1>0, <3>1
    <3>4. CASE a[i] = b[j]
      <4>1. L(i, j) = L(i - 1, j - 1) + 1
        BY <1>1, <2>5, <3>4
      <4>2. Good(i, j)
        BY <3>2, <3>3, <4>1
      <4>3. QED
        BY <2>2, <4>2
    <3>5. CASE a[i] # b[j]
      <4>1. L(i, j) = Max({L(i - 1, j), L(i, j - 1)})
        BY <1>1, <2>5, <3>5
      <4>2. L(i, j) = IF L(i - 1, j) >= L(i, j - 1) THEN L(i - 1, j) ELSE L(i, j - 1)
        BY <3>3, <4>1, MaxOfTwo
      <4>3. Good(i, j)
        BY <3>2, <3>3, <4>2
      <4>4. QED
        BY <2>2, <4>3
    <3>6. QED
      BY <3>4, <3>5
  <2>6. QED
    BY <2>4, <2>5
<1>4. Good(x, y)
  <2> HIDE DEF T, Good
  <2>1. QED
    BY <1>2, <1>3
<1>5. QED
  BY <1>4 DEF L

-------------------------------------------------------------------------------
(* The search: its runs, its diagonals and what each step leaves *)

\* A run is the longest match from where it starts.
LEMMA RunIs ==
  ASSUME NEW a, NEW b, Len(a) \in Nat, Len(b) \in Nat, NEW x \in Nat, NEW y \in Nat
  PROVE  /\ Run(a, b, x, y) \in Nat
         /\ Run(a, b, x, y) > 0 => x + Run(a, b, x, y) <= Len(a) /\ y + Run(a, b, x, y) <= Len(b)
         /\ SameItems(a, b, x, y, Run(a, b, x, y))
         /\ x + Run(a, b, x, y) < Len(a) /\ y + Run(a, b, x, y) < Len(b) =>
              a[x + Run(a, b, x, y) + 1] # b[y + Run(a, b, x, y) + 1]
<1> DEFINE room == Min({Len(a) - x, Len(b) - y})
           T == {0} \cup {n \in 1 .. room : \A i \in 1 .. n : a[x + i] = b[y + i]}
           r == Run(a, b, x, y)
<1>1. room \in Int /\ room <= Len(a) - x /\ room <= Len(b) - y /\ (room = Len(a) - x \/ room = Len(b) - y)
  <2>1. room = IF Len(a) - x <= Len(b) - y THEN Len(a) - x ELSE Len(b) - y
    BY MinOfTwo
  <2>2. QED
    BY <2>1
<1>2. r = Max(T)
  BY DEF Run
<1> HIDE DEF room
<1>3. T \in SUBSET Nat /\ T # {} /\ \A n \in T : n <= Len(a)
  BY <1>1
<1>4. r \in T /\ \A n \in T : r >= n
  BY <1>2, <1>3, MaxIsGreatest
<1> HIDE DEF r
<1>5. r \in Nat /\ (r > 0 => r <= room) /\ \A i \in 1 .. r : a[x + i] = b[y + i]
  <2>1. CASE r = 0
    BY <2>1
  <2>2. CASE r \in {n \in 1 .. room : \A i \in 1 .. n : a[x + i] = b[y + i]}
    <3>1. r \in 1 .. room /\ \A i \in 1 .. r : a[x + i] = b[y + i]
      BY <2>2
    <3>2. r \in Nat /\ r <= room
      BY <1>1, <3>1
    <3>3. QED
      BY <3>1, <3>2
  <2>3. QED
    BY <1>4, <2>1, <2>2
<1>6. r > 0 => x + r <= Len(a) /\ y + r <= Len(b)
  BY <1>1, <1>5
<1>7. ASSUME x + r < Len(a), y + r < Len(b), a[x + r + 1] = b[y + r + 1]
      PROVE  FALSE
  <2>1. r + 1 \in 1 .. room
    BY <1>1, <1>5, <1>7
  <2>2. ASSUME NEW i \in 1 .. r + 1 PROVE a[x + i] = b[y + i]
    <3>1. CASE i = r + 1
      BY <1>5, <1>7, <3>1
    <3>2. CASE i # r + 1
      <4>1. i \in 1 .. r
        BY <1>5, <3>2
      <4>2. QED
        BY <1>5, <4>1
    <3>3. QED
      BY <3>1, <3>2
  <2>3. r + 1 \in T
    BY <2>1, <2>2
  <2>4. QED
    BY <1>4, <1>5, <2>3
<1>8. SameItems(a, b, x, y, r)
  BY <1>5 DEF SameItems
<1>9. QED
  BY <1>5, <1>6, <1>7, <1>8 DEF r

\* A diagonal of a step has its neighbours among those of the step before.
LEMMA DiagonalsBefore ==
  ASSUME NEW d \in Nat, NEW k \in Diagonals(d)
  PROVE  /\ k \in Int /\ -d <= k /\ k <= d
         /\ d = 0 => k = 0
         /\ k # d => d > 0 /\ k + 1 \in Diagonals(d - 1)
         /\ k # -d => d > 0 /\ k - 1 \in Diagonals(d - 1)
<1>1. k \in Int /\ -d <= k /\ k <= d /\ (k + d) % 2 = 0
  BY DEF Diagonals
<1>2. ASSUME k # d PROVE d > 0 /\ k + 1 \in Diagonals(d - 1)
  <2>1. k # d - 1
    BY <1>1
  <2>2. d > 0 /\ k + 1 \in -(d - 1) .. d - 1
    BY <1>1, <1>2, <2>1
  <2>3. (k + 1) + (d - 1) = k + d
    BY <1>1
  <2>4. QED
    BY <1>1, <2>2, <2>3 DEF Diagonals
<1>3. ASSUME k # -d PROVE d > 0 /\ k - 1 \in Diagonals(d - 1)
  <2>1. k # 1 - d
    BY <1>1
  <2>2. d > 0 /\ k - 1 \in -(d - 1) .. d - 1
    BY <1>1, <1>3, <2>1
  <2>3. (k - 1) + (d - 1) = (k + d) - 2 /\ ((k + d) - 2) % 2 = 0
    BY <1>1
  <2>4. QED
    BY <1>1, <2>2, <2>3 DEF Diagonals
<1>4. QED
  BY <1>1, <1>2, <1>3

\* What the first step starts from.
Start(a, b) ==
  [k \in -(Len(a) + Len(b) + 1) .. Len(a) + Len(b) + 1 |-> IF k = 1 THEN 0 ELSE -1]

TraceTable(f, a, b, n) ==
  f = [d \in 0 .. n |-> IF d = 0 THEN Start(a, b) ELSE SearchStep(a, b, f[d - 1], d - 1)]

\* The recursion of Trace defines a function, step by step.
LEMMA LongerTrace ==
  ASSUME NEW a, NEW b, NEW n \in Nat \ {0}, NEW f, TraceTable(f, a, b, n - 1)
  PROVE  \E g : TraceTable(g, a, b, n)
<1> DEFINE g == [d \in 0 .. n |-> IF d = 0 THEN Start(a, b) ELSE SearchStep(a, b, f[d - 1], d - 1)]
<1>1. \A d \in 0 .. n - 1 : d \in 0 .. n /\ g[d] = f[d]
  BY DEF TraceTable
<1>2. \A d \in 0 .. n : d # 0 => d - 1 \in 0 .. n - 1
  OBVIOUS
<1> HIDE DEF g
<1>3. \A d \in 0 .. n : d # 0 => f[d - 1] = g[d - 1]
  BY <1>1, <1>2
<1>4. g = [d \in 0 .. n |-> IF d = 0 THEN Start(a, b) ELSE SearchStep(a, b, g[d - 1], d - 1)]
  BY <1>3 DEF g
<1>5. QED
  BY <1>4 DEF TraceTable

\* Trace satisfies its equations for sequences of any length.
LEMMA TraceIsDefined ==
  ASSUME NEW a, NEW b, Len(a) \in Nat, Len(b) \in Nat
  PROVE  /\ Trace(a, b)[0] = Start(a, b)
         /\ \A d \in 0 .. Len(a) + Len(b) : Trace(a, b)[d + 1] = SearchStep(a, b, Trace(a, b)[d], d)
<1> DEFINE S == {m \in Nat : ~\E f : TraceTable(f, a, b, m)}
           last == Len(a) + Len(b) + 1
<1>1. last \in Nat
  OBVIOUS
<1>2. \E f : TraceTable(f, a, b, last)
  <2> HIDE DEF last
  <2>1. SUFFICES ASSUME S # {} PROVE FALSE
    BY <1>1
  <2>2. PICK m \in S : \A h \in S : m <= h
    BY <2>1, LeastNumber
  <2>3. CASE m = 0
    <3> DEFINE f == [d \in 0 .. 0 |-> Start(a, b)]
    <3>1. f = [d \in 0 .. 0 |-> IF d = 0 THEN Start(a, b) ELSE SearchStep(a, b, f[d - 1], d - 1)]
      OBVIOUS
    <3>2. TraceTable(f, a, b, 0)
      BY <3>1 DEF TraceTable
    <3>3. QED
      BY <2>2, <2>3, <3>2
  <2>4. CASE m # 0
    <3>1. m \in Nat \ {0} /\ m - 1 \in Nat /\ m - 1 \notin S
      BY <2>2, <2>4
    <3>2. PICK f : TraceTable(f, a, b, m - 1)
      BY <3>1
    <3>3. QED
      BY <2>2, <3>1, <3>2, LongerTrace
  <2>5. QED
    BY <2>3, <2>4
<1>3. Trace(a, b) = CHOOSE f : TraceTable(f, a, b, last)
  BY DEF Trace, TraceTable, Start
<1>4. TraceTable(Trace(a, b), a, b, last)
  BY <1>2, <1>3
<1> DEFINE V == Trace(a, b)
<1> HIDE DEF V
<1>5. \A d \in 0 .. last : V[d] = IF d = 0 THEN Start(a, b) ELSE SearchStep(a, b, V[d - 1], d - 1)
  BY <1>4 DEF TraceTable, V
<1>6. 0 \in 0 .. last /\ \A d \in 0 .. Len(a) + Len(b) : d + 1 \in 0 .. last /\ d + 1 # 0 /\ (d + 1) - 1 = d
  OBVIOUS
<1>7. V[0] = Start(a, b)
  BY <1>5, <1>6
<1>8. \A d \in 0 .. Len(a) + Len(b) : V[d + 1] = SearchStep(a, b, V[d], d)
  <2> HIDE DEF last
  <2>1. QED
    BY <1>5, <1>6
<1>9. QED
  BY <1>7, <1>8 DEF V

\* Every step keeps all diagonals and changes its own.
LEMMA TraceDomains ==
  ASSUME NEW a, NEW b, Len(a) \in Nat, Len(b) \in Nat, NEW d \in 0 .. Len(a) + Len(b)
  PROVE  /\ DOMAIN Trace(a, b)[d] = -(Len(a) + Len(b) + 1) .. Len(a) + Len(b) + 1
         /\ \A k \in Diagonals(d) : Trace(a, b)[d + 1][k] = Furthest(a, b, Trace(a, b)[d], d, k)
<1> DEFINE max == Len(a) + Len(b)
           D == -(max + 1) .. max + 1
           V == Trace(a, b)
           T == {n \in 0 .. max : DOMAIN V[n] # D}
<1>1. V[0] = Start(a, b) /\ \A n \in 0 .. max : V[n + 1] = SearchStep(a, b, V[n], n)
  BY TraceIsDefined
<1>2. max \in Nat
  OBVIOUS
<1> HIDE DEF V
<1>3. DOMAIN V[0] = D
  BY <1>1 DEF Start
<1>4. \A n \in 0 .. max : DOMAIN V[n + 1] = DOMAIN V[n]
  BY <1>1 DEF SearchStep
<1> HIDE DEF max, D
<1>5. ASSUME T # {} PROVE FALSE
  <2>1. T \in SUBSET Nat
    BY <1>2
  <2>2. PICK n \in T : \A m \in T : n <= m
    BY <1>5, <2>1, LeastNumber
  <2>3. n # 0 /\ n \in 0 .. max /\ DOMAIN V[n] # D
    BY <1>3, <2>2
  <2>4. n - 1 \in 0 .. max /\ (n - 1) + 1 = n /\ n - 1 \notin T
    BY <1>2, <2>2, <2>3
  <2>5. DOMAIN V[n - 1] = D
    BY <2>4
  <2>6. QED
    BY <1>4, <2>3, <2>4, <2>5
<1>6. d \in 0 .. max
  BY DEF max
<1>7. DOMAIN V[d] = D
  BY <1>5, <1>6
<1>8. ASSUME NEW k \in Diagonals(d)
      PROVE  V[d + 1][k] = Furthest(a, b, V[d], d, k)
  <2>1. k \in D
    BY <1>2, <1>6, DiagonalsBefore DEF D
  <2>2. QED
    BY <1>1, <1>6, <1>7, <2>1 DEF SearchStep
<1>9. QED
  BY <1>7, <1>8 DEF V, D, max

\* Where step d comes to on diagonal k, and where it starts its run there.
Point(a, b, d, k) == Trace(a, b)[d + 1][k]
Entry(a, b, d, k) ==
  IF Down(Trace(a, b)[d], d, k) THEN Trace(a, b)[d][k + 1] ELSE Trace(a, b)[d][k - 1] + 1

\* The furthest point of a step is where the run from its entry ends.
LEMMA PointAfterRun ==
  ASSUME NEW a, NEW b, Len(a) \in Nat, Len(b) \in Nat, NEW d \in 0 .. Len(a) + Len(b), NEW k \in Diagonals(d)
  PROVE  Point(a, b, d, k) = Entry(a, b, d, k) + Run(a, b, Entry(a, b, d, k), Entry(a, b, d, k) - k)
BY TraceDomains DEF Point, Entry, Furthest

\* The first step starts at the beginnings.
LEMMA EntryFirst ==
  ASSUME NEW a, NEW b, Len(a) \in Nat, Len(b) \in Nat, NEW k \in Diagonals(0)
  PROVE  k = 0 /\ Entry(a, b, 0, k) = 0
<1>1. k = 0 /\ k = -0 /\ k + 1 = 1
  BY DiagonalsBefore
<1>2. Down(Trace(a, b)[0], 0, k)
  BY <1>1 DEF Down
<1>3. Entry(a, b, 0, k) = Start(a, b)[1]
  BY <1>1, <1>2, TraceIsDefined DEF Entry
<1>4. Start(a, b)[1] = 0
  BY DEF Start
<1>5. QED
  BY <1>1, <1>3, <1>4

\* A later one starts an insert or a delete after where the step before had come.
LEMMA EntryIs ==
  ASSUME NEW a, NEW b, Len(a) \in Nat, Len(b) \in Nat, NEW d \in 0 .. Len(a) + Len(b), NEW k \in Diagonals(d)
  PROVE  /\ d > 0 /\ Down(Trace(a, b)[d], d, k) =>
              /\ k # d /\ k + 1 \in Diagonals(d - 1)
              /\ Entry(a, b, d, k) = Point(a, b, d - 1, k + 1)
         /\ d > 0 /\ ~Down(Trace(a, b)[d], d, k) =>
              /\ k # -d /\ k - 1 \in Diagonals(d - 1)
              /\ Entry(a, b, d, k) = Point(a, b, d - 1, k - 1) + 1
<1>2. ASSUME d > 0, Down(Trace(a, b)[d], d, k)
      PROVE  /\ k # d /\ k + 1 \in Diagonals(d - 1)
             /\ Entry(a, b, d, k) = Point(a, b, d - 1, k + 1)
  <2>1. k = -d \/ k # d
    BY <1>2 DEF Down
  <2>2. k # d
    BY <1>2, <2>1
  <2>3. (d - 1) + 1 = d
    OBVIOUS
  <2>4. Entry(a, b, d, k) = Point(a, b, d - 1, k + 1)
    BY <1>2, <2>3 DEF Entry, Point
  <2>5. QED
    BY <2>2, <2>4, DiagonalsBefore
<1>3. ASSUME d > 0, ~Down(Trace(a, b)[d], d, k)
      PROVE  /\ k # -d /\ k - 1 \in Diagonals(d - 1)
             /\ Entry(a, b, d, k) = Point(a, b, d - 1, k - 1) + 1
  <2>1. k # -d
    BY <1>3 DEF Down
  <2>2. (d - 1) + 1 = d
    OBVIOUS
  <2>3. Entry(a, b, d, k) = Point(a, b, d - 1, k - 1) + 1
    BY <1>3, <2>2 DEF Entry, Point
  <2>4. QED
    BY <2>1, <2>3, DiagonalsBefore
<1>4. QED
  BY <1>2, <1>3

\* No point lies before the beginning of either side.
LEMMA PointsAreNumbers ==
  ASSUME NEW a, NEW b, Len(a) \in Nat, Len(b) \in Nat, NEW d \in 0 .. Len(a) + Len(b), NEW k \in Diagonals(d)
  PROVE  /\ Entry(a, b, d, k) \in Nat /\ Entry(a, b, d, k) - k \in Nat
         /\ Point(a, b, d, k) \in Nat /\ Point(a, b, d, k) - k \in Nat
         /\ Point(a, b, d, k) >= Entry(a, b, d, k)
<1> DEFINE Good(n) == \A h \in Diagonals(n) : /\ Entry(a, b, n, h) \in Nat /\ Entry(a, b, n, h) - h \in Nat
                                              /\ Point(a, b, n, h) \in Nat /\ Point(a, b, n, h) - h \in Nat
                                              /\ Point(a, b, n, h) >= Entry(a, b, n, h)
           T == {n \in 0 .. Len(a) + Len(b) : ~Good(n)}
<1>1. ASSUME NEW n \in 0 .. Len(a) + Len(b), NEW h \in Diagonals(n),
             Entry(a, b, n, h) \in Nat, Entry(a, b, n, h) - h \in Nat
      PROVE  /\ Point(a, b, n, h) \in Nat /\ Point(a, b, n, h) - h \in Nat
             /\ Point(a, b, n, h) >= Entry(a, b, n, h)
  <2> DEFINE x == Entry(a, b, n, h)
             r == Run(a, b, x, x - h)
  <2>1. Point(a, b, n, h) = x + r
    BY PointAfterRun
  <2>2. r \in Nat
    BY <1>1, RunIs
  <2>3. h \in Int /\ x \in Nat /\ x - h \in Nat
    BY <1>1, DiagonalsBefore
  <2> HIDE DEF x, r
  <2>4. x + r \in Nat /\ (x + r) - h \in Nat /\ x + r >= x
    BY <2>2, <2>3
  <2>5. QED
    BY <2>1, <2>4 DEF x
<1>2. \A h \in Diagonals(0) : h = 0 /\ Entry(a, b, 0, h) = 0
  BY EntryFirst
<1>3. ASSUME T # {} PROVE FALSE
  <2>1. T \in SUBSET Nat
    OBVIOUS
  <2> HIDE DEF T
  <2>2. PICK n \in T : \A m \in T : n <= m
    BY <1>3, <2>1, LeastNumber
  <2>3. n \in 0 .. Len(a) + Len(b) /\ ~Good(n)
    BY <2>2 DEF T
  <2>4. PICK h \in Diagonals(n) : ~(Entry(a, b, n, h) \in Nat /\ Entry(a, b, n, h) - h \in Nat)
    BY <1>1, <2>3
  <2>5. h \in Int /\ n \in Nat
    BY <2>3, DiagonalsBefore
  <2>6. n # 0
    <3>1. n = 0 => h = 0 /\ Entry(a, b, n, h) = 0
      BY <1>2, <2>3
    <3>2. QED
      BY <2>4, <3>1
  <2>7. n - 1 \in 0 .. Len(a) + Len(b) /\ n > 0
    BY <2>3, <2>6
  <2>8. Good(n - 1)
    <3>1. n - 1 \notin T
      BY <2>1, <2>2, <2>5
    <3>2. QED
      BY <2>7, <3>1 DEF T
  <2>9. CASE Down(Trace(a, b)[n], n, h)
    <3>1. h + 1 \in Diagonals(n - 1) /\ Entry(a, b, n, h) = Point(a, b, n - 1, h + 1)
      BY <2>3, <2>7, <2>9, EntryIs
    <3>2. Point(a, b, n - 1, h + 1) \in Nat /\ Point(a, b, n - 1, h + 1) - (h + 1) \in Nat
      BY <2>8, <3>1
    <3>3. QED
      BY <2>4, <2>5, <3>1, <3>2
  <2>10. CASE ~Down(Trace(a, b)[n], n, h)
    <3>1. h - 1 \in Diagonals(n - 1) /\ Entry(a, b, n, h) = Point(a, b, n - 1, h - 1) + 1
      BY <2>3, <2>7, <2>10, EntryIs
    <3>2. Point(a, b, n - 1, h - 1) \in Nat /\ Point(a, b, n - 1, h - 1) - (h - 1) \in Nat
      BY <2>8, <3>1
    <3>3. QED
      BY <2>4, <2>5, <3>1, <3>2
  <2>11. QED
    BY <2>9, <2>10
<1>4. Good(d)
  BY <1>3
<1>5. QED
  BY <1>4

\* The changes that the first x and y elements need.
Edits(a, b, x, y) == x + y - 2 * Common(a, b, x, y)

\* The number of edits to (x, y) is one of the steps, on which the diagonal of
\* (x, y) is searched.
LEMMA EditsAre ==
  ASSUME NEW a, NEW b, Len(a) \in Nat, Len(b) \in Nat, NEW x \in 0 .. Len(a), NEW y \in 0 .. Len(b)
  PROVE  /\ Edits(a, b, x, y) \in 0 .. Len(a) + Len(b)
         /\ x - y \in Diagonals(Edits(a, b, x, y))
<1> DEFINE c == Common(a, b, x, y)
           d == Edits(a, b, x, y)
<1>0. c \in Nat /\ c <= x /\ c <= y
  BY LongestIsNumber
<1>1. c \in Nat /\ c <= x /\ c <= y /\ d = (x + y) - 2 * c
  BY <1>0 DEF Edits
<1> HIDE DEF c, d
<1>2. d \in 0 .. Len(a) + Len(b) /\ x - y \in -d .. d
  BY <1>1
<1>3. (x - y) + d = 2 * (x - c) /\ x - c \in Nat
  BY <1>1
<1>4. (2 * (x - c)) % 2 = 0
  BY <1>3
<1>5. x - y \in Diagonals(d)
  BY <1>2, <1>3, <1>4 DEF Diagonals
<1>6. QED
  BY <1>2, <1>5 DEF d

\* The same of a run that has a name of its own.
LEMMA RunFits ==
  ASSUME NEW a, NEW b, Len(a) \in Nat, Len(b) \in Nat, NEW x \in Nat, NEW y \in Nat, NEW r, r = Run(a, b, x, y)
  PROVE  /\ r \in Nat /\ (r > 0 => x + r <= Len(a) /\ y + r <= Len(b))
         /\ SameItems(a, b, x, y, r)
BY RunIs

LEMMA RunStops ==
  ASSUME NEW a, NEW b, Len(a) \in Nat, Len(b) \in Nat, NEW x \in Nat, NEW y \in Nat, NEW r, r = Run(a, b, x, y),
         x + r < Len(a), y + r < Len(b)
  PROVE  a[x + r + 1] # b[y + r + 1]
BY RunIs

\* A step enters a diagonal no earlier than either neighbour allows.
LEMMA EntryAtLeast ==
  ASSUME NEW a, NEW b, Len(a) \in Nat, Len(b) \in Nat, NEW d \in 1 .. Len(a) + Len(b), NEW k \in Diagonals(d)
  PROVE  /\ k + 1 \in Diagonals(d - 1) => Entry(a, b, d, k) >= Point(a, b, d - 1, k + 1)
         /\ k - 1 \in Diagonals(d - 1) => Entry(a, b, d, k) >= Point(a, b, d - 1, k - 1) + 1
<1> DEFINE v == Trace(a, b)[d]
           above == Point(a, b, d - 1, k + 1)
           below == Point(a, b, d - 1, k - 1)
           x == Entry(a, b, d, k)
<1>1. d \in 0 .. Len(a) + Len(b) /\ d > 0 /\ d - 1 \in 0 .. Len(a) + Len(b) /\ (d - 1) + 1 = d
  OBVIOUS
<1>2. k \in Int
  BY <1>1, DiagonalsBefore
<1>3. above = v[k + 1] /\ below = v[k - 1]
  BY <1>1 DEF Point
<1>4. /\ k + 1 \in Diagonals(d - 1) => above \in Nat /\ k # d
      /\ k - 1 \in Diagonals(d - 1) => below \in Nat /\ k # -d
  <2>1. /\ k + 1 \in Diagonals(d - 1) => above \in Nat
        /\ k - 1 \in Diagonals(d - 1) => below \in Nat
    BY <1>1, PointsAreNumbers
  <2>2. /\ k + 1 \in Diagonals(d - 1) => k + 1 <= d - 1
        /\ k - 1 \in Diagonals(d - 1) => k - 1 >= -(d - 1)
    BY DEF Diagonals
  <2>3. QED
    BY <1>2, <2>1, <2>2
<1>5. /\ Down(v, d, k) => k + 1 \in Diagonals(d - 1) /\ x = above
      /\ ~Down(v, d, k) => k - 1 \in Diagonals(d - 1) /\ x = below + 1
  BY <1>1, EntryIs
<1>6. Down(v, d, k) <=> k = -d \/ (k # d /\ below < above)
  BY <1>3 DEF Down
<1> HIDE DEF v, above, below, x
<1>7. /\ k + 1 \in Diagonals(d - 1) => x >= above
      /\ k - 1 \in Diagonals(d - 1) => x >= below + 1
  BY <1>4, <1>5, <1>6
<1>8. QED
  BY <1>7 DEF above, below, x

\* The search is never behind: with the changes that the first x and y elements
\* need, it has come at least to x on their diagonal.
LEMMA FarEnough ==
  ASSUME NEW a, NEW b, Len(a) \in Nat, Len(b) \in Nat, NEW x \in 0 .. Len(a), NEW y \in 0 .. Len(b)
  PROVE  Point(a, b, Edits(a, b, x, y), x - y) >= x
<1> DEFINE L(i, j) == Common(a, b, i, j)
           E(i, j) == Edits(a, b, i, j)
           Good(i, j) == Point(a, b, E(i, j), i - j) >= i
           T == {n \in Nat : \E i \in 0 .. Len(a), j \in 0 .. Len(b) : i + j = n /\ ~Good(i, j)}
<1>1. T \in SUBSET Nat /\ \A h \in 0 .. Len(a), k \in 0 .. Len(b) : h + k \in Nat /\ (~Good(h, k) => h + k \in T)
  OBVIOUS
<1>11. \A i \in 0 .. Len(a), j \in 0 .. Len(b) : L(i, j) \in Nat
  BY LongestIsNumber
<1>12. \A i \in 0 .. Len(a), j \in 0 .. Len(b) :
        /\ i = 0 \/ j = 0 => L(i, j) = 0
        /\ i # 0 /\ j # 0 /\ a[i] = b[j] => L(i, j) = L(i - 1, j - 1) + 1
        /\ i # 0 /\ j # 0 /\ a[i] # b[j] => L(i, j) = Max({L(i - 1, j), L(i, j - 1)})
  BY LongestUnfolds
<1>13. \A i \in 0 .. Len(a), j \in 0 .. Len(b) : E(i, j) = (i + j) - 2 * L(i, j)
  BY <1>11 DEF Edits
<1>14. \A i \in 0 .. Len(a), j \in 0 .. Len(b) : E(i, j) \in 0 .. Len(a) + Len(b) /\ i - j \in Diagonals(E(i, j))
  BY EditsAre
<1> HIDE DEF L, E
<1>2. ASSUME T # {} PROVE FALSE
  <2> HIDE DEF T
  <2>1. PICK n \in T : \A m \in T : n <= m
    BY <1>1, <1>2, LeastNumber
  <2>2. PICK i \in 0 .. Len(a), j \in 0 .. Len(b) : i + j = n /\ ~Good(i, j)
    BY <2>1 DEF T
  <2>3. ASSUME NEW h \in 0 .. Len(a), NEW k \in 0 .. Len(b), h + k < n
        PROVE  Good(h, k)
    <3> HIDE DEF Good
    <3>1. n \in Nat
      BY <1>1
    <3>2. QED
      BY <1>1, <2>1, <2>3, <3>1
  <2> DEFINE c == L(i, j)
             d == E(i, j)
             k == i - j
  <2>4. d \in 0 .. Len(a) + Len(b) /\ k \in Diagonals(d)
    BY <1>14
  <2>5. i \in Nat /\ j \in Nat /\ k \in Int /\ d \in Nat
    BY <2>2, <2>4
  <2>6. /\ Point(a, b, d, k) \in Nat /\ Point(a, b, d, k) >= Entry(a, b, d, k)
        /\ Entry(a, b, d, k) \in Nat
    BY <2>4, PointsAreNumbers
  <2>7. i # 0 \/ j # 0
    BY <2>2, <2>6
  <2>8. c \in Nat
    BY <1>11
  <2>9. d = (i + j) - 2 * c
    BY <1>13
  <2>10. CASE i # 0 /\ j # 0 /\ a[i] = b[j]
    <3>1. i - 1 \in 0 .. Len(a) /\ j - 1 \in 0 .. Len(b) /\ (i - 1) + (j - 1) < n /\ (i - 1) - (j - 1) = k
      BY <2>2, <2>10
    <3>2. c = L(i - 1, j - 1) + 1 /\ L(i - 1, j - 1) \in Nat
      BY <1>11, <1>12, <2>10, <3>1
    <3>3. E(i - 1, j - 1) = ((i - 1) + (j - 1)) - 2 * L(i - 1, j - 1)
      BY <1>13, <3>1
    <3>4. E(i - 1, j - 1) = d
      BY <2>5, <2>9, <3>2, <3>3
    <3>5. Point(a, b, d, k) >= i - 1
      BY <2>3, <3>1, <3>4
    <3>6. Point(a, b, d, k) = i - 1
      BY <2>2, <2>5, <2>6, <3>5
    <3> DEFINE e == Entry(a, b, d, k)
               f == e - k
               r == Run(a, b, e, f)
    <3>7. e \in Nat /\ f \in Nat
      BY <2>4, PointsAreNumbers
    <3>8. e + r = i - 1
      BY <2>4, <3>6, PointAfterRun
    <3>9. r \in Nat
      BY <3>7, RunIs
    <3>10. f = e - k
      OBVIOUS
    <3> HIDE DEF e, f, r
    <3>11. e + r < Len(a) /\ f + r < Len(b) => a[e + r + 1] # b[f + r + 1]
      BY <3>7, RunStops DEF r
    <3>12. f + r = j - 1 /\ e + r < Len(a) /\ f + r < Len(b)
      <4>1. f + r = (i - 1) - (i - j)
        BY <2>5, <3>7, <3>8, <3>9, <3>10
      <4>2. i <= Len(a) /\ j <= Len(b) /\ Len(a) \in Nat /\ Len(b) \in Nat
        OBVIOUS
      <4>3. QED
        BY <2>5, <3>8, <4>1, <4>2
    <3>13. e + r + 1 = i /\ f + r + 1 = j
      BY <2>5, <3>7, <3>8, <3>9, <3>12
    <3>14. QED
      BY <2>10, <3>11, <3>12, <3>13
  <2>11. ASSUME i # 0, c = L(i - 1, j) PROVE FALSE
    <3>1. i - 1 \in 0 .. Len(a) /\ (i - 1) + j < n /\ (i - 1) - j = k - 1
      BY <2>2, <2>11
    <3>2. E(i - 1, j) = ((i - 1) + j) - 2 * c
      BY <1>13, <2>11, <3>1
    <3>3. E(i - 1, j) = d - 1
      BY <2>5, <2>8, <2>9, <3>2
    <3>4. d - 1 \in Nat /\ k - 1 \in Diagonals(d - 1)
      <4>1. E(i - 1, j) \in 0 .. Len(a) + Len(b) /\ (i - 1) - j \in Diagonals(E(i - 1, j))
        BY <1>14, <3>1
      <4>2. d - 1 \in 0 .. Len(a) + Len(b) /\ k - 1 \in Diagonals(d - 1)
        BY <3>1, <3>3, <4>1
      <4>3. QED
        BY <4>2
    <3>5. Point(a, b, d - 1, k - 1) >= i - 1
      BY <2>3, <3>1, <3>3
    <3>6. d \in 1 .. Len(a) + Len(b) /\ d - 1 \in 0 .. Len(a) + Len(b)
      BY <2>4, <3>4
    <3>7. Entry(a, b, d, k) >= Point(a, b, d - 1, k - 1) + 1 /\ Point(a, b, d - 1, k - 1) \in Nat
      BY <2>4, <3>4, <3>6, EntryAtLeast, PointsAreNumbers
    <3>8. QED
      BY <2>2, <2>5, <2>6, <3>5, <3>7
  <2>12. ASSUME j # 0, c = L(i, j - 1) PROVE FALSE
    <3>1. j - 1 \in 0 .. Len(b) /\ i + (j - 1) < n /\ i - (j - 1) = k + 1
      BY <2>2, <2>12
    <3>2. E(i, j - 1) = (i + (j - 1)) - 2 * c
      BY <1>13, <2>12, <3>1
    <3>3. E(i, j - 1) = d - 1
      BY <2>5, <2>8, <2>9, <3>2
    <3>4. d - 1 \in Nat /\ k + 1 \in Diagonals(d - 1)
      <4>1. E(i, j - 1) \in 0 .. Len(a) + Len(b) /\ i - (j - 1) \in Diagonals(E(i, j - 1))
        BY <1>14, <3>1
      <4>2. d - 1 \in 0 .. Len(a) + Len(b) /\ k + 1 \in Diagonals(d - 1)
        BY <3>1, <3>3, <4>1
      <4>3. QED
        BY <4>2
    <3>5. Point(a, b, d - 1, k + 1) >= i
      BY <2>3, <3>1, <3>3
    <3>6. d \in 1 .. Len(a) + Len(b) /\ d - 1 \in 0 .. Len(a) + Len(b)
      BY <2>4, <3>4
    <3>7. Entry(a, b, d, k) >= Point(a, b, d - 1, k + 1) /\ Point(a, b, d - 1, k + 1) \in Nat
      BY <2>4, <3>4, <3>6, EntryAtLeast, PointsAreNumbers
    <3>8. QED
      BY <2>2, <2>5, <2>6, <3>5, <3>7
  <2>13. CASE i = 0
    <3>1. j - 1 \in 0 .. Len(b) /\ j # 0
      BY <2>5, <2>7, <2>13
    <3>2. c = 0 /\ L(i, j - 1) = 0
      BY <2>13, <3>1, <1>12
    <3>3. QED
      BY <2>12, <3>1, <3>2
  <2>14. CASE i # 0 /\ j = 0
    <3>1. i - 1 \in 0 .. Len(a)
      BY <2>5, <2>14
    <3>2. c = 0 /\ L(i - 1, j) = 0
      BY <2>14, <3>1, <1>12
    <3>3. QED
      BY <2>11, <2>14, <3>2
  <2>15. CASE i # 0 /\ j # 0 /\ a[i] # b[j]
    <3>1. i - 1 \in 0 .. Len(a) /\ j - 1 \in 0 .. Len(b)
      BY <2>5, <2>15
    <3>2. c = Max({L(i - 1, j), L(i, j - 1)})
      BY <2>15, <1>12
    <3>3. L(i - 1, j) \in Nat /\ L(i, j - 1) \in Nat
      BY <1>11, <3>1
    <3>4. c = L(i - 1, j) \/ c = L(i, j - 1)
      BY <3>2, <3>3, MaxOfTwo
    <3>5. QED
      BY <2>11, <2>12, <2>15, <3>4
  <2>16. QED
    BY <2>10, <2>13, <2>14, <2>15
<1>3. Good(x, y)
  <2> HIDE DEF T, Good
  <2>1. QED
    BY <1>1, <1>2
<1>4. QED
  BY <1>3 DEF E

\* A run of equal elements is in common.
LEMMA RunGains ==
  ASSUME NEW a, NEW b, Len(a) \in Nat, Len(b) \in Nat, NEW x \in Nat, NEW y \in Nat, NEW r \in Nat,
         x + r <= Len(a), y + r <= Len(b), SameItems(a, b, x, y, r)
  PROVE  Common(a, b, x + r, y + r) = Common(a, b, x, y) + r
<1> DEFINE L(i, j) == Common(a, b, i, j)
           T == {n \in 0 .. r : L(x + n, y + n) # L(x, y) + n}
<1>1. \A n \in 0 .. r : x + n \in 0 .. Len(a) /\ y + n \in 0 .. Len(b)
  OBVIOUS
<1>2. x \in 0 .. Len(a) /\ y \in 0 .. Len(b) /\ x + 0 = x /\ y + 0 = y
  OBVIOUS
<1>3. L(x, y) \in Nat
  BY <1>2, LongestIsNumber
<1>4. \A i \in 0 .. Len(a), j \in 0 .. Len(b) :
        /\ i = 0 \/ j = 0 => L(i, j) = 0
        /\ i # 0 /\ j # 0 /\ a[i] = b[j] => L(i, j) = L(i - 1, j - 1) + 1
        /\ i # 0 /\ j # 0 /\ a[i] # b[j] => L(i, j) = Max({L(i - 1, j), L(i, j - 1)})
  BY LongestUnfolds
<1> HIDE DEF L
<1>5. ASSUME T # {} PROVE FALSE
  <2>1. PICK n \in T : \A m \in T : n <= m
    <3>1. T \in SUBSET Nat
      OBVIOUS
    <3>2. QED
      BY <1>5, <3>1, LeastNumber
  <2>2. n \in 0 .. r /\ L(x + n, y + n) # L(x, y) + n
    OBVIOUS
  <2>3. n # 0
    BY <1>2, <1>3, <2>2
  <2>4. n - 1 \in 0 .. r /\ n - 1 \notin T /\ n \in 1 .. r
    BY <2>1, <2>2, <2>3
  <2>5. L(x + (n - 1), y + (n - 1)) = L(x, y) + (n - 1)
    BY <2>4
  <2>6. x + n \in 0 .. Len(a) /\ y + n \in 0 .. Len(b) /\ x + n # 0 /\ y + n # 0 /\ a[x + n] = b[y + n]
    BY <2>4 DEF SameItems
  <2>7. L(x + n, y + n) = L((x + n) - 1, (y + n) - 1) + 1
    BY <1>4, <2>4, <2>6
  <2>8. (x + n) - 1 = x + (n - 1) /\ (y + n) - 1 = y + (n - 1)
    BY <2>4
  <2>9. QED
    BY <1>3, <2>2, <2>4, <2>5, <2>7, <2>8
<1>6. L(x + r, y + r) = L(x, y) + r
  BY <1>5
<1>7. QED
  BY <1>6 DEF L

Clip(x, n) == IF x <= n THEN x ELSE n

\* What is left to change of the first x and y elements, or of all of them.
Kept(a, b, x, y) == Common(a, b, Clip(x, Len(a)), Clip(y, Len(b)))

\* Further along both sides no less is kept.
LEMMA KeptGrows ==
  ASSUME NEW a, NEW b, Len(a) \in Nat, Len(b) \in Nat, NEW x \in Nat, NEW y \in Nat, NEW x1 \in Nat, NEW y1 \in Nat,
         x1 = x \/ x1 = x + 1, y1 = y \/ y1 = y + 1
  PROVE  /\ Kept(a, b, x, y) \in Nat /\ Kept(a, b, x1, y1) \in Nat
         /\ Kept(a, b, x1, y1) >= Kept(a, b, x, y)
<1> DEFINE i == Clip(x, Len(a))
           j == Clip(y, Len(b))
           h == Clip(x1, Len(a))
           k == Clip(y1, Len(b))
<1>1. /\ i \in 0 .. Len(a) /\ j \in 0 .. Len(b) /\ h \in 0 .. Len(a) /\ k \in 0 .. Len(b)
      /\ (h = i \/ (h > 0 /\ i = h - 1)) /\ (k = j \/ (k > 0 /\ j = k - 1))
  BY DEF Clip
<1> HIDE DEF i, j, h, k
<1>2. Common(a, b, i, j) \in Nat /\ Common(a, b, h, j) \in Nat /\ Common(a, b, h, k) \in Nat
  BY <1>1, LongestIsNumber
<1>3. h > 0 => Common(a, b, h - 1, j) <= Common(a, b, h, j)
  BY <1>1, LongestGrows
<1>4. k > 0 => Common(a, b, h, k - 1) <= Common(a, b, h, k)
  BY <1>1, LongestGrows
<1>5. Common(a, b, h, j) >= Common(a, b, i, j)
  BY <1>1, <1>2, <1>3
<1>6. Common(a, b, h, k) >= Common(a, b, h, j)
  BY <1>1, <1>2, <1>4
<1>7. Common(a, b, h, k) >= Common(a, b, i, j)
  BY <1>2, <1>5, <1>6
<1>8. QED
  BY <1>2, <1>7 DEF Kept, i, j, h, k

\* The search is never ahead: where it has come to needs the changes it made.
LEMMA NotTooFar ==
  ASSUME NEW a, NEW b, Len(a) \in Nat, Len(b) \in Nat, NEW d \in 0 .. Len(a) + Len(b), NEW k \in Diagonals(d)
  PROVE  Point(a, b, d, k) + (Point(a, b, d, k) - k) - 2 * Kept(a, b, Point(a, b, d, k), Point(a, b, d, k) - k) <= d
<1> DEFINE P(n, h) == Point(a, b, n, h)
           K(x, y) == Kept(a, b, x, y)
           Good(n) == \A h \in Diagonals(n) : P(n, h) + (P(n, h) - h) - 2 * K(P(n, h), P(n, h) - h) <= n
           T == {n \in 0 .. Len(a) + Len(b) : ~Good(n)}
<1>1. \A x \in Nat, y \in Nat : K(x, y) \in Nat
  BY KeptGrows
<1>2. ASSUME NEW n \in 0 .. Len(a) + Len(b), NEW h \in Diagonals(n), NEW x, x = Entry(a, b, n, h),
             x + (x - h) - 2 * K(x, x - h) <= n
      PROVE  P(n, h) + (P(n, h) - h) - 2 * K(P(n, h), P(n, h) - h) <= n
  <2> DEFINE y == x - h
             r == Run(a, b, x, y)
  <2>1. x \in Nat /\ y \in Nat /\ h \in Int
    BY <1>2, PointsAreNumbers, DiagonalsBefore
  <2>2. P(n, h) = x + r
    BY <1>2, PointAfterRun
  <2>3. /\ r \in Nat /\ (r > 0 => x + r <= Len(a) /\ y + r <= Len(b))
        /\ SameItems(a, b, x, y, r)
    <3> HIDE DEF y
    <3>1. QED
      BY <2>1, RunFits
  <2>4. y = x - h
    OBVIOUS
  <2> HIDE DEF y, r, P, K
  <2>5. (x + r) - h = y + r
    BY <2>1, <2>3, <2>4
  <2>6. K(x + r, y + r) = K(x, y) + r
    <3>1. CASE r = 0
      <4>1. K(x, y) \in Nat
        BY <1>1, <2>1
      <4>2. x + r = x /\ y + r = y /\ K(x, y) + r = K(x, y)
        BY <2>1, <3>1, <4>1
      <4>3. QED
        BY <4>2
    <3>2. CASE r # 0
      <4>1. x + r <= Len(a) /\ y + r <= Len(b)
        BY <2>3, <3>2
      <4>2. Common(a, b, x + r, y + r) = Common(a, b, x, y) + r
        <5>1. x \in Nat /\ y \in Nat /\ r \in Nat /\ SameItems(a, b, x, y, r)
          BY <2>1, <2>3
        <5>2. QED
          BY <4>1, <5>1, RunGains
      <4>3. /\ Clip(x + r, Len(a)) = x + r /\ Clip(y + r, Len(b)) = y + r
            /\ Clip(x, Len(a)) = x /\ Clip(y, Len(b)) = y
        BY <2>1, <2>3, <4>1 DEF Clip
      <4>4. QED
        BY <4>2, <4>3 DEF K, Kept
    <3>3. QED
      BY <3>1, <3>2
  <2>7. K(x, y) \in Nat /\ x + y - 2 * K(x, y) <= n
    BY <1>1, <1>2, <2>1, <2>4
  <2>8. (x + r) + (y + r) - 2 * (K(x, y) + r) <= n
    BY <2>1, <2>3, <2>7
  <2>9. QED
    BY <2>2, <2>5, <2>6, <2>8
<1>3. ASSUME T # {} PROVE FALSE
  <2>1. T \in SUBSET Nat
    OBVIOUS
  <2> HIDE DEF T
  <2>2. PICK n \in T : \A m \in T : n <= m
    BY <1>3, <2>1, LeastNumber
  <2>3. n \in 0 .. Len(a) + Len(b) /\ ~Good(n)
    BY <2>2 DEF T
  <2>4. PICK h \in Diagonals(n) : ~(P(n, h) + (P(n, h) - h) - 2 * K(P(n, h), P(n, h) - h) <= n)
    BY <2>3
  <2> DEFINE x == Entry(a, b, n, h)
  <2>5. ~(x + (x - h) - 2 * K(x, x - h) <= n)
    BY <1>2, <2>3, <2>4
  <2>6. h \in Int /\ n \in Nat /\ x \in Nat /\ x - h \in Nat
    BY <2>3, PointsAreNumbers, DiagonalsBefore
  <2>7. n # 0
    <3>1. ASSUME n = 0 PROVE FALSE
      <4>1. h = 0 /\ x = 0
        BY <3>1, EntryFirst
      <4>2. K(x, x - h) \in Nat
        BY <1>1, <2>6
      <4> HIDE DEF x, K
      <4>3. QED
        BY <2>5, <3>1, <4>1, <4>2
    <3>2. QED
      BY <3>1
  <2>8. n - 1 \in 0 .. Len(a) + Len(b) /\ n > 0
    BY <2>3, <2>7
  <2>9. Good(n - 1)
    <3>1. n - 1 \notin T
      BY <2>1, <2>2, <2>6
    <3>2. QED
      BY <2>8, <3>1 DEF T
  <2>10. CASE Down(Trace(a, b)[n], n, h)
    <3> DEFINE p == Point(a, b, n - 1, h + 1)
               q == p - (h + 1)
    <3>1. h + 1 \in Diagonals(n - 1) /\ x = p
      BY <2>3, <2>8, <2>10, EntryIs
    <3>2. p \in Nat /\ q \in Nat
      BY <2>8, <3>1, PointsAreNumbers
    <3>3. p + q - 2 * K(p, q) <= n - 1
      BY <2>9, <3>1
    <3>4. q = p - (h + 1)
      OBVIOUS
    <3> HIDE DEF p, q, x, K
    <3>5. x - h = q + 1
      BY <2>6, <3>1, <3>2, <3>4
    <3> DEFINE y == x - h
    <3>6. y \in Nat /\ y = q + 1
      BY <2>6, <3>5
    <3>7. ~(x + y - 2 * K(x, y) <= n)
      BY <2>5
    <3> HIDE DEF y
    <3>8. K(p, q) \in Nat /\ K(x, y) \in Nat /\ K(x, y) >= K(p, q)
      BY <2>6, <3>1, <3>2, <3>6, KeptGrows DEF K
    <3> DEFINE u == K(p, q)
               w == K(x, y)
    <3>9. p + q - 2 * u <= n - 1 /\ ~(x + y - 2 * w <= n) /\ u \in Nat /\ w \in Nat /\ w >= u
      BY <3>3, <3>7, <3>8
    <3> HIDE DEF u, w
    <3>10. QED
      BY <2>6, <3>1, <3>2, <3>6, <3>9
  <2>11. CASE ~Down(Trace(a, b)[n], n, h)
    <3> DEFINE p == Point(a, b, n - 1, h - 1)
               q == p - (h - 1)
    <3>1. h - 1 \in Diagonals(n - 1) /\ x = p + 1
      BY <2>3, <2>8, <2>11, EntryIs
    <3>2. p \in Nat /\ q \in Nat
      BY <2>8, <3>1, PointsAreNumbers
    <3>3. p + q - 2 * K(p, q) <= n - 1
      BY <2>9, <3>1
    <3>4. q = p - (h - 1)
      OBVIOUS
    <3> HIDE DEF p, q, x, K
    <3>5. x - h = q
      BY <2>6, <3>1, <3>2, <3>4
    <3> DEFINE y == x - h
    <3>6. y \in Nat /\ y = q
      BY <2>6, <3>5
    <3>7. ~(x + y - 2 * K(x, y) <= n)
      BY <2>5
    <3> HIDE DEF y
    <3>8. K(p, q) \in Nat /\ K(x, y) \in Nat /\ K(x, y) >= K(p, q)
      BY <2>6, <3>1, <3>2, <3>6, KeptGrows DEF K
    <3> DEFINE u == K(p, q)
               w == K(x, y)
    <3>9. p + q - 2 * u <= n - 1 /\ ~(x + y - 2 * w <= n) /\ u \in Nat /\ w \in Nat /\ w >= u
      BY <3>3, <3>7, <3>8
    <3> HIDE DEF u, w
    <3>10. QED
      BY <2>6, <3>1, <3>2, <3>6, <3>9
  <2>12. QED
    BY <2>10, <2>11
<1>4. Good(d)
  BY <1>3
<1>5. QED
  BY <1>4

Reached(a, b) == {d \in 0 .. Len(a) + Len(b) : Reaches(a, b, Trace(a, b)[d + 1], d)}

\* So the search comes to the end of both sides with the changes they need.
LEMMA SearchEnds ==
  ASSUME NEW a, NEW b, Len(a) \in Nat, Len(b) \in Nat
  PROVE  /\ Reached(a, b) # {} /\ Min(Reached(a, b)) = Edits(a, b, Len(a), Len(b))
         /\ Point(a, b, Edits(a, b, Len(a), Len(b)), Len(a) - Len(b)) = Len(a)
<1> DEFINE N == Len(a)
           M == Len(b)
           d == Edits(a, b, N, M)
           c == Common(a, b, N, M)
           P(n, k) == Point(a, b, n, k)
<1>1. N \in 0 .. Len(a) /\ M \in 0 .. Len(b) /\ N \in Nat /\ M \in Nat
  OBVIOUS
<1>2. d \in 0 .. N + M /\ N - M \in Diagonals(d)
  BY <1>1, EditsAre
<1>3. c \in Nat /\ d = (N + M) - 2 * c
  <2>1. c \in Nat
    BY <1>1, LongestIsNumber
  <2>2. QED
    BY <2>1 DEF Edits
<1>4. P(d, N - M) >= N /\ P(d, N - M) \in Nat /\ P(d, N - M) - (N - M) \in Nat
  BY <1>1, <1>2, FarEnough, PointsAreNumbers
<1>5. ASSUME NEW n \in 0 .. N + M, NEW k \in Diagonals(n), P(n, k) >= N, P(n, k) - k >= M
      PROVE  n >= d /\ (n = d => P(n, k) + (P(n, k) - k) <= N + M)
  <2> DEFINE x == P(n, k)
             y == P(n, k) - k
  <2>1. x \in Nat /\ y \in Nat
    BY PointsAreNumbers
  <2>2. x + y - 2 * Kept(a, b, x, y) <= n
    BY NotTooFar
  <2>3. x >= N /\ y >= M
    BY <1>5
  <2> HIDE DEF x, y
  <2>4. Clip(x, N) = N /\ Clip(y, M) = M
    BY <1>1, <2>1, <2>3 DEF Clip
  <2>5. Kept(a, b, x, y) = c
    BY <2>4 DEF Kept
  <2> HIDE DEF c, d, N, M
  <2>6. n \in Nat
    BY <1>1
  <2>7. n >= d /\ (n = d => x + y <= N + M)
    BY <1>1, <1>3, <2>1, <2>2, <2>3, <2>5, <2>6
  <2>8. QED
    BY <2>7 DEF x, y
<1> HIDE DEF d
<1>6. d \in Reached(a, b)
  <2>1. P(d, N - M) - (N - M) >= M
    BY <1>1, <1>4
  <2>2. Reaches(a, b, Trace(a, b)[d + 1], d)
    BY <1>2, <1>4, <2>1 DEF Reaches, Point
  <2>3. QED
    BY <1>2, <2>2 DEF Reached
<1>7. ASSUME NEW n \in Reached(a, b) PROVE n >= d /\ n \in Nat
  <2>1. n \in 0 .. N + M /\ Reaches(a, b, Trace(a, b)[n + 1], n)
    BY DEF Reached
  <2>2. PICK k \in Diagonals(n) : P(n, k) >= N /\ P(n, k) - k >= M
    BY <2>1 DEF Reaches, Point
  <2>3. QED
    BY <1>5, <2>1, <2>2
<1>8. Min(Reached(a, b)) = d
  <2> DEFINE T == Reached(a, b)
  <2>1. T \in SUBSET Nat /\ T # {} /\ d \in T /\ \A n \in T : n >= d
    BY <1>6, <1>7
  <2> HIDE DEF T
  <2>2. Min(T) \in T /\ Min(T) <= d
    BY <2>1, MinIsLeast
  <2>3. QED
    BY <2>1, <2>2 DEF T
<1>9. P(d, N - M) = N
  <2>1. P(d, N - M) - (N - M) >= M
    BY <1>1, <1>4
  <2>2. P(d, N - M) + (P(d, N - M) - (N - M)) <= N + M
    BY <1>2, <1>4, <1>5, <2>1
  <2>3. QED
    BY <1>1, <1>4, <2>2
<1>10. QED
  BY <1>6, <1>8, <1>9 DEF d

-------------------------------------------------------------------------------
(* The way back *)

Back(f, a, b, found, n) ==
  IF n = 0 THEN [x |-> Len(a), y |-> Len(b), script |-> <<>>]
  ELSE StepBack(Trace(a, b), found - n + 1, f[n - 1])

WayTable(f, a, b, found, n) == f = [i \in 0 .. n |-> Back(f, a, b, found, i)]

\* The recursion of Way defines a function, turn by turn.
LEMMA LongerWay ==
  ASSUME NEW a, NEW b, NEW found, NEW n \in Nat \ {0}, NEW f, WayTable(f, a, b, found, n - 1)
  PROVE  \E g : WayTable(g, a, b, found, n)
<1> DEFINE g == [i \in 0 .. n |-> Back(f, a, b, found, i)]
<1>1. \A i \in 0 .. n - 1 : i \in 0 .. n /\ g[i] = f[i]
  <2>1. \A i \in 0 .. n - 1 : f[i] = Back(f, a, b, found, i)
    BY DEF WayTable
  <2>2. QED
    BY <2>1
<1>2. \A i \in 0 .. n : i # 0 => i - 1 \in 0 .. n - 1
  OBVIOUS
<1> HIDE DEF g
<1>3. \A i \in 0 .. n : Back(f, a, b, found, i) = Back(g, a, b, found, i)
  <2>1. TAKE i \in 0 .. n
  <2>2. i # 0 => f[i - 1] = g[i - 1]
    BY <1>1, <1>2
  <2>3. QED
    BY <2>2 DEF Back
<1>4. g = [i \in 0 .. n |-> Back(g, a, b, found, i)]
  BY <1>3 DEF g
<1>5. QED
  BY <1>4 DEF WayTable

\* Way satisfies its equations.
LEMMA WayIsDefined ==
  ASSUME NEW a, NEW b, NEW found \in Nat
  PROVE  /\ Way(a, b, found)[0] = [x |-> Len(a), y |-> Len(b), script |-> <<>>]
         /\ \A n \in 1 .. found :
              Way(a, b, found)[n] = StepBack(Trace(a, b), found - n + 1, Way(a, b, found)[n - 1])
<1> DEFINE S == {m \in Nat : ~\E f : WayTable(f, a, b, found, m)}
<1>1. \E f : WayTable(f, a, b, found, found)
  <2>1. SUFFICES ASSUME S # {} PROVE FALSE
    OBVIOUS
  <2>2. PICK m \in S : \A h \in S : m <= h
    BY <2>1, LeastNumber
  <2>3. CASE m = 0
    <3> DEFINE f == [i \in 0 .. 0 |-> Back(<<>>, a, b, found, 0)]
    <3>1. f = [i \in 0 .. 0 |-> Back(f, a, b, found, i)]
      BY DEF Back
    <3>2. WayTable(f, a, b, found, 0)
      BY <3>1 DEF WayTable
    <3>3. QED
      BY <2>2, <2>3, <3>2
  <2>4. CASE m # 0
    <3>1. m \in Nat \ {0} /\ m - 1 \in Nat /\ m - 1 \notin S
      BY <2>2, <2>4
    <3>2. PICK f : WayTable(f, a, b, found, m - 1)
      BY <3>1
    <3>3. QED
      BY <2>2, <3>1, <3>2, LongerWay
  <2>5. QED
    BY <2>3, <2>4
<1>2. Way(a, b, found) = CHOOSE f : WayTable(f, a, b, found, found)
  BY DEF Way, WayTable, Back
<1>3. WayTable(Way(a, b, found), a, b, found, found)
  BY <1>1, <1>2
<1> DEFINE W == Way(a, b, found)
<1> HIDE DEF W
<1>4. \A n \in 0 .. found : W[n] = Back(W, a, b, found, n)
  BY <1>3 DEF WayTable, W
<1>5. 0 \in 0 .. found /\ \A n \in 1 .. found : n \in 0 .. found /\ n # 0
  OBVIOUS
<1>6. W[0] = [x |-> Len(a), y |-> Len(b), script |-> <<>>]
  BY <1>4, <1>5 DEF Back
<1>7. \A n \in 1 .. found : W[n] = StepBack(Trace(a, b), found - n + 1, W[n - 1])
  BY <1>4, <1>5 DEF Back
<1>8. QED
  BY <1>6, <1>7 DEF W

\* Where the walk back has come to, and what the script it has made does.
OnWay(a, b, found, at, d) ==
  /\ at.x \in 0 .. Len(a) /\ at.y \in 0 .. Len(b)
  /\ at.x - at.y \in Diagonals(d) /\ at.x = Point(a, b, d, at.x - at.y)
  /\ \E e \in Nat : /\ Aligned(at.script, a, b, at.x, at.y, Len(a), Len(b), e)
                    /\ 2 * e = (Len(a) - at.x) + (Len(b) - at.y) - (found - d)

\* A change before a run of equal elements.
LEMMA AlignedStep ==
  ASSUME NEW a, NEW b, NEW p \in Nat, NEW q \in Nat, NEW x1 \in Nat, NEW y1 \in Nat, NEW r \in Nat, NEW kind,
         \/ kind = "insert" /\ p = x1 /\ q = y1 + 1
         \/ kind = "delete" /\ p = x1 + 1 /\ q = y1,
         SameItems(a, b, p, q, r), NEW s, NEW x2, NEW y2, NEW e \in Nat,
         Aligned(s, a, b, p + r, q + r, x2, y2, e)
  PROVE  Aligned(<<kind>> \o Times(r, "equal") \o s, a, b, x1, y1, x2, y2, e + r)
<1>1. <<kind>> = Times(1, kind)
  BY DEF Times
<1>2. Aligned(<<kind>>, a, b, x1, y1, p, q, 0)
  <2>1. CASE kind = "insert" /\ p = x1 /\ q = y1 + 1
    <3>1. Aligned(Times(1, "insert"), a, b, x1, y1, x1, y1 + 1, 0)
      BY AlignedInsert
    <3>2. QED
      BY <1>1, <2>1, <3>1
  <2>2. CASE kind = "delete" /\ p = x1 + 1 /\ q = y1
    <3>1. Aligned(Times(1, "delete"), a, b, x1, y1, x1 + 1, y1, 0)
      BY AlignedDelete
    <3>2. QED
      BY <1>1, <2>2, <3>1
  <2>3. QED
    BY <2>1, <2>2
<1>3. Aligned(Times(r, "equal"), a, b, p, q, p + r, q + r, r)
  BY AlignedEqual
<1>4. Aligned(<<kind>> \o Times(r, "equal"), a, b, x1, y1, p + r, q + r, 0 + r)
  BY <1>2, <1>3, AlignedJoined
<1> DEFINE t == <<kind>> \o Times(r, "equal")
<1>5. Aligned(t \o s, a, b, x1, y1, x2, y2, r + e)
  <2>1. Aligned(t, a, b, x1, y1, p + r, q + r, r)
    BY <1>4
  <2> HIDE DEF t
  <2>2. QED
    BY <2>1, AlignedJoined
<1>6. r + e = e + r
  OBVIOUS
<1>7. <<kind>> \o Times(r, "equal") \o s = (<<kind>> \o Times(r, "equal")) \o s
  OBVIOUS
<1>8. QED
  BY <1>5, <1>6, <1>7

\* The numbers of a turn of backtrack's loop.
LEMMA LeastOfRuns ==
  ASSUME NEW r \in Nat
  PROVE  Max({0, Min({r, r + 1})}) = r /\ Max({0, Min({r + 1, r})}) = r
<1>1. Min({r, r + 1}) = r /\ Min({r + 1, r}) = r
  BY MinOfTwo
<1>2. Max({0, r}) = r
  BY MaxOfTwo
<1>3. QED
  BY <1>1, <1>2

LEMMA BackNumbers ==
  ASSUME NEW N \in Nat, NEW M \in Nat, NEW d \in Nat, NEW found \in Nat, NEW e \in Nat, NEW r \in Nat, NEW k \in Int,
         NEW x \in 0 .. N, NEW y \in 0 .. M, NEW n \in Nat, NEW m \in Nat,
         k = x - y, m = n - k, x = n + r, 2 * e = (N - x) + (M - y) - (found - d)
  PROVE  /\ y = m + r /\ e + r \in Nat
         /\ x - n = r /\ y - (n - (k + 1)) = r + 1 /\ (x - r) - 0 = n /\ (y - r) - 1 = m - 1
         /\ n - (m - 1) = k + 1 /\ n \in 0 .. N /\ (m - 1 \in Nat => m - 1 \in 0 .. M)
         /\ 2 * (e + r) = (N - n) + (M - (m - 1)) - (found - (d - 1))
         /\ x - (n - 1) = r + 1 /\ y - ((n - 1) - (k - 1)) = r /\ (x - r) - 1 = n - 1 /\ (y - r) - 0 = m
         /\ (n - 1) - m = k - 1 /\ m \in 0 .. M /\ (n - 1 \in Nat => n - 1 \in 0 .. N)
         /\ 2 * (e + r) = (N - (n - 1)) + (M - m) - (found - (d - 1))
OBVIOUS

\* A turn of backtrack's loop stays on the way.
LEMMA StepBackOnWay ==
  ASSUME NEW a, NEW b, Len(a) \in Nat, Len(b) \in Nat, NEW d \in 1 .. Len(a) + Len(b), NEW found \in Nat,
         NEW at, OnWay(a, b, found, at, d)
  PROVE  OnWay(a, b, found, StepBack(Trace(a, b), d, at), d - 1)
<1> DEFINE v == Trace(a, b)[d]
           x == at.x
           y == at.y
           k == x - y
           n == Entry(a, b, d, k)
           m == n - k
           r == Run(a, b, n, m)
           to == StepBack(Trace(a, b), d, at)
           N == Len(a)
           M == Len(b)
<1>1. PICK e \in Nat : Aligned(at.script, a, b, x, y, N, M, e) /\ 2 * e = (N - x) + (M - y) - (found - d)
  BY DEF OnWay
<1>2. x \in 0 .. N /\ y \in 0 .. M /\ k \in Diagonals(d) /\ x = Point(a, b, d, k)
  BY DEF OnWay
<1>3. d \in 0 .. Len(a) + Len(b) /\ d > 0 /\ d - 1 \in 0 .. Len(a) + Len(b) /\ (d - 1) + 1 = d
  OBVIOUS
<1>4. n \in Nat /\ m \in Nat /\ k \in Int
  BY <1>2, <1>3, PointsAreNumbers, DiagonalsBefore
<1>5. x = n + r
  BY <1>2, <1>3, PointAfterRun
<1>6. r \in Nat /\ SameItems(a, b, n, m, r)
  <2> HIDE DEF n, m
  <2>1. QED
    BY <1>4, RunFits
<1>7. m = n - k /\ k = x - y /\ N \in Nat /\ M \in Nat /\ d \in Nat
  OBVIOUS
<1> HIDE DEF r
<1>8. /\ y = m + r /\ e + r \in Nat
      /\ x - n = r /\ y - (n - (k + 1)) = r + 1 /\ (x - r) - 0 = n /\ (y - r) - 1 = m - 1
      /\ n - (m - 1) = k + 1 /\ n \in 0 .. N /\ (m - 1 \in Nat => m - 1 \in 0 .. M)
      /\ 2 * (e + r) = (N - n) + (M - (m - 1)) - (found - (d - 1))
      /\ x - (n - 1) = r + 1 /\ y - ((n - 1) - (k - 1)) = r /\ (x - r) - 1 = n - 1 /\ (y - r) - 0 = m
      /\ (n - 1) - m = k - 1 /\ m \in 0 .. M /\ (n - 1 \in Nat => n - 1 \in 0 .. N)
      /\ 2 * (e + r) = (N - (n - 1)) + (M - m) - (found - (d - 1))
  <2> HIDE DEF x, y, k, n, m, N, M
  <2>1. r \in Nat /\ x \in 0 .. N /\ y \in 0 .. M /\ 2 * e = (N - x) + (M - y) - (found - d)
    BY <1>1, <1>2, <1>6
  <2>2. QED
    BY <1>4, <1>5, <1>7, <2>1, BackNumbers
<1>9. Aligned(at.script, a, b, n + r, m + r, N, M, e)
  BY <1>1, <1>5, <1>8
<1>10. CASE Down(v, d, k)
  <2> DEFINE p == v[k + 1]
             same == Max({0, Min({x - p, y - (p - (k + 1))})})
  <2>1. k + 1 \in Diagonals(d - 1) /\ n = Point(a, b, d - 1, k + 1)
    BY <1>2, <1>3, <1>10, EntryIs
  <2>2. p = n
    BY <1>3, <2>1 DEF Point
  <2>3. /\ to.x = (x - same) - 0 /\ to.y = (y - same) - 1
        /\ to.script = <<"insert">> \o Times(same, "equal") \o at.script
    BY <1>10 DEF StepBack
  <2> HIDE DEF to, v, n, m, k, x, y, N, M
  <2>4. same = r
    BY <1>6, <1>8, <2>2, LeastOfRuns
  <2> HIDE DEF p, same
  <2>5. to.x = n /\ to.y = m - 1 /\ to.script = <<"insert">> \o Times(r, "equal") \o at.script
    BY <1>8, <2>3, <2>4
  <2>6. m - 1 \in Nat
    <3>1. n - (k + 1) \in Nat
      BY <1>3, <2>1, PointsAreNumbers
    <3>2. QED
      BY <1>4, <1>7, <3>1
  <2>7. Aligned(<<"insert">> \o Times(r, "equal") \o at.script, a, b, n, m - 1, N, M, e + r)
    <3>1. m = (m - 1) + 1
      BY <1>4
    <3>2. QED
      BY <1>4, <1>6, <1>9, <2>6, <3>1, AlignedStep
  <2>8. /\ to.x - to.y \in Diagonals(d - 1) /\ to.x = Point(a, b, d - 1, to.x - to.y)
        /\ to.x \in 0 .. N /\ to.y \in 0 .. M
    BY <1>8, <2>1, <2>5, <2>6
  <2>9. /\ Aligned(to.script, a, b, to.x, to.y, N, M, e + r)
        /\ 2 * (e + r) = (N - to.x) + (M - to.y) - (found - (d - 1))
    BY <1>8, <2>5, <2>7
  <2>10. QED
    BY <1>8, <2>8, <2>9 DEF OnWay, to, N, M
<1>11. CASE ~Down(v, d, k)
  <2> DEFINE p == v[k - 1]
             same == Max({0, Min({x - p, y - (p - (k - 1))})})
  <2>1. k - 1 \in Diagonals(d - 1) /\ n = Point(a, b, d - 1, k - 1) + 1
    BY <1>2, <1>3, <1>11, EntryIs
  <2>2. Point(a, b, d - 1, k - 1) \in Nat
    BY <1>3, <2>1, PointsAreNumbers
  <2>3. p = Point(a, b, d - 1, k - 1)
    BY <1>3 DEF Point
  <2>4. /\ to.x = (x - same) - 1 /\ to.y = (y - same) - 0
        /\ to.script = <<"delete">> \o Times(same, "equal") \o at.script
    BY <1>11 DEF StepBack
  <2> HIDE DEF to, v, n, m, k, x, y, N, M
  <2>5. n - 1 = Point(a, b, d - 1, k - 1)
    BY <1>4, <2>1, <2>2
  <2>6. p = n - 1
    BY <2>3, <2>5
  <2>7. same = r
    <3>1. x - p = r + 1 /\ y - (p - (k - 1)) = r
      BY <1>8, <2>6
    <3>2. QED
      BY <1>6, <3>1, LeastOfRuns
  <2> HIDE DEF p, same
  <2>8. to.x = n - 1 /\ to.y = m /\ to.script = <<"delete">> \o Times(r, "equal") \o at.script
    BY <1>8, <2>4, <2>7
  <2>9. n - 1 \in Nat
    BY <2>2, <2>5
  <2>10. Aligned(<<"delete">> \o Times(r, "equal") \o at.script, a, b, n - 1, m, N, M, e + r)
    <3>1. n = (n - 1) + 1
      BY <1>4
    <3>2. QED
      BY <1>4, <1>6, <1>9, <2>9, <3>1, AlignedStep
  <2>11. /\ to.x - to.y \in Diagonals(d - 1) /\ to.x = Point(a, b, d - 1, to.x - to.y)
         /\ to.x \in 0 .. N /\ to.y \in 0 .. M
    BY <1>8, <2>1, <2>5, <2>8, <2>9
  <2>12. /\ Aligned(to.script, a, b, to.x, to.y, N, M, e + r)
         /\ 2 * (e + r) = (N - to.x) + (M - to.y) - (found - (d - 1))
    BY <1>8, <2>8, <2>10
  <2>13. QED
    BY <1>8, <2>11, <2>12 DEF OnWay, to, N, M
<1>12. QED
  BY <1>10, <1>11

\* So the loop ends on the first step, with a script for what it has passed.
LEMMA WayOnWay ==
  ASSUME NEW a, NEW b, Len(a) \in Nat, Len(b) \in Nat
  PROVE  OnWay(a, b, Edits(a, b, Len(a), Len(b)), Way(a, b, Edits(a, b, Len(a), Len(b)))[Edits(a, b, Len(a), Len(b))], 0)
<1> DEFINE N == Len(a)
           M == Len(b)
           found == Edits(a, b, N, M)
           W == Way(a, b, found)
           T == {n \in 0 .. found : ~OnWay(a, b, found, W[n], found - n)}
<1>1. found \in 0 .. N + M /\ N - M \in Diagonals(found) /\ N \in Nat /\ M \in Nat
  <2>1. N \in 0 .. Len(a) /\ M \in 0 .. Len(b)
    OBVIOUS
  <2>2. QED
    BY <2>1, EditsAre
<1>2. Point(a, b, found, N - M) = N
  BY SearchEnds
<1> HIDE DEF found
<1>3. found \in Nat
  BY <1>1
<1>4. /\ W[0] = [x |-> N, y |-> M, script |-> <<>>]
      /\ \A n \in 1 .. found : W[n] = StepBack(Trace(a, b), found - n + 1, W[n - 1])
  BY <1>3, WayIsDefined
<1> HIDE DEF W
<1>5. OnWay(a, b, found, W[0], found - 0)
  <2> DEFINE at == W[0]
  <2>1. at.x = N /\ at.y = M /\ at.script = <<>>
    BY <1>4
  <2> HIDE DEF at
  <2>2. Aligned(<<>>, a, b, N, M, N, M, 0)
    BY <1>1, AlignedNothing
  <2>3. 0 \in Nat /\ 2 * 0 = (N - N) + (M - M) - (found - found) /\ found - 0 = found
    BY <1>1, <1>3
  <2>4. at.x \in 0 .. Len(a) /\ at.y \in 0 .. Len(b) /\ at.x - at.y \in Diagonals(found)
    BY <1>1, <2>1
  <2>5. at.x = Point(a, b, found, at.x - at.y)
    BY <1>2, <2>1
  <2>6. Aligned(at.script, a, b, at.x, at.y, N, M, 0) /\ 2 * 0 = (N - at.x) + (M - at.y) - (found - found)
    BY <2>1, <2>2, <2>3
  <2>7. OnWay(a, b, found, at, found)
    BY <2>4, <2>5, <2>6 DEF OnWay
  <2>8. QED
    BY <2>3, <2>7 DEF at
<1>6. ASSUME T # {} PROVE FALSE
  <2>1. PICK n \in T : \A m \in T : n <= m
    <3>1. T \in SUBSET Nat
      BY <1>3
    <3>2. QED
      BY <1>6, <3>1, LeastNumber
  <2>2. n \in 0 .. found /\ ~OnWay(a, b, found, W[n], found - n)
    OBVIOUS
  <2>3. n # 0
    BY <1>5, <2>2
  <2>4. n - 1 \in 0 .. found /\ n - 1 \notin T /\ n \in 1 .. found
    BY <1>3, <2>1, <2>2, <2>3
  <2>5. OnWay(a, b, found, W[n - 1], found - (n - 1))
    BY <2>4
  <2> DEFINE d == found - (n - 1)
  <2>6. d \in 1 .. Len(a) + Len(b) /\ found - n + 1 = d /\ d - 1 = found - n
    BY <1>1, <1>3, <2>4
  <2> HIDE DEF d
  <2>7. OnWay(a, b, found, W[n - 1], d)
    BY <2>5 DEF d
  <2>8. OnWay(a, b, found, StepBack(Trace(a, b), d, W[n - 1]), d - 1)
    BY <1>3, <2>6, <2>7, StepBackOnWay
  <2>9. W[n] = StepBack(Trace(a, b), d, W[n - 1])
    BY <1>4, <2>4, <2>6
  <2>10. QED
    BY <2>2, <2>6, <2>8, <2>9
<1>7. OnWay(a, b, found, W[found], found - found)
  <2>1. found \in 0 .. found /\ found \notin T
    BY <1>3, <1>6
  <2>2. QED
    BY <2>1
<1>8. found - found = 0
  BY <1>3
<1>9. QED
  BY <1>7, <1>8 DEF W, found

\* The script walked back keeps as much as can be kept.
LEMMA BacktrackIs ==
  ASSUME NEW a, NEW b, Len(a) \in Nat, Len(b) \in Nat
  PROVE  Aligned(Backtrack(a, b, Edits(a, b, Len(a), Len(b))), a, b, 0, 0, Len(a), Len(b),
                 Common(a, b, Len(a), Len(b)))
<1> DEFINE N == Len(a)
           M == Len(b)
           c == Common(a, b, N, M)
           found == Edits(a, b, N, M)
           at == Way(a, b, found)[found]
           x == at.x
           y == at.y
           s == at.script
           same == Min({x, y})
<1>1. OnWay(a, b, found, at, 0)
  BY WayOnWay
<1>2. c \in Nat /\ found = (N + M) - 2 * c /\ N \in Nat /\ M \in Nat
  <2>1. N \in 0 .. Len(a) /\ M \in 0 .. Len(b)
    OBVIOUS
  <2>2. c \in Nat
    BY <2>1, LongestIsNumber
  <2>3. found = (N + M) - 2 * c
    BY <2>2 DEF Edits
  <2>4. QED
    BY <2>2, <2>3
<1>3. Backtrack(a, b, found) = Times(y - same, "insert") \o Times(x - same, "delete") \o Times(same, "equal") \o s
  BY DEF Backtrack
<1> HIDE DEF found, at, c
<1>4. x \in 0 .. N /\ y \in 0 .. M /\ x - y \in Diagonals(0) /\ x = Point(a, b, 0, x - y)
  BY <1>1 DEF OnWay
<1>5. PICK e \in Nat : Aligned(s, a, b, x, y, N, M, e) /\ 2 * e = (N - x) + (M - y) - (found - 0)
  BY <1>1 DEF OnWay
<1> HIDE DEF x, y, s, N, M
<1>6. x - y = 0
  <2>1. 0 \in Nat /\ (0 = 0 => x - y = 0)
    BY <1>4, DiagonalsBefore
  <2>2. QED
    BY <2>1
<1>7. x \in Nat /\ y = x
  BY <1>2, <1>4, <1>6
<1>8. SameItems(a, b, 0, 0, x)
  <2>1. 0 \in 0 .. Len(a) + Len(b)
    OBVIOUS
  <2>2. 0 \in Diagonals(0) /\ x = Point(a, b, 0, 0)
    BY <1>4, <1>6
  <2>3. Entry(a, b, 0, 0) = 0
    BY <2>2, EntryFirst
  <2>4. Point(a, b, 0, 0) = 0 + Run(a, b, 0, 0 - 0)
    BY <2>1, <2>2, <2>3, PointAfterRun
  <2>5. 0 - 0 = 0 /\ Run(a, b, 0, 0) \in Nat
    BY RunFits
  <2>6. x = Run(a, b, 0, 0)
    BY <2>2, <2>4, <2>5
  <2>7. QED
    BY <2>6, RunFits
<1>9. same = x /\ y - same = 0 /\ x - same = 0
  <2>1. Min({x, x}) = x
    BY <1>7, MinOfTwo
  <2>2. QED
    BY <1>7, <2>1
<1> HIDE DEF same
<1>10. Aligned(Times(0, "insert"), a, b, 0, 0, 0, 0, 0) /\ Aligned(Times(0, "delete"), a, b, 0, 0, 0, 0, 0)
  <2>1. 0 \in Int /\ 0 \in Nat /\ 0 = 0 + 0
    OBVIOUS
  <2>2. QED
    BY <2>1, AlignedInsert, AlignedDelete, Zenon
<1>11. Aligned(Times(x, "equal"), a, b, 0, 0, x, x, x)
  <2>1. x = 0 + x
    BY <1>7
  <2>2. QED
    BY <1>7, <1>8, <2>1, AlignedEqual
<1>12. Aligned(s, a, b, x, x, N, M, e)
  BY <1>5, <1>7
<1> DEFINE t == Times(0, "insert") \o Times(0, "delete")
           u == t \o Times(x, "equal")
<1>13. Aligned(t, a, b, 0, 0, 0, 0, 0)
  <2>1. 0 \in Int /\ 0 = 0 + 0
    OBVIOUS
  <2>2. QED
    BY <1>10, <2>1, AlignedJoined, Zenon
<1> HIDE DEF t
<1>14. x = 0 + x
  BY <1>7
<1>15. Aligned(u, a, b, 0, 0, x, x, x)
  BY <1>11, <1>13, <1>14, AlignedJoined
<1> HIDE DEF u
<1>16. c = x + e
  BY <1>2, <1>5, <1>7
<1>17. Aligned(u \o s, a, b, 0, 0, N, M, c)
  BY <1>12, <1>15, <1>16, AlignedJoined
<1>19. Backtrack(a, b, found) = u \o s
  BY <1>3, <1>9 DEF u, t
<1>20. QED
  BY <1>17, <1>19 DEF c, found, N, M

\* With nothing there is nothing in common.
LEMMA NothingInCommon ==
  ASSUME NEW a, NEW b, Len(a) \in Nat, Len(b) \in Nat, NEW i \in 0 .. Len(a), NEW j \in 0 .. Len(b), i = 0 \/ j = 0
  PROVE  Common(a, b, i, j) = 0
BY LongestUnfolds

\* The search and the walk back give a script that keeps as much as can be kept.
LEMMA DiffMiddleIs ==
  ASSUME NEW a, NEW b, Len(a) \in Nat, Len(b) \in Nat
  PROVE  Aligned(DiffMiddle(a, b), a, b, 0, 0, Len(a), Len(b), Common(a, b, Len(a), Len(b)))
<1>1. Len(a) \in 0 .. Len(a) /\ Len(b) \in 0 .. Len(b)
  OBVIOUS
<1>2. CASE a = <<>>
  <2>1. Len(a) = 0 /\ DiffMiddle(a, b) = Times(Len(b), "insert")
    BY <1>2 DEF DiffMiddle
  <2>2. Len(b) = 0 + Len(b) /\ 0 \in Int
    OBVIOUS
  <2>3. Common(a, b, Len(a), Len(b)) = 0
    BY <1>1, <2>1, NothingInCommon
  <2>4. Aligned(Times(Len(b), "insert"), a, b, 0, 0, 0, Len(b), 0)
    BY <2>2, AlignedInsert, Zenon
  <2>5. QED
    BY <2>1, <2>3, <2>4
<1>3. CASE a # <<>> /\ b = <<>>
  <2>1. Len(b) = 0 /\ DiffMiddle(a, b) = Times(Len(a), "delete")
    BY <1>3 DEF DiffMiddle
  <2>2. Len(a) = 0 + Len(a) /\ 0 \in Int
    OBVIOUS
  <2>3. Common(a, b, Len(a), Len(b)) = 0
    BY <1>1, <2>1, NothingInCommon
  <2>4. Aligned(Times(Len(a), "delete"), a, b, 0, 0, Len(a), 0, 0)
    BY <2>2, AlignedDelete, Zenon
  <2>5. QED
    BY <2>1, <2>3, <2>4
<1>4. CASE a # <<>> /\ b # <<>>
  <2>1. Reached(a, b) # {} /\ Min(Reached(a, b)) = Edits(a, b, Len(a), Len(b))
    BY SearchEnds
  <2>2. DiffMiddle(a, b) = IF Reached(a, b) = {} THEN Times(Len(a), "delete") \o Times(Len(b), "insert")
                           ELSE Backtrack(a, b, Min(Reached(a, b)))
    BY <1>4 DEF DiffMiddle, Reached
  <2>3. DiffMiddle(a, b) = Backtrack(a, b, Edits(a, b, Len(a), Len(b)))
    BY <2>1, <2>2
  <2>4. QED
    BY <2>3, BacktrackIs
<1>5. QED
  BY <1>2, <1>3, <1>4

-------------------------------------------------------------------------------
(* The common beginning and end *)

\* What two beginnings have in common, one item at a time.
LEMMA LongestSteps ==
  ASSUME NEW a, NEW b, Len(a) \in Nat, Len(b) \in Nat
  PROVE  \A i \in 0 .. Len(a), j \in 0 .. Len(b) :
           /\ i = 0 \/ j = 0 => Common(a, b, i, j) = 0
           /\ i # 0 /\ j # 0 /\ a[i] = b[j] => Common(a, b, i, j) = Common(a, b, i - 1, j - 1) + 1
           /\ i # 0 /\ j # 0 /\ a[i] # b[j] =>
                Common(a, b, i, j) = Max({Common(a, b, i - 1, j), Common(a, b, i, j - 1)})
BY LongestUnfolds

\* c is what a has after its first p elements, or the beginning of it.
Continues(c, a, p) == \A i \in 1 .. Len(c) : c[i] = a[p + i]

\* With the common beginning taken off, as much less is in common.
LEMMA CommonAfterPrefix ==
  ASSUME NEW a, NEW b, NEW c, NEW d, Len(a) \in Nat, Len(b) \in Nat, Len(c) \in Nat, Len(d) \in Nat,
         NEW p \in Nat, p + Len(c) <= Len(a), p + Len(d) <= Len(b), SameItems(a, b, 0, 0, p),
         Continues(c, a, p), Continues(d, b, p)
  PROVE  Common(a, b, p + Len(c), p + Len(d)) = p + Common(c, d, Len(c), Len(d))
<1> DEFINE n == Len(c)
           m == Len(d)
           A(i, j) == Common(a, b, i, j)
           C(i, j) == Common(c, d, i, j)
           Good(i, j) == A(p + i, p + j) = p + C(i, j)
           T == {t \in Nat : \E i \in 0 .. n, j \in 0 .. m : i + j = t /\ ~Good(i, j)}
<1>1. n \in Nat /\ m \in Nat /\ n \in 0 .. n /\ m \in 0 .. m
  OBVIOUS
<1>2. \A i \in 0 .. Len(a), j \in 0 .. Len(b) :
        /\ A(i, j) \in Nat /\ A(i, j) <= i /\ A(i, j) <= j
        /\ (i > 0 => A(i - 1, j) <= A(i, j)) /\ (j > 0 => A(i, j - 1) <= A(i, j))
  <2>1. TAKE i \in 0 .. Len(a), j \in 0 .. Len(b)
  <2>2. A(i, j) \in Nat /\ A(i, j) <= i /\ A(i, j) <= j
    BY LongestIsNumber
  <2>3. (i > 0 => A(i - 1, j) <= A(i, j)) /\ (j > 0 => A(i, j - 1) <= A(i, j))
    BY LongestGrows
  <2>4. QED
    BY <2>2, <2>3
<1>3. \A i \in 0 .. Len(a), j \in 0 .. Len(b) :
        /\ i = 0 \/ j = 0 => A(i, j) = 0
        /\ i # 0 /\ j # 0 /\ a[i] = b[j] => A(i, j) = A(i - 1, j - 1) + 1
        /\ i # 0 /\ j # 0 /\ a[i] # b[j] => A(i, j) = Max({A(i - 1, j), A(i, j - 1)})
  BY LongestSteps
<1>4. \A i \in 0 .. n, j \in 0 .. m :
        /\ i = 0 \/ j = 0 => C(i, j) = 0
        /\ i # 0 /\ j # 0 /\ c[i] = d[j] => C(i, j) = C(i - 1, j - 1) + 1
        /\ i # 0 /\ j # 0 /\ c[i] # d[j] => C(i, j) = Max({C(i - 1, j), C(i, j - 1)})
  BY LongestSteps
<1>5. \A i \in 0 .. n, j \in 0 .. m : C(i, j) \in Nat
  BY LongestIsNumber
<1>6. A(p, p) = p
  <2> DEFINE z == 0
  <2>1. z \in Nat /\ z = 0 /\ z + p = p /\ z + p <= Len(a) /\ z + p <= Len(b) /\ z \in 0 .. Len(a) /\ z \in 0 .. Len(b)
    BY <1>1
  <2>2. SameItems(a, b, z, z, p)
    OBVIOUS
  <2>3. A(z, z) = 0
    BY <1>3, <2>1
  <2> HIDE DEF z
  <2>4. A(z + p, z + p) = A(z, z) + p
    BY <2>1, <2>2, RunGains
  <2>5. QED
    BY <2>1, <2>3, <2>4
<1>7. T \in SUBSET Nat /\ \A h \in 0 .. n, k \in 0 .. m : h + k \in Nat /\ (~Good(h, k) => h + k \in T)
  OBVIOUS
<1>8. /\ \A i \in 0 .. n : p + i \in 0 .. Len(a)
      /\ \A j \in 0 .. m : p + j \in 0 .. Len(b)
  OBVIOUS
<1>9. (\A i \in 1 .. n : c[i] = a[p + i]) /\ (\A i \in 1 .. m : d[i] = b[p + i])
  BY DEF Continues
<1> HIDE DEF A, C, n, m
<1>10. ASSUME T # {} PROVE FALSE
  <2> HIDE DEF T
  <2>1. PICK t \in T : \A u \in T : t <= u
    BY <1>7, <1>10, LeastNumber
  <2>2. PICK i \in 0 .. n, j \in 0 .. m : i + j = t /\ ~Good(i, j)
    BY <2>1 DEF T
  <2>3. ASSUME NEW h \in 0 .. n, NEW k \in 0 .. m, h + k < t
        PROVE  A(p + h, p + k) = p + C(h, k)
    <3>1. Good(h, k)
      <4> HIDE DEF Good
      <4>1. t \in Nat
        BY <1>7
      <4>2. QED
        BY <1>7, <2>1, <2>3, <4>1
    <3>2. QED
      BY <3>1
  <2>4. A(p + i, p + j) # p + C(i, j) /\ i \in Nat /\ j \in Nat
    BY <1>1, <2>2
  <2> DEFINE x == p + i
             y == p + j
  <2>5. x \in 0 .. Len(a) /\ y \in 0 .. Len(b)
    BY <1>8
  <2>6. x = p + i /\ y = p + j /\ x \in Nat /\ y \in Nat
    BY <2>4
  <2>7. A(x, y) # p + C(i, j)
    BY <2>4
  <2> HIDE DEF x, y
  <2>8. /\ A(x, y) \in Nat /\ A(x, y) <= x /\ A(x, y) <= y
        /\ (x > 0 => A(x - 1, y) <= A(x, y)) /\ (y > 0 => A(x, y - 1) <= A(x, y))
    BY <1>2, <2>5
  <2>9. i # 0 => i - 1 \in 0 .. n /\ (i - 1) + j < t /\ x - 1 = p + (i - 1) /\ x # 0 /\ x > 0 /\ i \in 1 .. n
    BY <1>1, <2>2, <2>4, <2>6
  <2>10. j # 0 => j - 1 \in 0 .. m /\ i + (j - 1) < t /\ y - 1 = p + (j - 1) /\ y # 0 /\ y > 0 /\ j \in 1 .. m
    BY <1>1, <2>2, <2>4, <2>6
  <2>11. CASE i = 0 \/ j = 0
    <3>1. C(i, j) = 0
      BY <1>4, <2>2, <2>11
    <3>2. A(x, y) <= p
      BY <2>6, <2>8, <2>11
    <3>3. A(x, y) >= p
      <4>1. CASE i = 0 /\ j = 0
        <5>1. x = p /\ y = p
          BY <2>6, <4>1
        <5>2. QED
          BY <1>6, <5>1
      <4>2. CASE i # 0
        <5>1. A(x - 1, y) = p + C(i - 1, j)
          BY <2>3, <2>6, <2>9, <4>2
        <5>2. C(i - 1, j) = 0
          BY <1>4, <2>9, <2>11, <4>2
        <5>3. QED
          BY <2>8, <2>9, <4>2, <5>1, <5>2
      <4>3. CASE j # 0
        <5>1. A(x, y - 1) = p + C(i, j - 1)
          BY <2>3, <2>6, <2>10, <4>3
        <5>2. C(i, j - 1) = 0
          BY <1>4, <2>10, <2>11, <4>3
        <5>3. QED
          BY <2>8, <2>10, <4>3, <5>1, <5>2
      <4>4. QED
        BY <4>1, <4>2, <4>3
    <3>4. QED
      BY <2>7, <2>8, <3>1, <3>2, <3>3
  <2>12. CASE i # 0 /\ j # 0
    <3>1. c[i] = a[x] /\ d[j] = b[y]
      BY <1>9, <2>6, <2>9, <2>10, <2>12
    <3>2. (i - 1) + (j - 1) < t
      BY <2>2, <2>4, <2>12
    <3>3. CASE a[x] = b[y]
      <4>1. C(i, j) = C(i - 1, j - 1) + 1
        BY <1>4, <2>12, <3>1, <3>3
      <4>2. A(x, y) = A(x - 1, y - 1) + 1
        BY <1>3, <2>5, <2>9, <2>10, <2>12, <3>3
      <4>3. A(x - 1, y - 1) = p + C(i - 1, j - 1)
        BY <2>3, <2>9, <2>10, <2>12, <3>2
      <4>4. C(i - 1, j - 1) \in Nat
        BY <1>5, <2>9, <2>10, <2>12
      <4>5. QED
        BY <2>7, <4>1, <4>2, <4>3, <4>4
    <3>4. CASE a[x] # b[y]
      <4> DEFINE f == C(i - 1, j)
                 g == C(i, j - 1)
      <4>1. C(i, j) = Max({f, g}) /\ f \in Nat /\ g \in Nat
        BY <1>4, <1>5, <2>9, <2>10, <2>12, <3>1, <3>4
      <4>2. A(x, y) = Max({A(x - 1, y), A(x, y - 1)})
        BY <1>3, <2>5, <2>9, <2>10, <2>12, <3>4
      <4>3. A(x - 1, y) = p + f /\ A(x, y - 1) = p + g
        BY <2>3, <2>6, <2>9, <2>10, <2>12
      <4> HIDE DEF f, g
      <4>4. Max({f, g}) = IF f >= g THEN f ELSE g
        BY <4>1, MaxOfTwo
      <4>5. Max({p + f, p + g}) = p + Max({f, g})
        <5> DEFINE u == p + f
                   v == p + g
        <5>1. u \in Int /\ v \in Int /\ u = p + f /\ v = p + g
          BY <4>1
        <5> HIDE DEF u, v
        <5>2. Max({u, v}) = IF u >= v THEN u ELSE v
          BY <5>1, MaxOfTwo
        <5>3. Max({u, v}) = p + Max({f, g})
          BY <4>1, <4>4, <5>1, <5>2
        <5>4. QED
          BY <5>1, <5>3
      <4>6. QED
        BY <2>7, <4>1, <4>2, <4>3, <4>5
    <3>5. QED
      BY <3>3, <3>4
  <2>13. QED
    BY <2>11, <2>12
<1>11. Good(n, m)
  <2> HIDE DEF T, Good
  <2>1. QED
    BY <1>1, <1>7, <1>10
<1>12. QED
  BY <1>11 DEF A, C, n, m

\* The script of any two sequences turns the one into the other and keeps as much
\* as they have in common.
LEMMA MyersDiffIs ==
  ASSUME NEW S, NEW a, a \in Seq(S), NEW b, b \in Seq(S)
  PROVE  Aligned(MyersDiff(a, b), a, b, 0, 0, Len(a), Len(b), Common(a, b, Len(a), Len(b)))
<1> DEFINE N == Len(a)
           M == Len(b)
           p == Run(a, b, 0, 0)
           ar == SubSeq(a, p + 1, N)
           br == SubSeq(b, p + 1, M)
           q == Run(Reverse(ar), Reverse(br), 0, 0)
           c == SubSeq(a, p + 1, N - q)
           d == SubSeq(b, p + 1, M - q)
           mid == DiffMiddle(c, d)
<1>1. N \in Nat /\ M \in Nat
  OBVIOUS
<1>2. p \in Nat /\ p <= N /\ p <= M /\ SameItems(a, b, 0, 0, p)
  <2>1. p \in Nat /\ (p > 0 => 0 + p <= N /\ 0 + p <= M) /\ SameItems(a, b, 0, 0, p)
    BY <1>1, RunFits
  <2> HIDE DEF p
  <2>2. QED
    BY <1>1, <2>1
<1>3. MyersDiff(a, b) = Times(p, "equal") \o mid \o Times(q, "equal")
  BY DEF MyersDiff
<1> HIDE DEF p
<1>4. /\ Len(ar) = N - p /\ \A i \in 1 .. N - p : ar[i] = a[p + i]
      /\ Len(br) = M - p /\ \A i \in 1 .. M - p : br[i] = b[p + i]
  <2>1. p + 1 \in 1 .. N + 1 /\ N \in p .. N /\ p + 1 \in 1 .. M + 1
    BY <1>1, <1>2
  <2>2. Len(ar) = N - p /\ \A i \in 1 .. N - p : ar[i] = a[p + i]
    BY <1>1, <1>2
  <2>3. Len(br) = M - p /\ \A i \in 1 .. M - p : br[i] = b[p + i]
    BY <1>1, <1>2
  <2>4. QED
    BY <2>2, <2>3
<1> DEFINE ra == Reverse(ar)
           rb == Reverse(br)
<1>5. /\ Len(ra) = N - p /\ \A i \in 1 .. N - p : ra[i] = a[N - i + 1]
      /\ Len(rb) = M - p /\ \A i \in 1 .. M - p : rb[i] = b[M - i + 1]
  <2> HIDE DEF ar, br
  <2>1. ra = [i \in 1 .. N - p |-> ar[(N - p) - i + 1]] /\ rb = [i \in 1 .. M - p |-> br[(M - p) - i + 1]]
    BY <1>4 DEF Reverse
  <2> HIDE DEF ra, rb
  <2>2. N - p \in Nat /\ M - p \in Nat
    BY <1>1, <1>2
  <2>3. Len(ra) = N - p /\ Len(rb) = M - p
    BY <2>1, <2>2
  <2>4. \A i \in 1 .. N - p : (N - p) - i + 1 \in 1 .. N - p /\ p + ((N - p) - i + 1) = N - i + 1
    BY <1>1, <1>2
  <2>5. \A i \in 1 .. N - p : ra[i] = a[N - i + 1]
    BY <1>4, <2>1, <2>4
  <2>6. \A i \in 1 .. M - p : (M - p) - i + 1 \in 1 .. M - p /\ p + ((M - p) - i + 1) = M - i + 1
    BY <1>1, <1>2
  <2>7. \A i \in 1 .. M - p : rb[i] = b[M - i + 1]
    BY <1>4, <2>1, <2>6
  <2>8. QED
    BY <2>3, <2>5, <2>7
<1>6. q \in Nat /\ q <= N - p /\ q <= M - p /\ \A i \in 1 .. q : a[N - i + 1] = b[M - i + 1]
  <2> HIDE DEF ra, rb
  <2>1. Len(ra) \in Nat /\ Len(rb) \in Nat /\ q = Run(ra, rb, 0, 0)
    BY <1>1, <1>2, <1>5 DEF ra, rb
  <2> HIDE DEF q
  <2>2. q \in Nat /\ (q > 0 => 0 + q <= Len(ra) /\ 0 + q <= Len(rb)) /\ SameItems(ra, rb, 0, 0, q)
    BY <2>1, RunFits
  <2>3. q \in Nat /\ q <= N - p /\ q <= M - p
    BY <1>1, <1>2, <1>5, <2>2
  <2>4. ASSUME NEW i \in 1 .. q PROVE a[N - i + 1] = b[M - i + 1]
    <3>1. ra[0 + i] = rb[0 + i]
      BY <2>2 DEF SameItems
    <3>2. 0 + i = i /\ i \in 1 .. N - p /\ i \in 1 .. M - p
      BY <1>1, <1>2, <2>3
    <3>3. QED
      BY <1>5, <3>1, <3>2
  <2>5. QED
    BY <2>3, <2>4
<1> HIDE DEF q, ar, br, ra, rb
<1> DEFINE n == (N - q) - p
           m == (M - q) - p
<1>7. n \in Nat /\ m \in Nat /\ p + n + q = N /\ p + m + q = M
  BY <1>1, <1>2, <1>6
<1>8. /\ Len(c) = n /\ \A i \in 1 .. n : c[i] = a[p + i]
      /\ Len(d) = m /\ \A i \in 1 .. m : d[i] = b[p + i]
  <2>1. Len(c) = n /\ \A i \in 1 .. n : c[i] = a[p + i]
    BY <1>1, <1>2, <1>6
  <2>2. Len(d) = m /\ \A i \in 1 .. m : d[i] = b[p + i]
    BY <1>1, <1>2, <1>6
  <2>3. QED
    BY <2>1, <2>2
<1> DEFINE e == Common(c, d, n, m)
<1> HIDE DEF c, d, n, m
<1>9. Aligned(mid, c, d, 0, 0, n, m, e) /\ e \in Nat
  <2>1. Len(c) \in Nat /\ Len(d) \in Nat
    BY <1>7, <1>8
  <2>2. Aligned(mid, c, d, 0, 0, n, m, e)
    BY <1>8, <2>1, DiffMiddleIs
  <2>3. n \in 0 .. Len(c) /\ m \in 0 .. Len(d)
    BY <1>7, <1>8
  <2>4. QED
    BY <2>1, <2>2, <2>3, LongestIsNumber
<1> HIDE DEF mid
<1>10. Common(a, b, p + n, p + m) = p + e
  <2>1. Len(c) \in Nat /\ Len(d) \in Nat /\ p + Len(c) <= Len(a) /\ p + Len(d) <= Len(b)
    BY <1>1, <1>2, <1>6, <1>7, <1>8
  <2>2. Continues(c, a, p) /\ Continues(d, b, p)
    BY <1>8 DEF Continues
  <2>3. Common(a, b, p + Len(c), p + Len(d)) = p + Common(c, d, Len(c), Len(d))
    BY <1>1, <1>2, <2>1, <2>2, CommonAfterPrefix
  <2>4. QED
    BY <1>8, <2>3
<1> HIDE DEF e
<1> DEFINE x == p + n
           y == p + m
<1>11. x \in Nat /\ y \in Nat /\ x + q = N /\ y + q = M
  BY <1>2, <1>7
<1>12. SameItems(a, b, x, y, q)
  <2>1. ASSUME NEW i \in 1 .. q PROVE a[x + i] = b[y + i]
    <3> DEFINE j == q - i + 1
    <3>1. j \in 1 .. q /\ j = q - i + 1 /\ i \in Int /\ q \in Int
      BY <1>6
    <3> HIDE DEF j, x, y, N, M
    <3>2. N - j + 1 = x + i /\ M - j + 1 = y + i
      BY <1>1, <1>11, <3>1
    <3>3. QED
      BY <1>6, <3>1, <3>2
  <2>2. QED
    BY <2>1 DEF SameItems
<1> DEFINE k == p + e
           g == Common(a, b, N, M)
<1>13. k \in Nat /\ k = p + e
  BY <1>2, <1>9
<1>14. Common(a, b, x, y) = k
  BY <1>10
<1> HIDE DEF x, y, k
<1>15. g = k + q
  <2>1. x + q <= Len(a) /\ y + q <= Len(b)
    BY <1>1, <1>11
  <2>2. Common(a, b, x + q, y + q) = Common(a, b, x, y) + q
    BY <1>1, <1>6, <1>11, <1>12, <2>1, RunGains
  <2>3. QED
    BY <1>11, <1>14, <2>2
<1> HIDE DEF g
<1>16. Aligned(Times(p, "equal"), a, b, 0, 0, p, p, p)
  <2>1. 0 \in Int /\ p = 0 + p
    BY <1>2
  <2>2. QED
    BY <1>2, <2>1, AlignedEqual
<1>17. Aligned(mid, a, b, p, p, x, y, e)
  BY <1>2, <1>7, <1>8, <1>9, AlignedWithin DEF x, y
<1> DEFINE t == Times(p, "equal") \o mid
<1>18. Aligned(t, a, b, 0, 0, x, y, k)
  BY <1>13, <1>16, <1>17, AlignedJoined
<1> HIDE DEF t
<1>19. Aligned(Times(q, "equal"), a, b, x, y, N, M, q)
  <2>1. N = x + q /\ M = y + q
    BY <1>11
  <2>2. QED
    BY <1>6, <1>11, <1>12, <2>1, AlignedEqual
<1>20. Aligned(t \o Times(q, "equal"), a, b, 0, 0, N, M, g)
  BY <1>15, <1>18, <1>19, AlignedJoined
<1>21. MyersDiff(a, b) = t \o Times(q, "equal")
  BY <1>3 DEF t
<1>22. QED
  BY <1>20, <1>21 DEF g

\* For any two sequences the diff is minimal.
LEMMA MyersDiffIsMinimal ==
  ASSUME NEW S, NEW a, a \in Seq(S), NEW b, b \in Seq(S)
  PROVE  MyersDiff(a, b) \in Seq(Kinds) /\ IsMinimalScript(MyersDiff(a, b), a, b)
<1> DEFINE s == MyersDiff(a, b)
<1>1. Aligned(s, a, b, 0, 0, Len(a), Len(b), Common(a, b, Len(a), Len(b)))
  BY MyersDiffIs
<1> HIDE DEF s
<1>2. s \in Seq(Kinds) /\ Len(s) \in Nat
  BY <1>1 DEF Aligned
<1>3. \A i \in 0 .. Len(s) : Passed(s, OnLeft, i) \in Nat /\ Passed(s, OnRight, i) \in Nat
  BY <1>2, PassedNumber
<1>4. Len(s) \in 0 .. Len(s) /\ \A i \in 1 .. Len(s) : i \in 0 .. Len(s)
  BY <1>2
<1>5. /\ 0 + Passed(s, OnLeft, Len(s)) = Len(a) /\ 0 + Passed(s, OnRight, Len(s)) = Len(b)
      /\ Passed(s, OnBoth, Len(s)) = Common(a, b, Len(a), Len(b))
      /\ \A i \in 1 .. Len(s) : s[i] = "equal" => a[0 + Passed(s, OnLeft, i)] = b[0 + Passed(s, OnRight, i)]
  BY <1>1 DEF Aligned
<1>6. Passed(s, OnLeft, Len(s)) = Len(a) /\ Passed(s, OnRight, Len(s)) = Len(b)
  BY <1>3, <1>4, <1>5
<1>7. ASSUME NEW i \in 1 .. Len(s), s[i] = "equal"
      PROVE  a[Passed(s, OnLeft, i)] = b[Passed(s, OnRight, i)]
  <2>1. 0 + Passed(s, OnLeft, i) = Passed(s, OnLeft, i) /\ 0 + Passed(s, OnRight, i) = Passed(s, OnRight, i)
    BY <1>3, <1>4
  <2>2. QED
    BY <1>5, <1>7, <2>1
<1>8. DOMAIN s = 1 .. Len(s)
  BY <1>2
<1>9. IsMinimalScript(s, a, b)
  BY <1>5, <1>6, <1>7, <1>8 DEF IsMinimalScript, Common, OnLeft, OnRight, OnBoth
<1>10. QED
  BY <1>2, <1>9 DEF s

-------------------------------------------------------------------------------
(* The result: the lines and their numbers *)

Lines == [words : Seq(Int), padded : BOOLEAN]

DiffTyped ==
  /\ leftDoc \in Seq(Lines) /\ rightDoc \in Seq(Lines)
  /\ options \in [ignoreWhitespace : BOOLEAN, ignoreCase : BOOLEAN, context : Nat]

\* The documents compared, and the words of a line, are sequences.
LEMMA NormalIsSequence ==
  ASSUME NEW doc, doc \in Seq(Lines)
  PROVE  /\ [i \in DOMAIN doc |-> Normalize(doc[i])] \in Seq({Normalize(line) : line \in Lines})
         /\ Len([i \in DOMAIN doc |-> Normalize(doc[i])]) = Len(doc)
<1>1. DOMAIN doc = 1 .. Len(doc) /\ Len(doc) \in Nat /\ \A i \in 1 .. Len(doc) : doc[i] \in Lines
  OBVIOUS
<1>2. \A i \in 1 .. Len(doc) : Normalize(doc[i]) \in {Normalize(line) : line \in Lines}
  BY <1>1
<1>3. QED
  BY <1>1, <1>2

LEMMA TokensAreSequence ==
  ASSUME NEW line \in Lines
  PROVE  \E S : Tokens(line) \in Seq(S)
<1> DEFINE n == Len(line.words)
           k == Max({0, 2 * n - 1}) + (IF line.padded THEN 1 ELSE 0)
           Item(i) == IF i % 2 = 1 /\ i < 2 * n THEN line.words[(i + 1) \div 2] ELSE 0
           S == {Item(i) : i \in 1 .. k}
<1>1. n \in Nat
  BY DEF Lines
<1>2. k \in Nat
  <2>1. Max({0, 2 * n - 1}) = IF 0 >= 2 * n - 1 THEN 0 ELSE 2 * n - 1
    BY <1>1, MaxOfTwo
  <2>2. QED
    BY <1>1, <2>1
<1>3. Tokens(line) = [i \in 1 .. k |-> Item(i)]
  BY DEF Tokens
<1> HIDE DEF n, k, Item
<1>4. [i \in 1 .. k |-> Item(i)] \in Seq(S)
  BY <1>2
<1>5. QED
  BY <1>3, <1>4

\* The script of two documents is minimal and has every line of both.
LEMMA ScriptIsMinimal ==
  ASSUME DiffTyped
  PROVE  /\ Script \in Seq(Kinds)
         /\ IsMinimalScript(Script, [i \in DOMAIN leftDoc |-> Normalize(leftDoc[i])],
                            [i \in DOMAIN rightDoc |-> Normalize(rightDoc[i])])
         /\ Passed(Script, OnLeft, Len(Script)) = Len(leftDoc)
         /\ Passed(Script, OnRight, Len(Script)) = Len(rightDoc)
<1> DEFINE a == [i \in DOMAIN leftDoc |-> Normalize(leftDoc[i])]
           b == [i \in DOMAIN rightDoc |-> Normalize(rightDoc[i])]
           S == {Normalize(line) : line \in Lines}
<1>1. a \in Seq(S) /\ b \in Seq(S) /\ Len(a) = Len(leftDoc) /\ Len(b) = Len(rightDoc)
  BY NormalIsSequence DEF DiffTyped
<1>2. Script = MyersDiff(a, b)
  BY DEF Script
<1> HIDE DEF a, b, S
<1>3. Script \in Seq(Kinds) /\ IsMinimalScript(Script, a, b)
  BY <1>1, <1>2, MyersDiffIsMinimal
<1>4. Passed(Script, OnLeft, Len(Script)) = Len(a) /\ Passed(Script, OnRight, Len(Script)) = Len(b)
  BY <1>3 DEF IsMinimalScript, OnLeft, OnRight
<1>5. QED
  BY <1>1, <1>3, <1>4 DEF a, b

Numbered(script, K, i) == IF script[i] \in K THEN Passed(script, K, i) ELSE 0

\* A line on a side has the number that it has in the document.
LEMMA NumberedIs ==
  ASSUME NEW s, s \in Seq(Kinds), NEW K, NEW i \in 1 .. Len(s)
  PROVE  /\ s[i] \notin K => Numbered(s, K, i) = 0
         /\ s[i] \in K => /\ Numbered(s, K, i) = Passed(s, K, i)
                          /\ Numbered(s, K, i) \in 1 .. Passed(s, K, Len(s))
<1>1. ASSUME s[i] \in K
      PROVE  Passed(s, K, i) \in 1 .. Passed(s, K, Len(s))
  <2>1. Passed(s, K, i - 1) \in Nat /\ Passed(s, K, i) = Passed(s, K, i - 1) + Counted(s, K, i)
    BY PassedSteps
  <2>2. Counted(s, K, i) = 1
    BY <1>1 DEF Counted
  <2>3. i \in 0 .. Len(s) /\ Len(s) \in i .. Len(s) /\ Len(s) \in 0 .. Len(s)
    OBVIOUS
  <2>4. Passed(s, K, i) <= Passed(s, K, Len(s))
    BY <2>3, PassedGrows
  <2>5. Passed(s, K, Len(s)) \in Nat
    BY <2>3, PassedNumber
  <2>6. QED
    BY <2>1, <2>2, <2>4, <2>5
<1>2. QED
  BY <1>1 DEF Numbered

\* The lines shown are typed and numbered.
LEMMA DiffLinesAre ==
  ASSUME DiffTyped
  PROVE  /\ DiffLines \in Seq([kind : Kinds, leftNumber : Nat, rightNumber : Nat, text : Lines])
         /\ Len(DiffLines) = Len(Script)
         /\ \A i \in 1 .. Len(Script) : /\ DiffLines[i].leftNumber = Numbered(Script, OnLeft, i)
                                        /\ DiffLines[i].rightNumber = Numbered(Script, OnRight, i)
<1> DEFINE s == Script
           L(i) == IF s[i] = "insert" THEN 0 ELSE Passed(s, {"equal", "delete"}, i)
           R(i) == IF s[i] = "delete" THEN 0 ELSE Passed(s, {"equal", "insert"}, i)
           Entered(i) == [kind |-> s[i], leftNumber |-> L(i), rightNumber |-> R(i),
                          text |-> IF L(i) # 0 THEN leftDoc[L(i)] ELSE rightDoc[R(i)]]
           Type == [kind : Kinds, leftNumber : Nat, rightNumber : Nat, text : Lines]
<1>1. DiffLines = [i \in DOMAIN s |-> Entered(i)]
  BY DEF DiffLines
<1> HIDE DEF s
<1>2. s \in Seq(Kinds) /\ Passed(s, OnLeft, Len(s)) = Len(leftDoc) /\ Passed(s, OnRight, Len(s)) = Len(rightDoc)
  BY ScriptIsMinimal DEF s
<1>3. Len(s) \in Nat /\ DOMAIN s = 1 .. Len(s) /\ \A i \in 1 .. Len(s) : s[i] \in Kinds
  BY <1>2
<1>4. ASSUME NEW i \in 1 .. Len(s)
      PROVE  L(i) = Numbered(s, OnLeft, i) /\ R(i) = Numbered(s, OnRight, i) /\ Entered(i) \in Type
  <2>1. s[i] \in Kinds
    BY <1>3
  <2>2. (s[i] = "insert" <=> s[i] \notin OnLeft) /\ (s[i] = "delete" <=> s[i] \notin OnRight)
    BY <2>1 DEF Kinds, OnLeft, OnRight
  <2>3. L(i) = Numbered(s, OnLeft, i) /\ R(i) = Numbered(s, OnRight, i)
    BY <2>2 DEF Numbered, OnLeft, OnRight
  <2> HIDE DEF L, R
  <2>4. /\ s[i] \notin OnLeft => L(i) = 0
        /\ s[i] \in OnLeft => L(i) \in 1 .. Len(leftDoc)
    BY <1>2, <2>3, NumberedIs
  <2>5. /\ s[i] \notin OnRight => R(i) = 0
        /\ s[i] \in OnRight => R(i) \in 1 .. Len(rightDoc)
    BY <1>2, <2>3, NumberedIs
  <2>6. Len(leftDoc) \in Nat /\ Len(rightDoc) \in Nat
    BY DEF DiffTyped
  <2>7. L(i) \in Nat /\ R(i) \in Nat
    BY <2>4, <2>5, <2>6
  <2>8. (IF L(i) # 0 THEN leftDoc[L(i)] ELSE rightDoc[R(i)]) \in Lines
    <3>1. CASE L(i) # 0
      <4>1. L(i) \in 1 .. Len(leftDoc)
        BY <2>4, <3>1
      <4>2. leftDoc[L(i)] \in Lines
        BY <4>1 DEF DiffTyped
      <4>3. QED
        BY <3>1, <4>2
    <3>2. CASE L(i) = 0
      <4>1. s[i] \in OnRight
        BY <2>2, <2>4, <2>6, <3>2
      <4>2. R(i) \in 1 .. Len(rightDoc)
        BY <2>5, <4>1
      <4>3. rightDoc[R(i)] \in Lines
        BY <4>2 DEF DiffTyped
      <4>4. QED
        BY <3>2, <4>3
    <3>3. QED
      BY <3>1, <3>2
  <2>9. Entered(i) \in Type
    BY <2>1, <2>7, <2>8
  <2>10. QED
    BY <2>3, <2>9
<1> HIDE DEF L, R
<1>5. \A i \in 1 .. Len(s) : Entered(i).leftNumber = L(i) /\ Entered(i).rightNumber = R(i)
  OBVIOUS
<1> HIDE DEF Entered, Type
<1>6. DiffLines \in Seq(Type) /\ Len(DiffLines) = Len(s)
  BY <1>1, <1>3, <1>4
<1>7. \A i \in 1 .. Len(s) : /\ DiffLines[i].leftNumber = Numbered(s, OnLeft, i)
                             /\ DiffLines[i].rightNumber = Numbered(s, OnRight, i)
  BY <1>1, <1>3, <1>4, <1>5
<1>8. QED
  BY <1>6, <1>7 DEF s, Type

\* The words of a paired line are compared by a minimal script.
LEMMA WordsAreMinimal ==
  ASSUME NEW lines, NEW i, lines[i].text \in Lines, lines[i + 1].text \in Lines
  PROVE  IsMinimalScript(Words(lines, i), Tokens(lines[i].text), Tokens(lines[i + 1].text))
<1> DEFINE a == Tokens(lines[i].text)
           b == Tokens(lines[i + 1].text)
<1>1. PICK S : a \in Seq(S)
  BY TokensAreSequence
<1>2. PICK U : b \in Seq(U)
  BY TokensAreSequence
<1> HIDE DEF a, b
<1>3. a \in Seq(S \cup U) /\ b \in Seq(S \cup U)
  BY <1>1, <1>2
<1>4. IsMinimalScript(MyersDiff(a, b), a, b)
  BY <1>3, MyersDiffIsMinimal
<1>5. QED
  BY <1>4 DEF Words, a, b

-------------------------------------------------------------------------------
(* The hunks: on either side, the lines of a hunk have successive numbers *)

\* The lines of start .. end that are on a side.
OnSide(s, K, start, end) == {i \in start .. end : s[i] \in K}

\* How many lines of a stretch are on a side.
LEMMA OnSideCounts ==
  ASSUME NEW s, s \in Seq(Kinds), NEW K, NEW start \in Nat \ {0}, NEW end \in start .. Len(s)
  PROVE  /\ IsFiniteSet(OnSide(s, K, start, end))
         /\ Cardinality(OnSide(s, K, start, end)) = Passed(s, K, end) - Passed(s, K, start - 1)
<1> DEFINE A == {j \in 1 .. end : s[j] \in K}
           B == {j \in 1 .. start - 1 : s[j] \in K}
           C == OnSide(s, K, start, end)
<1>1. IsFiniteSet(A) /\ IsFiniteSet(B)
  <2>1. IsFiniteSet(1 .. end) /\ IsFiniteSet(1 .. start - 1)
    BY FS_Interval
  <2>2. A \subseteq 1 .. end /\ B \subseteq 1 .. start - 1
    OBVIOUS
  <2>3. QED
    BY <2>1, <2>2, FS_Subset
<1>2. C = A \ B /\ A \cap B = B
  BY DEF OnSide
<1>3. Cardinality(A) = Passed(s, K, end) /\ Cardinality(B) = Passed(s, K, start - 1)
  BY DEF Passed
<1> HIDE DEF A, B, C
<1>4. IsFiniteSet(A \ B) /\ Cardinality(A \ B) = Cardinality(A) - Cardinality(A \cap B)
  BY <1>1, FS_Difference
<1>5. QED
  BY <1>2, <1>3, <1>4 DEF C

\* A numbering of the lines, the numbered ones of a stretch, the first and all
\* of their numbers.
NumbersLines(f, s, K) == \A i \in 1 .. Len(s) : f[i] = Numbered(s, K, i)
LinesOn(f, start, end) == {i \in start .. end : f[i] # 0}
FirstOn(f, start, end) ==
  IF LinesOn(f, start, end) = {} THEN 0 ELSE f[Min(LinesOn(f, start, end))]
NumbersOn(f, start, end) == {f[i] : i \in start .. end} \ {0}

\* The numbers of a stretch of lines on one side succeed each other.
LEMMA NumbersAreSuccessive ==
  ASSUME NEW s \in Seq(Kinds), NEW K, NEW start \in Nat \ {0}, NEW end \in 0 .. Len(s),
         NEW f, NumbersLines(f, s, K)
  PROVE  NumbersOn(f, start, end) =
           FirstOn(f, start, end) .. FirstOn(f, start, end) + Cardinality(LinesOn(f, start, end)) - 1
<1> SUFFICES ASSUME NEW On, On = {i \in start .. end : f[i] # 0},
                    NEW first, first = IF On = {} THEN 0 ELSE f[Min(On)]
             PROVE  {f[i] : i \in start .. end} \ {0} = first .. first + Cardinality(On) - 1
  BY DEF NumbersOn, FirstOn, LinesOn
<1>0. \A i \in 1 .. Len(s) : f[i] = Numbered(s, K, i)
  BY DEF NumbersLines
<1>1. Len(s) \in Nat /\ end \in Nat /\ \A i \in start .. end : i \in 1 .. Len(s)
  OBVIOUS
<1>2. \A i \in start .. end : /\ f[i] = Numbered(s, K, i)
                              /\ s[i] \notin K => f[i] = 0
                              /\ s[i] \in K => f[i] = Passed(s, K, i) /\ f[i] \in Nat /\ f[i] # 0
  <2>1. TAKE i \in start .. end
  <2>2. i \in 1 .. Len(s) /\ f[i] = Numbered(s, K, i)
    BY <1>0, <1>1
  <2>3. Len(s) \in 0 .. Len(s)
    BY <1>1
  <2>4. Passed(s, K, Len(s)) \in Nat
    BY <2>3, PassedNumber
  <2>5. /\ s[i] \notin K => Numbered(s, K, i) = 0
        /\ s[i] \in K => /\ Numbered(s, K, i) = Passed(s, K, i)
                         /\ Numbered(s, K, i) \in 1 .. Passed(s, K, Len(s))
    BY <2>2, NumberedIs
  <2>6. QED
    BY <2>2, <2>4, <2>5
<1>3. On = OnSide(s, K, start, end) /\ On \in SUBSET Nat
  <2>1. On = OnSide(s, K, start, end)
    BY <1>2 DEF OnSide
  <2>2. \A i \in On : i \in Nat
    OBVIOUS
  <2>3. QED
    BY <2>1, <2>2
<1>4. {f[i] : i \in start .. end} \ {0} = {f[i] : i \in On}
  OBVIOUS
<1>5. CASE On = {}
  <2>1. first = 0 /\ Cardinality(On) = 0 /\ {f[i] : i \in On} = {}
    BY <1>5, FS_EmptySet
  <2>2. 0 .. 0 + 0 - 1 = {}
    OBVIOUS
  <2>3. QED
    BY <1>4, <2>1, <2>2
<1>6. CASE On # {}
  <2> DEFINE least == Min(On)
             P(i) == Passed(s, K, i)
             before == P(start - 1)
             after == P(end)
  <2>1. least \in On /\ \A i \in On : least <= i
    BY <1>3, <1>6, MinIsLeast
  <2>2. \A i \in On : i \in start .. end /\ s[i] \in K /\ f[i] = P(i)
    BY <1>2, <1>3 DEF OnSide
  <2> HIDE DEF least
  <2>3. start <= end /\ end \in start .. Len(s) /\ start - 1 \in 0 .. Len(s) /\ end \in 0 .. Len(s)
    BY <1>1, <2>1, <2>2
  <2>4. before \in Nat /\ after \in Nat
    BY <2>3, PassedNumber
  <2>5. Cardinality(On) = after - before
    BY <1>3, <2>3, OnSideCounts
  <2>6. \A i \in start .. end : /\ P(i) = P(i - 1) + Counted(s, K, i)
                                /\ P(i) \in Nat /\ P(i - 1) \in Nat
                                /\ Counted(s, K, i) = IF s[i] \in K THEN 1 ELSE 0
    <3>1. TAKE i \in start .. end
    <3>2. i \in 1 .. Len(s) /\ i \in 0 .. Len(s) /\ i - 1 \in 0 .. Len(s)
      BY <1>1
    <3>3. P(i) = P(i - 1) + Counted(s, K, i)
      BY <3>2, PassedSteps
    <3>4. P(i) \in Nat /\ P(i - 1) \in Nat
      BY <3>2, PassedNumber
    <3>5. Counted(s, K, i) = IF s[i] \in K THEN 1 ELSE 0
      BY DEF Counted
    <3>6. QED
      BY <3>3, <3>4, <3>5
  <2>7. P(least - 1) = before
    <3>1. least \in start .. end /\ \A i \in start .. least - 1 : i \in start .. end /\ i \notin On
      BY <1>1, <2>1, <2>2
    <3>2. \A i \in start .. least - 1 : s[i] \notin K
      BY <1>3, <3>1 DEF OnSide
    <3>3. {j \in 1 .. least - 1 : s[j] \in K} = {j \in 1 .. start - 1 : s[j] \in K}
      BY <3>1, <3>2
    <3>4. QED
      BY <3>3 DEF Passed
  <2>8. first = before + 1
    <3>1. least \in start .. end /\ s[least] \in K /\ f[least] = P(least)
      BY <2>1, <2>2
    <3>2. P(least) = P(least - 1) + 1
      BY <2>6, <3>1
    <3>3. first = f[least]
      BY <1>6 DEF least
    <3>4. QED
      BY <2>7, <3>1, <3>2, <3>3
  <2>9. ASSUME NEW i \in On PROVE f[i] \in before + 1 .. after
    <3>1. i \in start .. end /\ s[i] \in K /\ f[i] = P(i)
      BY <2>2
    <3>2. P(i) = P(i - 1) + 1 /\ P(i) \in Nat /\ P(i - 1) \in Nat
      BY <2>6, <3>1
    <3>3. i - 1 \in start - 1 .. Len(s) /\ i \in 0 .. Len(s) /\ end \in i .. Len(s)
      BY <1>1, <2>3, <3>1
    <3>4. before <= P(i - 1)
      BY <2>3, <3>3, PassedGrows
    <3>5. P(i) <= after
      BY <2>3, <3>3, PassedGrows
    <3> HIDE DEF before, after, P
    <3>6. QED
      BY <2>4, <3>1, <3>2, <3>4, <3>5
  <2>10. ASSUME NEW v \in before + 1 .. after PROVE \E i \in On : f[i] = v
    <3> DEFINE T == {i \in start .. end : P(i) >= v}
    <3>1. end \in T
      BY <2>3, <2>4
    <3>2. T \in SUBSET Nat
      BY <1>1
    <3> HIDE DEF T
    <3>3. PICK i \in T : \A j \in T : i <= j
      BY <3>1, <3>2, LeastNumber
    <3>4. i \in start .. end /\ P(i) >= v
      BY <3>3 DEF T
    <3>5. P(i - 1) < v
      <4>1. CASE i = start
        <5>1. P(i - 1) = before
          BY <4>1
        <5>2. QED
          BY <2>4, <5>1
      <4>2. CASE i # start
        <5>1. i - 1 \in start .. end
          BY <1>1, <3>4, <4>2
        <5>2. i - 1 \notin T
          <6>1. ~(i <= i - 1)
            BY <3>4
          <6>2. QED
            BY <3>3, <6>1
        <5>3. P(i - 1) \in Nat /\ v \in Nat
          BY <2>4, <2>6, <3>4
        <5>4. ~(P(i - 1) >= v)
          BY <5>1, <5>2 DEF T
        <5> HIDE DEF P
        <5>5. QED
          BY <5>3, <5>4
      <4>3. QED
        BY <4>1, <4>2
    <3>6. P(i) = P(i - 1) + Counted(s, K, i) /\ P(i - 1) \in Nat /\ Counted(s, K, i) = IF s[i] \in K THEN 1 ELSE 0
      BY <2>6, <3>4
    <3>7. s[i] \in K /\ P(i) = v
      <4> HIDE DEF P, before, after
      <4>1. v \in Nat
        BY <2>4
      <4>2. QED
        BY <3>4, <3>5, <3>6, <4>1
    <3>8. i \in On
      BY <1>3, <3>4, <3>7 DEF OnSide
    <3>9. QED
      BY <2>2, <3>7, <3>8
  <2>11. {f[i] : i \in On} = before + 1 .. after
    <3> HIDE DEF before, after
    <3>1. QED
      BY <2>9, <2>10
  <2>12. first + Cardinality(On) - 1 = after
    <3> HIDE DEF before, after
    <3>1. QED
      BY <2>4, <2>5, <2>8
  <2>13. QED
    BY <1>4, <2>8, <2>11, <2>12
<1>7. QED
  BY <1>5, <1>6

\* What holds of the hunks when the first i lines have been met.
HunksAre(lines, context, hunks, i) ==
  /\ hunks \in Seq([start : Nat, end : Nat])
  /\ \A h \in 1 .. Len(hunks) : hunks[h].start >= 1 /\ hunks[h].end <= Len(lines)
  /\ \A h \in 2 .. Len(hunks) : hunks[h - 1].end < hunks[h].start
  /\ Len(hunks) > 0 => hunks[Len(hunks)].end <= i + context /\ hunks[Len(hunks)].start <= i
  /\ \A j \in 1 .. i : lines[j].kind # "equal" =>
       \E h \in 1 .. Len(hunks) : j \in hunks[h].start .. hunks[h].end

\* The lines around a change, within the result.
LEMMA AroundIs ==
  ASSUME NEW lines, Len(lines) \in Nat, NEW context \in Nat, NEW i \in 1 .. Len(lines)
  PROVE  LET around == Around(lines, context, i)
         IN /\ around \in [start : Nat, end : Nat]
            /\ around.start = IF 1 >= i - context THEN 1 ELSE i - context
            /\ around.end = IF Len(lines) <= i + context THEN Len(lines) ELSE i + context
<1>1. Max({1, i - context}) = IF 1 >= i - context THEN 1 ELSE i - context
  BY MaxOfTwo
<1>2. Min({Len(lines), i + context}) = IF Len(lines) <= i + context THEN Len(lines) ELSE i + context
  BY MinOfTwo
<1> DEFINE u == Max({1, i - context})
           v == Min({Len(lines), i + context})
<1>3. Around(lines, context, i) = [start |-> u, end |-> v]
  BY DEF Around
<1>4. u \in Nat /\ v \in Nat
  BY <1>1, <1>2
<1> HIDE DEF u, v
<1>5. QED
  BY <1>1, <1>2, <1>3, <1>4 DEF u, v

\* A sequence with one element replaced.
LEMMA Replaced ==
  ASSUME NEW T, NEW s, s \in Seq(T), NEW i \in 1 .. Len(s), NEW e \in T
  PROVE  /\ [s EXCEPT ![i] = e] \in Seq(T) /\ Len([s EXCEPT ![i] = e]) = Len(s) /\ [s EXCEPT ![i] = e][i] = e
         /\ \A h \in 1 .. Len(s) : h # i => [s EXCEPT ![i] = e][h] = s[h]
OBVIOUS

\* A turn of buildHunks keeps its invariant.
LEMMA HunksStep ==
  ASSUME NEW lines, Len(lines) \in Nat, NEW context \in Nat, NEW i \in 1 .. Len(lines), NEW hunks,
         HunksAre(lines, context, hunks, i - 1), NEW next,
         next = IF lines[i].kind = "equal" THEN hunks ELSE ExtendHunks(lines, context, hunks, i)
  PROVE  HunksAre(lines, context, next, i)
<1> DEFINE n == Len(hunks)
           L == Len(lines)
           Type == [start : Nat, end : Nat]
           around == Around(lines, context, i)
           s == around.start
           e == around.end
<1>1. /\ hunks \in Seq(Type) /\ n \in Nat
      /\ \A h \in 1 .. n : hunks[h] \in Type /\ hunks[h].start >= 1 /\ hunks[h].end <= L
      /\ \A h \in 2 .. n : hunks[h - 1].end < hunks[h].start
      /\ n > 0 => hunks[n].end <= (i - 1) + context /\ hunks[n].start <= i - 1
      /\ \A j \in 1 .. i - 1 : lines[j].kind # "equal" => \E h \in 1 .. n : j \in hunks[h].start .. hunks[h].end
  <2>1. hunks \in Seq(Type)
    BY DEF HunksAre
  <2> HIDE DEF Type
  <2>2. n \in Nat /\ \A h \in 1 .. n : hunks[h] \in Type
    BY <2>1
  <2>3. /\ \A h \in 1 .. n : hunks[h].start >= 1 /\ hunks[h].end <= L
        /\ \A h \in 2 .. n : hunks[h - 1].end < hunks[h].start
        /\ n > 0 => hunks[n].end <= (i - 1) + context /\ hunks[n].start <= i - 1
        /\ \A j \in 1 .. i - 1 : lines[j].kind # "equal" => \E h \in 1 .. n : j \in hunks[h].start .. hunks[h].end
    BY DEF HunksAre
  <2>4. QED
    BY <2>1, <2>2, <2>3
<1>2. around \in Type /\ s = (IF 1 >= i - context THEN 1 ELSE i - context) /\ e = IF L <= i + context THEN L ELSE i + context
  BY AroundIs
<1>3. s \in Nat /\ e \in Nat /\ s >= 1 /\ e <= L /\ e <= i + context /\ s <= i /\ i <= e
  BY <1>2
<1>4. \A h \in 1 .. n : hunks[h].start \in Nat /\ hunks[h].end \in Nat
  BY <1>1
<1>5. \A j \in 1 .. i : j # i => j \in 1 .. i - 1
  OBVIOUS
<1>6. CASE lines[i].kind = "equal"
  <2>1. next = hunks
    BY <1>6
  <2>2. n > 0 => n \in 1 .. n /\ hunks[n].end <= i + context /\ hunks[n].start <= i
    <3>1. n > 0 => n \in 1 .. n
      BY <1>1
    <3>2. QED
      BY <1>1, <1>4, <3>1
  <2>3. \A j \in 1 .. i : lines[j].kind # "equal" => \E h \in 1 .. n : j \in hunks[h].start .. hunks[h].end
    BY <1>1, <1>5, <1>6
  <2>4. QED
    BY <1>1, <2>1, <2>2, <2>3 DEF HunksAre
<1>7. CASE lines[i].kind # "equal" /\ hunks # <<>> /\ i - context <= Last(hunks).end + 1
  <2> DEFINE last == [hunks[n] EXCEPT !.end = e]
  <2>1. n > 0 /\ n \in 1 .. n /\ Last(hunks) = hunks[n]
    BY <1>1, <1>7 DEF Last
  <2>2. next = [hunks EXCEPT ![n] = last]
    BY <1>7 DEF ExtendHunks
  <2>3. last \in Type /\ last.start = hunks[n].start /\ last.end = e
    BY <1>1, <1>3, <2>1
  <2> HIDE DEF last
  <2>4. next \in Seq(Type) /\ Len(next) = n /\ next[n] = last /\ \A h \in 1 .. n : h # n => next[h] = hunks[h]
    <3> HIDE DEF Type
    <3>1. hunks \in Seq(Type) /\ n \in 1 .. Len(hunks) /\ last \in Type
      BY <1>1, <2>1, <2>3
    <3>2. QED
      BY <2>2, <3>1, Replaced
  <2>5. \A h \in 1 .. n : /\ next[h].start = hunks[h].start /\ next[h].start >= 1 /\ next[h].end <= L
                          /\ h # n => next[h].end = hunks[h].end
    BY <1>1, <1>3, <2>3, <2>4
  <2>6. \A h \in 2 .. n : h - 1 \in 1 .. n /\ h - 1 # n /\ h \in 1 .. n
    <3>1. n \in Nat
      BY <1>1
    <3> HIDE DEF n
    <3>2. QED
      BY <3>1
  <2>7. \A h \in 2 .. n : next[h - 1].end < next[h].start
    BY <1>1, <2>5, <2>6
  <2>8. hunks[n].end <= e /\ hunks[n].start <= i
    BY <1>1, <1>2, <1>4, <2>1
  <2>9. next[n].end <= i + context /\ next[n].start <= i
    BY <1>3, <2>1, <2>3, <2>4, <2>8
  <2>10. ASSUME NEW j \in 1 .. i, lines[j].kind # "equal"
         PROVE  \E h \in 1 .. n : j \in next[h].start .. next[h].end
    <3>1. CASE j = i
      <4>1. i \in next[n].start .. next[n].end
        <5>1. next[n].start \in Nat /\ next[n].start <= i /\ next[n].end = e
          BY <1>4, <2>1, <2>3, <2>4, <2>8
        <5>2. QED
          BY <1>3, <5>1
      <4>2. QED
        BY <2>1, <3>1, <4>1
    <3>2. CASE j # i
      <4>1. PICK h \in 1 .. n : j \in hunks[h].start .. hunks[h].end
        BY <1>1, <1>5, <2>10, <3>2
      <4>2. next[h].start = hunks[h].start /\ hunks[h].end <= next[h].end /\ next[h].end \in Nat
        <5>1. CASE h = n
          BY <1>3, <2>3, <2>4, <2>8, <5>1
        <5>2. CASE h # n
          BY <1>4, <2>5, <5>2
        <5>3. QED
          BY <5>1, <5>2
      <4>3. j \in next[h].start .. next[h].end
        BY <1>4, <4>1, <4>2
      <4>4. QED
        BY <4>3
    <3>3. QED
      BY <3>1, <3>2
  <2>11. QED
    BY <2>4, <2>5, <2>7, <2>9, <2>10 DEF HunksAre
<1>8. CASE lines[i].kind # "equal" /\ ~(hunks # <<>> /\ i - context <= Last(hunks).end + 1)
  <2>1. next = Append(hunks, around)
    BY <1>8 DEF ExtendHunks
  <2> HIDE DEF around
  <2>2. /\ next \in Seq(Type) /\ Len(next) = n + 1 /\ next[n + 1] = around
        /\ \A h \in 1 .. n : next[h] = hunks[h]
    <3> HIDE DEF Type
    <3>1. hunks \in Seq(Type) /\ around \in Type
      BY <1>1, <1>2
    <3>2. QED
      BY <2>1, <3>1, AppendToSeq
  <2>3. \A h \in 1 .. n + 1 : h # n + 1 => h \in 1 .. n
    BY <1>1
  <2>4. \A h \in 1 .. n + 1 : next[h].start >= 1 /\ next[h].end <= L
    BY <1>1, <1>3, <2>2, <2>3
  <2>5. ASSUME NEW h \in 2 .. n + 1 PROVE next[h - 1].end < next[h].start
    <3>1. CASE h = n + 1
      <4>1. n \in 1 .. n /\ h - 1 = n /\ hunks # <<>>
        BY <1>1, <3>1
      <4>2. Last(hunks) = hunks[n]
        BY DEF Last
      <4>3. ~(i - context <= hunks[n].end + 1) /\ hunks[n].end \in Nat
        BY <1>4, <1>8, <4>1, <4>2
      <4>4. s = i - context
        BY <1>2, <4>3
      <4>5. hunks[n].end < s
        BY <1>3, <4>3, <4>4
      <4>6. QED
        BY <2>2, <3>1, <4>1, <4>5
    <3>2. CASE h # n + 1
      <4>1. h \in 2 .. n /\ h \in 1 .. n /\ h - 1 \in 1 .. n
        BY <1>1, <3>2
      <4>2. QED
        BY <1>1, <2>2, <4>1
    <3>3. QED
      BY <3>1, <3>2
  <2>6. next[n + 1].end <= i + context /\ next[n + 1].start <= i
    BY <1>3, <2>2
  <2>7. n + 1 \in 1 .. n + 1 /\ \A h \in 1 .. n : h \in 1 .. n + 1
    BY <1>1
  <2>8. ASSUME NEW j \in 1 .. i, lines[j].kind # "equal"
        PROVE  \E h \in 1 .. n + 1 : j \in next[h].start .. next[h].end
    <3>1. CASE j = i
      <4>1. i \in next[n + 1].start .. next[n + 1].end
        BY <1>3, <2>2
      <4>2. QED
        BY <2>7, <3>1, <4>1
    <3>2. CASE j # i
      <4>1. PICK h \in 1 .. n : j \in hunks[h].start .. hunks[h].end
        BY <1>1, <1>5, <2>8, <3>2
      <4>2. QED
        BY <2>2, <2>7, <4>1
    <3>3. QED
      BY <3>1, <3>2
  <2>9. QED
    BY <2>2, <2>4, <2>5, <2>6, <2>8 DEF HunksAre
<1>9. QED
  BY <1>6, <1>7, <1>8

HunksHere(f, lines, context, i) ==
  IF i = 0 THEN <<>>
  ELSE IF lines[i].kind = "equal" THEN f[i - 1]
  ELSE ExtendHunks(lines, context, f[i - 1], i)

HunksTable(f, lines, context, n) == f = [i \in 0 .. n |-> HunksHere(f, lines, context, i)]

\* The recursion of BuildHunks defines a function, line by line.
LEMMA LongerHunks ==
  ASSUME NEW lines, NEW context, NEW n \in Nat \ {0}, NEW f, HunksTable(f, lines, context, n - 1)
  PROVE  \E g : HunksTable(g, lines, context, n)
<1> DEFINE g == [i \in 0 .. n |-> HunksHere(f, lines, context, i)]
<1>1. \A i \in 0 .. n - 1 : i \in 0 .. n /\ g[i] = f[i]
  <2>1. \A i \in 0 .. n - 1 : f[i] = HunksHere(f, lines, context, i)
    BY DEF HunksTable
  <2>2. QED
    BY <2>1
<1>2. \A i \in 0 .. n : i # 0 => i - 1 \in 0 .. n - 1
  OBVIOUS
<1> HIDE DEF g
<1>3. \A i \in 0 .. n : HunksHere(f, lines, context, i) = HunksHere(g, lines, context, i)
  <2>1. TAKE i \in 0 .. n
  <2>2. i # 0 => f[i - 1] = g[i - 1]
    BY <1>1, <1>2
  <2>3. QED
    BY <2>2 DEF HunksHere
<1>4. g = [i \in 0 .. n |-> HunksHere(g, lines, context, i)]
  BY <1>3 DEF g
<1>5. QED
  BY <1>4 DEF HunksTable

\* So the hunks are whole when all lines have been met.
LEMMA BuildHunksAre ==
  ASSUME NEW lines, Len(lines) \in Nat, NEW context \in Nat
  PROVE  HunksAre(lines, context, BuildHunks(lines, context), Len(lines))
<1> DEFINE S == {m \in Nat : ~\E f : HunksTable(f, lines, context, m)}
           L == Len(lines)
<1>1. \E f : HunksTable(f, lines, context, L)
  <2>1. SUFFICES ASSUME S # {} PROVE FALSE
    OBVIOUS
  <2>2. PICK m \in S : \A h \in S : m <= h
    BY <2>1, LeastNumber
  <2>3. CASE m = 0
    <3> DEFINE f == [i \in 0 .. 0 |-> <<>>]
    <3>1. f = [i \in 0 .. 0 |-> HunksHere(f, lines, context, i)]
      BY DEF HunksHere
    <3>2. HunksTable(f, lines, context, 0)
      BY <3>1 DEF HunksTable
    <3>3. QED
      BY <2>2, <2>3, <3>2
  <2>4. CASE m # 0
    <3>1. m \in Nat \ {0} /\ m - 1 \in Nat /\ m - 1 \notin S
      BY <2>2, <2>4
    <3>2. PICK f : HunksTable(f, lines, context, m - 1)
      BY <3>1
    <3>3. QED
      BY <2>2, <3>1, <3>2, LongerHunks
  <2>5. QED
    BY <2>3, <2>4
<1> DEFINE F == CHOOSE f : HunksTable(f, lines, context, L)
<1>2. BuildHunks(lines, context) = F[L]
  BY DEF BuildHunks, HunksTable, HunksHere
<1>3. HunksTable(F, lines, context, L)
  BY <1>1
<1> HIDE DEF F
<1>4. \A i \in 0 .. L : F[i] = HunksHere(F, lines, context, i)
  BY <1>3 DEF HunksTable
<1> DEFINE T == {i \in 0 .. L : ~HunksAre(lines, context, F[i], i)}
<1>5. HunksAre(lines, context, F[0], 0)
  <2>1. F[0] = <<>>
    BY <1>4 DEF HunksHere
  <2>2. QED
    BY <2>1 DEF HunksAre
<1>6. ASSUME T # {} PROVE FALSE
  <2>1. PICK i \in T : \A j \in T : i <= j
    <3>1. T \in SUBSET Nat
      OBVIOUS
    <3>2. QED
      BY <1>6, <3>1, LeastNumber
  <2>2. i \in 1 .. L /\ i # 0 /\ i - 1 \in 0 .. L /\ i - 1 \notin T /\ i \in 0 .. L
    BY <1>5, <2>1
  <2>3. HunksAre(lines, context, F[i - 1], i - 1)
    BY <2>2
  <2>4. F[i] = IF lines[i].kind = "equal" THEN F[i - 1] ELSE ExtendHunks(lines, context, F[i - 1], i)
    BY <1>4, <2>2 DEF HunksHere
  <2>5. HunksAre(lines, context, F[i], i)
    BY <2>2, <2>3, <2>4, HunksStep
  <2>6. QED
    BY <2>5
<1>7. L \in 0 .. L /\ L \notin T
  BY <1>6
<1>8. HunksAre(lines, context, F[L], L)
  BY <1>7
<1>9. QED
  BY <1>2, <1>8

\* A hunk is, on either side, the lines that its header says.
LEMMA NumbersOfHunk ==
  ASSUME DiffTyped, NEW hunk, hunk \in [start : Nat, end : Nat], hunk.start >= 1, hunk.end <= Len(DiffLines)
  PROVE  LET header == Header(DiffLines, hunk)
         IN /\ {DiffLines[i].leftNumber : i \in hunk.start .. hunk.end} \ {0} =
                 header.leftStart .. header.leftStart + header.leftCount - 1
            /\ {DiffLines[i].rightNumber : i \in hunk.start .. hunk.end} \ {0} =
                 header.rightStart .. header.rightStart + header.rightCount - 1
<1> DEFINE s == Script
           lines == DiffLines
           start == hunk.start
           end == hunk.end
           header == Header(lines, hunk)
           left == [i \in 1 .. Len(s) |-> lines[i].leftNumber]
           right == [i \in 1 .. Len(s) |-> lines[i].rightNumber]
           OnL == {i \in start .. end : left[i] # 0}
           OnR == {i \in start .. end : right[i] # 0}
           firstL == IF OnL = {} THEN 0 ELSE left[Min(OnL)]
           firstR == IF OnR = {} THEN 0 ELSE right[Min(OnR)]
<1>1. /\ s \in Seq(Kinds) /\ Len(lines) = Len(s)
      /\ \A i \in 1 .. Len(s) : lines[i].leftNumber = Numbered(s, OnLeft, i) /\ lines[i].rightNumber = Numbered(s, OnRight, i)
  BY ScriptIsMinimal, DiffLinesAre
<1> HIDE DEF s, lines
<1>2. start \in Nat \ {0} /\ end \in 0 .. Len(s) /\ \A i \in start .. end : i \in 1 .. Len(s)
  <2>1. start \in Nat /\ end \in Nat /\ start >= 1 /\ end <= Len(s) /\ Len(s) \in Nat
    BY <1>1 DEF lines
  <2> HIDE DEF start, end
  <2>2. QED
    BY <2>1
<1>3. \A i \in start .. end : left[i] = lines[i].leftNumber /\ right[i] = lines[i].rightNumber
  BY <1>2
<1>4. /\ OnL = {i \in start .. end : lines[i].leftNumber # 0} /\ OnR = {i \in start .. end : lines[i].rightNumber # 0}
      /\ {left[i] : i \in start .. end} = {lines[i].leftNumber : i \in start .. end}
      /\ {right[i] : i \in start .. end} = {lines[i].rightNumber : i \in start .. end}
  BY <1>3
<1>5. /\ OnL # {} => left[Min(OnL)] = lines[Min(OnL)].leftNumber
      /\ OnR # {} => right[Min(OnR)] = lines[Min(OnR)].rightNumber
  <2>1. OnL \in SUBSET Nat /\ OnR \in SUBSET Nat
    BY <1>2
  <2>2. (OnL # {} => Min(OnL) \in start .. end) /\ (OnR # {} => Min(OnR) \in start .. end)
    <3>1. (OnL # {} => Min(OnL) \in OnL) /\ (OnR # {} => Min(OnR) \in OnR)
      <4> HIDE DEF OnL, OnR
      <4>1. QED
        BY <2>1, MinIsLeast
    <3>2. QED
      BY <3>1
  <2>3. QED
    BY <1>3, <2>2
<1> HIDE DEF start, end
<1>6. /\ header.leftStart = firstL /\ header.leftCount = Cardinality(OnL)
      /\ header.rightStart = firstR /\ header.rightCount = Cardinality(OnR)
  <2> HIDE DEF OnL, OnR
  <2>1. /\ header.leftStart = IF OnL = {} THEN 0 ELSE lines[Min(OnL)].leftNumber
        /\ header.leftCount = Cardinality(OnL)
    BY <1>4 DEF Header, start, end
  <2>2. /\ header.rightStart = IF OnR = {} THEN 0 ELSE lines[Min(OnR)].rightNumber
        /\ header.rightCount = Cardinality(OnR)
    BY <1>4 DEF Header, start, end
  <2>3. QED
    BY <1>5, <2>1, <2>2
<1>7. \A i \in 1 .. Len(s) : left[i] = Numbered(s, OnLeft, i) /\ right[i] = Numbered(s, OnRight, i)
  BY <1>1
<1> HIDE DEF left, right
<1>8. {left[i] : i \in start .. end} \ {0} = firstL .. firstL + Cardinality(OnL) - 1
  <2>1. NumbersLines(left, s, OnLeft)
    BY <1>7 DEF NumbersLines
  <2>2. NumbersOn(left, start, end) =
          FirstOn(left, start, end) .. FirstOn(left, start, end) + Cardinality(LinesOn(left, start, end)) - 1
    BY <1>1, <1>2, <2>1, NumbersAreSuccessive
  <2>3. QED
    BY <2>2 DEF NumbersOn, FirstOn, LinesOn
<1>9. {right[i] : i \in start .. end} \ {0} = firstR .. firstR + Cardinality(OnR) - 1
  <2>1. NumbersLines(right, s, OnRight)
    BY <1>7 DEF NumbersLines
  <2>2. NumbersOn(right, start, end) =
          FirstOn(right, start, end) .. FirstOn(right, start, end) + Cardinality(LinesOn(right, start, end)) - 1
    BY <1>1, <1>2, <2>1, NumbersAreSuccessive
  <2>3. QED
    BY <2>2 DEF NumbersOn, FirstOn, LinesOn
<1> HIDE DEF OnL, OnR, firstL, firstR, header
<1>10. /\ {lines[i].leftNumber : i \in start .. end} \ {0} = header.leftStart .. header.leftStart + header.leftCount - 1
       /\ {lines[i].rightNumber : i \in start .. end} \ {0} = header.rightStart .. header.rightStart + header.rightCount - 1
  BY <1>4, <1>6, <1>8, <1>9
<1>11. QED
  BY <1>10 DEF lines, start, end, header

\* All of it for documents and options of their types.
LEMMA TypedIsMinimalAndWhole ==
  DiffTyped => DiffIsMinimalAndWhole
<1> SUFFICES ASSUME DiffTyped PROVE DiffIsMinimalAndWhole
  OBVIOUS
<1> DEFINE lines == DiffLines
           hunks == BuildHunks(lines, options.context)
           Numbers(hunk, side) == {lines[i][side] : i \in hunk.start .. hunk.end} \ {0}
<1>1. IsMinimalScript(Script, [i \in DOMAIN leftDoc |-> Normalize(leftDoc[i])],
                      [i \in DOMAIN rightDoc |-> Normalize(rightDoc[i])])
  BY ScriptIsMinimal
<1>2. lines \in Seq([kind : Kinds, leftNumber : Nat, rightNumber : Nat, text : Lines])
  BY DiffLinesAre
<1> HIDE DEF lines
<1>3. DOMAIN lines = 1 .. Len(lines) /\ Len(lines) \in Nat /\ \A i \in 1 .. Len(lines) : lines[i].text \in Lines
  <2> DEFINE Type == [kind : Kinds, leftNumber : Nat, rightNumber : Nat, text : Lines]
  <2>1. \A line \in Type : line.text \in Lines
    OBVIOUS
  <2>2. lines \in Seq(Type)
    BY <1>2
  <2> HIDE DEF Type
  <2>3. DOMAIN lines = 1 .. Len(lines) /\ Len(lines) \in Nat /\ \A i \in 1 .. Len(lines) : lines[i] \in Type
    BY <2>2
  <2>4. QED
    BY <2>1, <2>3
<1>4. ASSUME NEW i \in DOMAIN lines, Paired(lines, i)
      PROVE  IsMinimalScript(Words(lines, i), Tokens(lines[i].text), Tokens(lines[i + 1].text))
  <2>1. i \in 1 .. Len(lines) /\ i + 1 \in 1 .. Len(lines)
    BY <1>3, <1>4 DEF Paired
  <2>2. lines[i].text \in Lines /\ lines[i + 1].text \in Lines
    BY <1>3, <2>1
  <2>3. QED
    BY <2>2, WordsAreMinimal
<1>5. options.context \in Nat
  BY DEF DiffTyped
<1>6. HunksAre(lines, options.context, hunks, Len(lines))
  BY <1>3, <1>5, BuildHunksAre
<1> HIDE DEF hunks
<1>7. /\ hunks \in Seq([start : Nat, end : Nat])
      /\ \A h \in 1 .. Len(hunks) : hunks[h].start >= 1 /\ hunks[h].end <= Len(lines)
      /\ \A h \in 2 .. Len(hunks) : hunks[h - 1].end < hunks[h].start
      /\ \A j \in 1 .. Len(lines) : lines[j].kind # "equal" =>
           \E h \in 1 .. Len(hunks) : j \in hunks[h].start .. hunks[h].end
  BY <1>6 DEF HunksAre
<1>8. DOMAIN hunks = 1 .. Len(hunks)
  BY <1>7
<1>9. ASSUME NEW h \in DOMAIN hunks
      PROVE  LET header == Header(lines, hunks[h])
             IN /\ Numbers(hunks[h], "leftNumber") = header.leftStart .. header.leftStart + header.leftCount - 1
                /\ Numbers(hunks[h], "rightNumber") = header.rightStart .. header.rightStart + header.rightCount - 1
  <2> DEFINE hunk == hunks[h]
             header == Header(lines, hunk)
  <2>1. hunk \in [start : Nat, end : Nat] /\ hunk.start >= 1 /\ hunk.end <= Len(DiffLines)
    <3> DEFINE Type == [start : Nat, end : Nat]
    <3>1. hunks \in Seq(Type) /\ h \in 1 .. Len(hunks)
      BY <1>7, <1>8
    <3> HIDE DEF Type
    <3>2. hunk \in Type
      BY <3>1
    <3>3. hunk.start >= 1 /\ hunk.end <= Len(lines)
      BY <1>7, <3>1
    <3>4. QED
      BY <3>2, <3>3 DEF Type, lines
  <2> HIDE DEF hunk
  <2>2. /\ {DiffLines[i].leftNumber : i \in hunk.start .. hunk.end} \ {0} =
             header.leftStart .. header.leftStart + header.leftCount - 1
        /\ {DiffLines[i].rightNumber : i \in hunk.start .. hunk.end} \ {0} =
             header.rightStart .. header.rightStart + header.rightCount - 1
    BY <2>1, NumbersOfHunk DEF lines
  <2>3. QED
    BY <2>2 DEF lines, hunk
<1>10. \A i \in DOMAIN lines : lines[i].kind # "equal" =>
         \E h \in DOMAIN hunks : i \in hunks[h].start .. hunks[h].end
  BY <1>3, <1>7, <1>8
<1>11. QED
  BY <1>1, <1>4, <1>7, <1>9, <1>10 DEF DiffIsMinimalAndWhole, lines, hunks

\* The scripts of the diff are minimal and its hunks are whole, for documents of
\* any length, any words and any number of lines of context.
THEOREM DiffScriptsAreMinimal ==
  DiffInit /\ [][SetSide \/ SetOption]_diffVars => []DiffIsMinimalAndWhole
<1>1. DiffInit => DiffTyped
  BY DiffAssumption DEF DiffInit, DiffTyped, Lines, NoOptions
<1>2. DiffTyped /\ [SetSide \/ SetOption]_diffVars => DiffTyped'
  <2> SUFFICES ASSUME DiffTyped, [SetSide \/ SetOption]_diffVars PROVE DiffTyped'
    OBVIOUS
  <2>1. CASE SetSide
    BY <2>1, DiffAssumption DEF SetSide, DiffTyped, Lines
  <2>2. CASE SetOption
    BY <2>2, DiffAssumption DEF SetOption, DiffTyped
  <2>3. CASE UNCHANGED diffVars
    BY <2>3 DEF diffVars, DiffTyped
  <2>4. QED
    BY <2>1, <2>2, <2>3
<1>3. QED
  BY <1>1, <1>2, TypedIsMinimalAndWhole, PTL
===============================================================================
