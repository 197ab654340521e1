----------------------------- MODULE GitRepository ----------------------------
(***************************************************************************)
(* The simulated repository of the Git lessons: model.ts and reducer.ts in *)
(* modules/learning/git. One action per case of reduceRepository; a case   *)
(* that returns an error changes nothing and is no step here.              *)
(***************************************************************************)
EXTENDS Integers, Sequences, FiniteSets

CONSTANTS
  Names,      \* branch names that are not also the name of a commit
  Main,       \* "main"
  MaxCommits  \* bound: commits ever made in one repository

\* A commit's name is its number ("c2" is 2), so a name is never a number.
ASSUME GitAssumption ==
  /\ Main \in Names
  /\ Names \cap Nat = {}
  /\ MaxCommits \in Nat \ {0}

VARIABLES
  commits,       \* the commits by number, each with its parents and its message
  branches,      \* the commit of each branch
  head,          \* at a branch, or detached at a commit
  nextCommitNum  \* the number of the next commit

repo == <<commits, branches, head, nextCommitNum>>

Ids == 1 .. MaxCommits

\* A user may call a branch like a commit, past or future: "git branch c4".
BranchNames == Names \cup Ids

\* A message is which command wrote it, and for which commit: copies of a commit
\* keep its message. What a revert quotes is left out.
Message == [kind : {"initial", "commit", "merge", "revert"}, of : Ids]

Commit(parents, message) == [parents |-> parents, message |-> message]

AtBranch(name) == [detached |-> FALSE, at |-> name]
Detached(id) == [detached |-> TRUE, at |-> id]

\* getHeadCommitId: a branch that does not exist counts as the first commit.
HeadCommit ==
  IF head.detached THEN head.at
  ELSE IF head.at \in DOMAIN branches THEN branches[head.at]
  ELSE 1

\* What is reachable from each commit of cs, itself included; and what is
\* reachable along first parents. Parents have smaller numbers.
History(cs) ==
  LET seen[c \in DOMAIN cs] ==
        {c} \cup UNION {seen[p] : p \in {cs[c].parents[i] : i \in DOMAIN cs[c].parents}
                                        \cap 1 .. (c - 1)}
  IN seen

FirstParents(cs) ==
  LET line[c \in DOMAIN cs] ==
        {c} \cup IF Len(cs[c].parents) > 0 /\ cs[c].parents[1] \in 1 .. (c - 1)
                   THEN line[cs[c].parents[1]]
                   ELSE {}
  IN line

\* Mutant: asks the other way around.
IsAncestorBackwards(c, d) == d \in History(commits)[c]

IsAncestor(c, d) == c \in History(commits)[d]

\* The lookups of a typed target. merge, rebase and switch try branches first,
\* reset tries commits first; 0 stands for a target that is neither.
Resolve(target) ==
  IF target \in DOMAIN branches THEN branches[target]
  ELSE IF target \in DOMAIN commits THEN target
  ELSE 0

\* Mutant: takes whatever is not a branch for a commit.
ResolveUnchecked(target) == IF target \in DOMAIN branches THEN branches[target] ELSE target

ResolveForReset(target) ==
  IF target \in DOMAIN commits THEN target
  ELSE IF target \in DOMAIN branches THEN branches[target]
  ELSE 0

Put(f, x, y) == [z \in DOMAIN f \cup {x} |-> IF z = x THEN y ELSE f[z]]

\* HEAD, or the branch it is at, moves to a commit.
MoveTo(id) ==
  IF head.detached
    THEN head' = Detached(id) /\ UNCHANGED branches
    ELSE branches' = Put(branches, head.at, id) /\ UNCHANGED head

\* One new commit, and HEAD on it.
Add(parents, message) ==
  /\ nextCommitNum <= MaxCommits
  /\ commits' = Put(commits, nextCommitNum, Commit(parents, message))
  /\ nextCommitNum' = nextCommitNum + 1
  /\ MoveTo(nextCommitNum)

MakeCommit == Add(<<HeadCommit>>, [kind |-> "commit", of |-> nextCommitNum])

MakeBranch(name) ==
  /\ name \notin DOMAIN branches
  /\ branches' = Put(branches, name, HeadCommit)
  /\ UNCHANGED <<commits, head, nextCommitNum>>

SwitchCreate(name) ==
  /\ name \notin DOMAIN branches
  /\ branches' = Put(branches, name, HeadCommit)
  /\ head' = AtBranch(name)
  /\ UNCHANGED <<commits, nextCommitNum>>

Switch(target) ==
  /\ Resolve(target) # 0
  /\ head' = IF target \in DOMAIN branches THEN AtBranch(target) ELSE Detached(target)
  /\ UNCHANGED <<commits, branches, nextCommitNum>>

Merge(target) ==
  LET theirs == Resolve(target)
  IN /\ theirs # 0
     /\ theirs # HeadCommit
     /\ \/ /\ IsAncestor(HeadCommit, theirs)
           /\ MoveTo(theirs)
           /\ UNCHANGED <<commits, nextCommitNum>>
        \/ /\ ~IsAncestor(HeadCommit, theirs)
           /\ ~IsAncestor(theirs, HeadCommit)
           /\ Add(<<HeadCommit, theirs>>, [kind |-> "merge", of |-> nextCommitNum])

\* Mutant: stops at the target only, not at what it shares with HEAD.
ReplayedToTarget(theirs) ==
  {c \in DOMAIN commits : c \in FirstParents(commits)[HeadCommit] /\ c # theirs}

\* What a rebase replays: back along first parents, up to the first commit the
\* target has already (its ancestors are the target's, too).
Replayed(theirs) ==
  {c \in DOMAIN commits : /\ c \in FirstParents(commits)[HeadCommit]
                          /\ c \notin History(commits)[theirs]}

\* A set of commits oldest first; commits grow in number along every path.
OldestFirst(S) ==
  {s \in [1 .. Cardinality(S) -> S] : \A i, j \in DOMAIN s : i < j => s[i] < s[j]}

Rebase(target) ==
  LET theirs == Resolve(target)
      work == Replayed(theirs)
      n == Cardinality(work)
  IN /\ theirs # 0
     /\ work # {}
     /\ nextCommitNum + n - 1 <= MaxCommits
     /\ \E old \in OldestFirst(work) :
          commits' = [c \in DOMAIN commits \cup nextCommitNum .. (nextCommitNum + n - 1) |->
            IF c < nextCommitNum THEN commits[c]
            ELSE Commit(<<IF c = nextCommitNum THEN theirs ELSE c - 1>>,
                        commits[old[c - nextCommitNum + 1]].message)]
     /\ nextCommitNum' = nextCommitNum + n
     /\ MoveTo(nextCommitNum + n - 1)

\* All three modes move the reference alike: there is no index and no worktree.
Reset(target) ==
  /\ ResolveForReset(target) # 0
  /\ MoveTo(ResolveForReset(target))
  /\ UNCHANGED <<commits, nextCommitNum>>

Revert(id) ==
  /\ id \in DOMAIN commits
  /\ Add(<<HeadCommit>>, [kind |-> "revert", of |-> nextCommitNum])

\* Mutant: moves the commit over instead of copying it.
CherryPickMoving(id) ==
  /\ id \in DOMAIN commits
  /\ commits' = [commits EXCEPT ![id].parents = <<HeadCommit>>]
  /\ MoveTo(id)
  /\ UNCHANGED nextCommitNum

CherryPick(id) ==
  /\ id \in DOMAIN commits
  /\ Add(<<HeadCommit>>, commits[id].message)

===============================================================================
