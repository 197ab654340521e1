------------------------------- MODULE Diagrams -------------------------------
(***************************************************************************)
(* The diagram page: DiagramPage.tsx with its two editors, and the         *)
(* DiagramStore it saves to, which keeps one record per diagram and an     *)
(* index of their ids in the key-value store of workspaceStore.ts. Saving, *)
(* deleting and listing take several requests to that store, which serves  *)
(* the requests in the order they were made; operations overlap.           *)
(***************************************************************************)
EXTENDS Integers, Sequences, SequencesExt

CONSTANTS
  Drawings,     \* bound: what a user draws or writes
  Blank,        \* what an editor shows by default
  MaxClicks,    \* bound: saves and deletions
  MaxOps,       \* bound: store operations in progress at once
  MaxMounts     \* bound: times the page is opened

ASSUME DiagramAssumption ==
  /\ Blank \notin Drawings
  /\ MaxClicks \in Nat /\ MaxOps \in Nat /\ MaxMounts \in Nat

VARIABLES
  records,    \* the store's records under diagrams/, by id
  index,      \* the store's diagrams_index
  pending,    \* operations, in the order of their outstanding requests
  activeTab,
  current,    \* currentDiagramId; 0 for a diagram not saved yet
  active,     \* activeSource
  editor,     \* what the mounted editor shows
  savedList,
  clicks,     \* saves and deletions so far: the time, which makes the ids
  mounts,     \* times the page was opened
  spoilt      \* history: a request failed, the page was left while an operation
              \* was in progress, or a third was started while two were

diagrams == <<records, index, pending, activeTab, current, active, editor,
              savedList, clicks, mounts, spoilt>>

Tabs == {"mermaid", "excalidraw"}

Source(kind, of) == [kind |-> kind, of |-> of]
NoSource == Source("none", Blank)

\* What an editor is mounted with: the whiteboard takes only its own format.
InitialSource(tab, source) ==
  IF tab = "excalidraw" /\ source.kind # tab THEN NoSource ELSE source

\* DiagramStore.list, from its first request on.
List(mount) == [op |-> "list", at |-> "index", id |-> 0, source |-> NoSource, kind |-> "",
                open |-> FALSE, ids |-> <<>>, seen |-> <<>>, mount |-> mount]

DiagramsInit ==
  /\ records = <<>> /\ index = <<>>
  /\ pending = <<List(1)>>
  /\ activeTab = "mermaid"
  /\ current = 0 /\ active = NoSource /\ editor = NoSource
  /\ savedList = <<>>
  /\ clicks = 0
  /\ mounts = 1
  /\ spoilt = FALSE

\* The editors: whatever the mouse or the keyboard does to what they show.
Draw ==
  /\ editor' \in {Source(activeTab, d) : d \in Drawings}
  /\ UNCHANGED <<records, index, pending, activeTab, current, active, savedList, clicks,
                 mounts, spoilt>>

\* The other editor is mounted; which diagram is open stays.
SelectTab(tab) ==
  /\ tab # activeTab
  /\ activeTab' = tab
  /\ editor' = InitialSource(tab, active)
  /\ UNCHANGED <<records, index, pending, current, active, savedList, clicks, mounts, spoilt>>

HandleSaveDiagram ==
  /\ clicks < MaxClicks /\ Len(pending) < MaxOps
  /\ clicks' = clicks + 1
  /\ pending' = Append(pending,
       [List(mounts) EXCEPT !.op = "save", !.at = "record", !.kind = activeTab,
                            !.id = IF current # 0 THEN current ELSE clicks + 1,
                            !.source = editor])
  /\ spoilt' = (spoilt \/ Len(pending) > 1)
  /\ UNCHANGED <<records, index, activeTab, current, active, editor, savedList, mounts>>

HandleDeleteDiagram(i) ==
  /\ clicks < MaxClicks /\ Len(pending) < MaxOps
  /\ clicks' = clicks + 1
  /\ pending' = Append(pending,
       [List(mounts) EXCEPT !.op = "delete", !.at = "record", !.id = savedList[i].id,
                            !.open = (current = savedList[i].id)])
  /\ spoilt' = (spoilt \/ Len(pending) > 1)
  /\ UNCHANGED <<records, index, activeTab, current, active, editor, savedList, mounts>>

\* An editor keyed by another diagram, or of the other kind, is mounted anew;
\* the one that stays looks at its new source only if it is the whiteboard.
HandleLoadDiagram(i) ==
  LET d == savedList[i]
  IN /\ current' = d.id
     /\ active' = d.source
     /\ activeTab' = d.kind
     /\ editor' = IF d.id # current \/ d.kind # activeTab
                    THEN InitialSource(d.kind, d.source)
                    ELSE IF d.kind = "excalidraw" /\ d.source.kind = d.kind /\ d.source # active
                           THEN d.source
                           ELSE editor
     /\ UNCHANGED <<records, index, pending, savedList, clicks, mounts, spoilt>>

\* The page opens the diagram id, or none, with that source; a page that was
\* left does not.
Open(op, id, source) ==
  IF op.mount = mounts
    THEN /\ current' = id /\ active' = source
         /\ editor' = IF id = current THEN editor ELSE InitialSource(activeTab, source)
    ELSE UNCHANGED <<current, active, editor>>

Requeue(op) == pending' = Append(Tail(pending), op)
Page == <<current, active, editor, savedList>>

\* The first request of save and delete: the record.
ServeRecord(op) ==
  /\ op.at = "record"
  /\ records' = IF op.op = "save"
                  THEN [i \in DOMAIN records \cup {op.id} |->
                          IF i = op.id THEN [id |-> i, kind |-> op.kind, source |-> op.source]
                                       ELSE records[i]]
                  ELSE [i \in DOMAIN records \ {op.id} |-> records[i]]
  /\ Requeue([op EXCEPT !.at = "index", !.source = NoSource, !.kind = ""])
  /\ UNCHANGED <<index, Page>>

\* The filter of deleteWithIndex: an id is in the index once.
Without(ids, id) ==
  IF \E j \in DOMAIN ids : ids[j] = id
    THEN LET j == CHOOSE j \in DOMAIN ids : ids[j] = id
         IN [k \in 1 .. Len(ids) - 1 |-> IF k < j THEN ids[k] ELSE ids[k + 1]]
    ELSE ids

\* The second: the index, as it is now. A save of an id it has is done with it.
ServeIndex(op) ==
  /\ op.at = "index" /\ op.op \in {"save", "delete"}
  /\ IF op.op = "save" /\ op.id \in ToSet(index)
       THEN /\ Requeue(List(op.mount))
            /\ Open(op, op.id, active)
       ELSE /\ Requeue([op EXCEPT !.at = "store",
                                   !.ids = IF op.op = "save" THEN Append(index, op.id)
                                           ELSE Without(index, op.id)])
            /\ UNCHANGED <<current, active, editor>>
  /\ UNCHANGED <<records, index, savedList>>

\* Mutant: the page lists the diagrams again after a save only.
ServeStoreQuietly(op) ==
  /\ op.at = "store"
  /\ index' = op.ids
  /\ IF op.op = "save"
       THEN Requeue(List(op.mount)) /\ Open(op, op.id, active)
       ELSE /\ pending' = Tail(pending)
            /\ IF op.open THEN Open(op, 0, NoSource) ELSE UNCHANGED <<current, active, editor>>
  /\ UNCHANGED <<records, savedList>>

\* The third: the index with the change. Then the page lists all diagrams.
ServeStore(op) ==
  /\ op.at = "store"
  /\ index' = op.ids
  /\ Requeue(List(op.mount))
  /\ IF op.op = "save" THEN Open(op, op.id, active)
     ELSE IF op.open THEN Open(op, 0, NoSource)
     ELSE UNCHANGED <<current, active, editor>>
  /\ UNCHANGED <<records, savedList>>

\* Listing reads the index, then one record after the other; ids without a
\* record are left out.
ServeList(op) ==
  LET ids == IF op.at = "index" THEN index ELSE Tail(op.ids)
      seen == IF op.at = "item" /\ Head(op.ids) \in DOMAIN records
                THEN Append(op.seen, records[Head(op.ids)]) ELSE op.seen
  IN /\ op.op = "list"
     /\ IF ids = <<>>
          THEN /\ pending' = Tail(pending)
               /\ savedList' = IF op.mount = mounts THEN seen ELSE savedList
          ELSE /\ Requeue([op EXCEPT !.at = "item", !.ids = ids, !.seen = seen])
               /\ UNCHANGED savedList
     /\ UNCHANGED <<records, index, current, active, editor>>

Serve ==
  /\ pending # <<>>
  /\ LET op == Head(pending)
     IN ServeRecord(op) \/ ServeIndex(op) \/ ServeStore(op) \/ ServeList(op)
  /\ UNCHANGED <<activeTab, clicks, mounts, spoilt>>

\* A request fails: nothing catches the error, and the operation ends there.
FailServe ==
  /\ pending # <<>>
  /\ pending' = Tail(pending)
  /\ spoilt' = TRUE
  /\ UNCHANGED <<records, index, activeTab, Page, clicks, mounts>>

\* The page is left and opened again; the operations in progress go on.
ReopenDiagrams ==
  /\ mounts < MaxMounts
  /\ mounts' = mounts + 1
  /\ pending' = Append(pending, List(mounts + 1))
  /\ activeTab' = "mermaid"
  /\ current' = 0 /\ active' = NoSource /\ editor' = NoSource
  /\ savedList' = <<>>
  /\ spoilt' = (spoilt \/ \E i \in DOMAIN pending : pending[i].op # "list")
  /\ UNCHANGED <<records, index, clicks>>

DiagramsNext ==
  \/ Draw
  \/ \E tab \in Tabs : SelectTab(tab)
  \/ HandleSaveDiagram
  \/ \E i \in DOMAIN savedList : HandleLoadDiagram(i) \/ HandleDeleteDiagram(i)
  \/ Serve \/ FailServe \/ ReopenDiagrams

DiagramsSpec == DiagramsInit /\ [][DiagramsNext]_diagrams

-------------------------------------------------------------------------------
(* Properties *)

\* A list shows the records of the first n ids of the index, in their order and
\* without those that have none.
Shows(list, n) ==
  \E place \in [DOMAIN list -> 1 .. n] :
    /\ \A i, j \in DOMAIN list : i < j => place[i] < place[j]
    /\ \A i \in DOMAIN list : /\ index[place[i]] \in DOMAIN records
                              /\ list[i] = records[index[place[i]]]
    /\ \A p \in 1 .. n : index[p] \in DOMAIN records => \E i \in DOMAIN list : place[i] = p

\* Once the store has nothing left to do, the sidebar shows the diagrams that
\* are stored, in spite of overlapping saves, deletions and listings, each of
\* which shows what it read (DiagramPage.tsx calls loadSavedDiagrams at the end
\* of each operation). It may not when three of them overlap.
SidebarIsCurrent == pending = <<>> /\ ~spoilt => Shows(savedList, Len(index))

===============================================================================
