----------------------------- MODULE DocsSearch -----------------------------
(***************************************************************************)
(* The documentation page: DocsPage.tsx with its search box, results,      *)
(* document view and upload dialog, over toolboxClient.ts. Typing searches *)
(* after 200 ms; searches, documents and uploads are fetched concurrently  *)
(* and answered, or time out, in any order; nothing cancels them, not even *)
(* leaving the page. A document that is shown is named in the address bar. *)
(***************************************************************************)
EXTENDS Integers, Sequences, FiniteSets, SequencesExt

CONSTANTS
  Queries,     \* bound: what is typed, besides nothing
  Sources,     \* bound: the sources of the filter
  Documents,   \* bound: documents found and uploaded
  MaxFetches,  \* bound: fetches in a session
  MaxTypings,  \* bound: changes of the search box
  MaxEntries   \* bound: times the page is opened

Nowhere == "none"   \* no document, no text, no source: the empty string

ASSUME DocsAssumption ==
  /\ Nowhere \notin Queries \cup Sources \cup Documents
  /\ MaxFetches \in Nat /\ MaxTypings \in Nat /\ MaxEntries \in Nat

VARIABLES
  onDocs,       \* whether the page is mounted
  urlId,        \* the address bar's id parameter
  query, source,
  localVal,     \* the search box's text
  results,      \* the query and source they answer, or NoResults
  hasSearched, isLoadingResults, searchError,
  selectedDoc, isLoadingDoc, docError,
  isModalOpen, uploading, documents,   \* the upload dialog
  timers,       \* the search boxes' timers, oldest first
  fetches,      \* fetches in progress
  fetched,      \* fetches so far
  writes,       \* requests to IndexedDB for docs/recent-query, oldest first
  recent,       \* the record docs/recent-query
  custom,       \* the server's uploaded documents
  changes,      \* changes of the search box so far
  entries,      \* times the page was opened
  strayed       \* history: the browser's Back was used, or the page was left
                \* while a document or an upload was being fetched

box == <<query, source, localVal>>
found == <<results, hasSearched, isLoadingResults, searchError>>
doc == <<selectedDoc, isLoadingDoc, docError>>
modal == <<isModalOpen, uploading, documents>>
beyond == <<writes, recent, custom, entries, strayed>>
docs == <<onDocs, urlId, box, found, doc, modal, timers, fetches, fetched, changes, beyond>>

Results(q, s) == [query |-> q, source |-> s]
NoResults == Results(Nowhere, Nowhere)

\* A fetch, or a request to the store, with the query and source that its
\* caller saw; here tells whether the page that made it is still mounted.
Fetch(op, n, id, q, s) == [op |-> op, n |-> n, id |-> id, query |-> q, source |-> s,
                           here |-> onDocs]
Restore == [Fetch("get", 0, Nowhere, Nowhere, Nowhere) EXCEPT !.here = TRUE]

DocsInit ==
  /\ onDocs = FALSE
  /\ urlId = Nowhere
  /\ query = Nowhere /\ source = Nowhere /\ localVal = Nowhere
  /\ results = NoResults /\ hasSearched = FALSE /\ isLoadingResults = FALSE
  /\ searchError = FALSE
  /\ selectedDoc = Nowhere /\ isLoadingDoc = FALSE /\ docError = FALSE
  /\ isModalOpen = FALSE /\ uploading = FALSE /\ documents = {}
  /\ timers = <<>> /\ fetches = {} /\ fetched = 0
  /\ writes = <<>> /\ recent = NoResults
  /\ custom = {}
  /\ changes = 0 /\ entries = 0
  /\ strayed = FALSE

\* The search box is mounted, instead of the document view.
Searching == onDocs /\ selectedDoc = Nowhere /\ ~isLoadingDoc /\ ~docError

\* The box shows the query anew when it is mounted and when the query changes;
\* an unmounted box's timer can no longer be replaced.
BoxFollows ==
  /\ localVal' = IF Searching /\ Searching' /\ query' = query THEN localVal ELSE query'
  /\ timers' = IF Searching /\ Searching' THEN timers
               ELSE [i \in DOMAIN timers |-> [timers[i] EXCEPT !.box = FALSE]]

\* performSearch, called so many times; a page that was left still fetches.
PerformSearch(q, s, times) ==
  IF q = Nowhere
    THEN /\ results' = (IF onDocs THEN NoResults ELSE results)
         /\ hasSearched' = FALSE
         /\ UNCHANGED <<isLoadingResults, searchError, fetches, fetched>>
    ELSE /\ fetched + times <= MaxFetches
         /\ fetched' = fetched + times
         /\ fetches' = fetches \cup {Fetch("search", n, Nowhere, q, s) : n \in fetched + 1 .. fetched'}
         /\ hasSearched' = onDocs /\ isLoadingResults' = onDocs
         /\ searchError' = FALSE
         /\ UNCHANGED results

\* loadDocument, up to its await.
LoadDocument(id) ==
  /\ fetched < MaxFetches
  /\ fetched' = fetched + 1
  /\ fetches' = fetches \cup {Fetch("document", fetched', id, Nowhere, Nowhere)}
  /\ isLoadingDoc' = TRUE /\ docError' = FALSE
  /\ UNCHANGED <<selectedDoc, urlId>>

-------------------------------------------------------------------------------
(* The search box *)

OwnTimersCleared == SelectSeq(timers, LAMBDA t : ~t.box)

\* The timer will search with the source of the render it was set in.
HandleInput(text) ==
  /\ Searching /\ ~isModalOpen
  /\ changes < MaxTypings
  /\ changes' = changes + 1
  /\ localVal' = text
  /\ timers' = Append(OwnTimersCleared, [text |-> text, source |-> source, box |-> TRUE])
  /\ UNCHANGED <<onDocs, urlId, query, source, found, doc, modal, fetches, fetched, beyond>>

\* onChange, from the oldest timer.
BoxTimerFires ==
  /\ timers # <<>>
  /\ LET t == Head(timers)
     IN /\ query' = IF onDocs THEN t.text ELSE query
        /\ PerformSearch(t.text, t.source, 1)
        /\ timers' = Tail(timers)
        /\ localVal' = IF Searching /\ query' = query THEN localVal ELSE query'
  /\ UNCHANGED <<onDocs, urlId, source, doc, modal, changes, beyond>>

\* Enter: onChange and onSubmit both search for the text.
PressEnter ==
  /\ Searching /\ ~isModalOpen
  /\ changes < MaxTypings
  /\ changes' = changes + 1
  /\ query' = localVal
  /\ PerformSearch(localVal, source, 2)
  /\ timers' = OwnTimersCleared
  /\ UNCHANGED <<onDocs, urlId, source, localVal, doc, modal, beyond>>

\* Escape and Clear: the timer keeps running.
ClearSearch ==
  /\ Searching /\ ~isModalOpen /\ localVal # Nowhere
  /\ query' = Nowhere /\ localVal' = Nowhere
  /\ results' = NoResults /\ hasSearched' = FALSE
  /\ UNCHANGED <<onDocs, urlId, source, isLoadingResults, searchError, doc, modal, timers,
                 fetches, fetched, changes, beyond>>

HandleSourceChange(s) ==
  /\ Searching /\ ~isModalOpen /\ s # source
  /\ changes < MaxTypings
  /\ changes' = changes + 1
  /\ source' = s
  /\ IF query # Nowhere THEN PerformSearch(query, s, 1) ELSE UNCHANGED <<found, fetches, fetched>>
  /\ UNCHANGED <<onDocs, urlId, query, localVal, doc, modal, timers, beyond>>

-------------------------------------------------------------------------------
(* Answers *)

Finish(f) == fetches' = fetches \ {f} /\ UNCHANGED fetched

\* The results are shown, and the query is on its way to the store.
SearchAnswers(f) ==
  /\ f.op = "search"
  /\ Finish(f)
  /\ results' = IF f.here THEN Results(f.query, f.source) ELSE results
  /\ writes' = Append(writes, f)
  /\ UNCHANGED <<onDocs, urlId, box, hasSearched, isLoadingResults, searchError, doc, modal,
                 timers, changes, recent, custom, entries, strayed>>

SearchFails(f) ==
  /\ f.op = "search"
  /\ Finish(f)
  /\ IF f.here
       THEN /\ searchError' = TRUE /\ results' = NoResults
            /\ isLoadingResults' = FALSE
       ELSE UNCHANGED <<searchError, results, isLoadingResults>>
  /\ UNCHANGED <<onDocs, urlId, box, hasSearched, doc, modal, timers, changes, beyond>>

\* A write that fails makes the search one that failed.
WriteRecent(ok) ==
  /\ writes # <<>> /\ Head(writes).op = "search"
  /\ writes' = Tail(writes)
  /\ LET f == Head(writes)
     IN /\ recent' = IF ok THEN Results(f.query, f.source) ELSE recent
        /\ IF f.here
             THEN /\ isLoadingResults' = FALSE
                  /\ searchError' = (searchError \/ ~ok)
                  /\ results' = IF ok THEN results ELSE NoResults
             ELSE UNCHANGED <<isLoadingResults, searchError, results>>
  /\ UNCHANGED <<onDocs, urlId, box, hasSearched, doc, modal, timers, fetches, fetched,
                 changes, custom, entries, strayed>>

\* The mounting get: the recent query replaces what was typed meanwhile.
RestoreRecent(ok) ==
  /\ writes # <<>> /\ Head(writes).op = "get"
  /\ writes' = Tail(writes)
  /\ IF ok /\ Head(writes).here /\ recent # NoResults
       THEN /\ query' = recent.query /\ source' = recent.source
            /\ PerformSearch(recent.query, recent.source, 1)
       ELSE UNCHANGED <<query, source, found, fetches, fetched>>
  /\ UNCHANGED <<onDocs, urlId, doc, modal, changes, recent, custom, entries, strayed>>
  /\ BoxFollows

\* Mutant: an address that names a document is left alone.
DocumentAnswersQuietly(f) ==
  /\ f.op = "document"
  /\ Finish(f)
  /\ urlId' = IF urlId = Nowhere THEN f.id ELSE urlId
  /\ IF f.here
       THEN selectedDoc' = f.id /\ isLoadingDoc' = FALSE /\ UNCHANGED docError
       ELSE UNCHANGED doc
  /\ UNCHANGED <<onDocs, query, source, found, modal, changes, beyond>>
  /\ BoxFollows

\* The address bar is that of the page one is on, left or not.
DocumentAnswers(f) ==
  /\ f.op = "document"
  /\ Finish(f)
  /\ urlId' = f.id
  /\ IF f.here
       THEN selectedDoc' = f.id /\ isLoadingDoc' = FALSE /\ UNCHANGED docError
       ELSE UNCHANGED doc
  /\ UNCHANGED <<onDocs, query, source, found, modal, changes, beyond>>
  /\ BoxFollows

DocumentFails(f) ==
  /\ f.op = "document"
  /\ Finish(f)
  /\ IF f.here
       THEN selectedDoc' = Nowhere /\ isLoadingDoc' = FALSE /\ docError' = TRUE
       ELSE UNCHANGED doc
  /\ UNCHANGED <<onDocs, urlId, query, source, found, modal, changes, beyond>>
  /\ BoxFollows

SelectResult(id) ==
  /\ Searching /\ ~isModalOpen
  /\ results # NoResults /\ hasSearched /\ ~isLoadingResults /\ ~searchError
  /\ LoadDocument(id)
  /\ UNCHANGED <<onDocs, query, source, found, modal, changes, beyond>>
  /\ BoxFollows

\* Offered with a document and with an error.
HandleBackToSearch ==
  /\ onDocs /\ ~isModalOpen
  /\ docError \/ (selectedDoc # Nowhere /\ ~isLoadingDoc)
  /\ selectedDoc' = Nowhere /\ docError' = FALSE
  /\ urlId' = Nowhere
  /\ UNCHANGED <<onDocs, query, source, found, isLoadingDoc, modal, fetches, fetched,
                 changes, beyond>>
  /\ BoxFollows

-------------------------------------------------------------------------------
(* The upload dialog *)

Fetching(op, id) ==
  /\ fetched < MaxFetches
  /\ fetched' = fetched + 1
  /\ fetches' = fetches \cup {Fetch(op, fetched', id, query, source)}

OpenModal ==
  /\ onDocs /\ ~isModalOpen
  /\ isModalOpen' = TRUE
  /\ Fetching("list", Nowhere)
  /\ UNCHANGED <<onDocs, urlId, box, found, doc, uploading, documents, timers, changes, beyond>>

CloseModal ==
  /\ isModalOpen
  /\ isModalOpen' = FALSE
  /\ UNCHANGED <<onDocs, urlId, box, found, doc, uploading, documents, timers, fetches,
                 fetched, changes, beyond>>

HandleUpload(id) ==
  /\ isModalOpen /\ ~uploading
  /\ uploading' = TRUE
  /\ Fetching("upload", id)
  /\ UNCHANGED <<onDocs, urlId, box, found, doc, isModalOpen, documents, timers, changes, beyond>>

HandleDelete(id) ==
  /\ isModalOpen /\ id \in documents
  /\ ~\E f \in fetches : f.op = "delete"
  /\ Fetching("delete", id)
  /\ UNCHANGED <<onDocs, urlId, box, found, doc, modal, timers, changes, beyond>>

\* The server deletes; the dialog forgets the document and the page searches
\* again with the query the handler saw.
DeleteAnswers(f) ==
  /\ f.op = "delete"
  /\ custom' = custom \ {f.id}
  /\ documents' = IF f.here THEN documents \ {f.id} ELSE documents
  /\ IF f.query = Nowhere
       THEN Finish(f) /\ UNCHANGED found
       ELSE /\ fetches' = (fetches \ {f}) \cup {[f EXCEPT !.op = "search"]}
            /\ hasSearched' = onDocs /\ isLoadingResults' = onDocs /\ searchError' = FALSE
            /\ UNCHANGED <<fetched, results>>
  /\ UNCHANGED <<onDocs, urlId, box, doc, isModalOpen, uploading, timers, changes,
                 writes, recent, entries, strayed>>

ListAnswers(f) ==
  /\ f.op = "list"
  /\ Finish(f)
  /\ documents' = IF f.here THEN custom ELSE documents
  /\ UNCHANGED <<onDocs, urlId, box, found, doc, isModalOpen, uploading, timers, changes, beyond>>

\* The server has the document; the dialog lists again before it closes and the
\* page opens the document.
UploadAnswers(f) ==
  /\ f.op = "upload"
  /\ custom' = custom \cup {f.id}
  /\ fetches' = (fetches \ {f}) \cup {[f EXCEPT !.op = "relist"]}
  /\ UNCHANGED <<onDocs, urlId, box, found, doc, modal, timers, fetched, changes, writes,
                 recent, entries, strayed>>

RelistAnswers(f) ==
  /\ f.op = "relist"
  /\ fetches' = (fetches \ {f}) \cup {[f EXCEPT !.op = "document"]}
  /\ IF f.here
       THEN /\ documents' \in {custom, documents}
            /\ isModalOpen' = FALSE /\ uploading' = FALSE
            /\ isLoadingDoc' = TRUE /\ docError' = FALSE
       ELSE UNCHANGED <<modal, isLoadingDoc, docError>>
  /\ UNCHANGED <<onDocs, urlId, query, source, found, selectedDoc, fetched, changes, beyond>>
  /\ BoxFollows

UploadFails(f) ==
  /\ f.op \in {"upload", "list", "delete"}
  /\ Finish(f)
  /\ uploading' = IF f.op = "upload" /\ f.here THEN FALSE ELSE uploading
  /\ UNCHANGED <<onDocs, urlId, box, found, doc, isModalOpen, documents, timers, changes, beyond>>

-------------------------------------------------------------------------------
(* Coming and going *)

\* On mount the address bar's document is loaded; without one the recent query
\* is asked for.
OpenDocs(id) ==
  /\ ~onDocs /\ entries < MaxEntries
  /\ entries' = entries + 1
  /\ onDocs' = TRUE
  /\ urlId' = id
  /\ isLoadingDoc' = (id # Nowhere)
  /\ IF id = Nowhere
       THEN writes' = Append(writes, Restore) /\ UNCHANGED <<fetches, fetched>>
       ELSE /\ fetched < MaxFetches
            /\ fetched' = fetched + 1
            /\ fetches' = fetches \cup
                 {[Fetch("document", fetched', id, Nowhere, Nowhere) EXCEPT !.here = TRUE]}
            /\ UNCHANGED writes
  /\ UNCHANGED <<box, found, selectedDoc, docError, modal, timers, changes, recent, custom,
                 strayed>>

\* Another page: its address has no id, at first. Timers and fetches go on.
LeaveDocs ==
  /\ onDocs
  /\ onDocs' = FALSE
  /\ urlId' = Nowhere
  /\ strayed' = (strayed \/ \E f \in fetches : f.op \in {"document", "upload", "relist"})
  /\ fetches' = {[f EXCEPT !.here = FALSE] : f \in fetches}
  /\ writes' = [i \in DOMAIN writes |-> [writes[i] EXCEPT !.here = FALSE]]
  /\ timers' = [i \in DOMAIN timers |-> [timers[i] EXCEPT !.box = FALSE]]
  /\ query' = Nowhere /\ source' = Nowhere /\ localVal' = Nowhere
  /\ results' = NoResults /\ hasSearched' = FALSE /\ isLoadingResults' = FALSE
  /\ searchError' = FALSE
  /\ selectedDoc' = Nowhere /\ isLoadingDoc' = FALSE /\ docError' = FALSE
  /\ isModalOpen' = FALSE /\ uploading' = FALSE /\ documents' = {}
  /\ UNCHANGED <<fetched, changes, recent, custom, entries>>

\* The browser's Back to an earlier address of the page, which does not listen.
BrowserBack ==
  /\ onDocs
  /\ urlId' \in (Documents \cup {Nowhere}) \ {urlId}
  /\ strayed' = TRUE
  /\ UNCHANGED <<onDocs, box, found, doc, modal, timers, fetches, fetched, changes, writes,
                 recent, custom, entries>>

DocsNext ==
  \/ \E text \in Queries \cup {Nowhere} : HandleInput(text)
  \/ \E s \in Sources \cup {Nowhere} : HandleSourceChange(s)
  \/ BoxTimerFires \/ PressEnter \/ ClearSearch
  \/ \E f \in fetches :
       \/ SearchAnswers(f) \/ SearchFails(f)
       \/ DocumentAnswers(f) \/ DocumentFails(f)
       \/ ListAnswers(f) \/ DeleteAnswers(f) \/ UploadAnswers(f) \/ RelistAnswers(f)
       \/ UploadFails(f)
  \/ \E ok \in BOOLEAN : WriteRecent(ok) \/ RestoreRecent(ok)
  \/ \E id \in Documents : SelectResult(id) \/ HandleUpload(id) \/ HandleDelete(id)
  \/ HandleBackToSearch
  \/ OpenModal \/ CloseModal
  \/ \E id \in Documents \cup {Nowhere} : OpenDocs(id)
  \/ LeaveDocs \/ BrowserBack

DocsSpec == DocsInit /\ [][DocsNext]_docs

-------------------------------------------------------------------------------
(* Properties *)

\* The document on the page is the one that the address bar, and so a copied
\* link or a reload, names, although documents are fetched concurrently and
\* answered in any order (DocsPage.tsx loadDocument).
PermalinkNamesTheDocument == onDocs /\ selectedDoc # Nowhere /\ ~strayed => urlId = selectedDoc

===============================================================================
