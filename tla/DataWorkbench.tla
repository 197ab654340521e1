---------------------------- MODULE DataWorkbench ----------------------------
(***************************************************************************)
(* The structured data page: DataPage.tsx over format.ts, convert.ts and   *)
(* schema.ts. What is typed is saved half a second later, by a timer that  *)
(* the next keystroke replaces and that outlives the page, as a draft in   *)
(* IndexedDB, which carries out requests in the order they were made. The  *)
(* page restores the draft when it is mounted.                             *)
(***************************************************************************)
EXTENDS Integers, Sequences

CONSTANTS
  Texts,      \* bound: what is typed
  Sample,     \* what the page shows at first
  Empty,      \* blank input
  Formats,    \* bound: the data formats used
  Readable,   \* which text parses as which format, within the 5 MB limit
  MaxTyped,   \* bound: keystrokes and format changes
  MaxOpened   \* bound: times the page is opened

JSON == "json"
YAML == "yaml"

ASSUME DataAssumption ==
  /\ Sample \in Texts /\ Empty \in Texts
  /\ {JSON, YAML} \subseteq Formats
  /\ Readable \subseteq Texts \X Formats
  /\ MaxTyped \in Nat /\ MaxOpened \in Nat

VARIABLES
  input, format, targetFormat,
  output,     \* what was serialized, from which text and as what; or Nothing
  tab,        \* activeTab
  error,
  saves,     \* the timers running, oldest first, with the draft each will save
  restore,    \* the mounting get: "asked", "read" with an answer to come, "done"
  draft,      \* what that get read
  requests,   \* requests to IndexedDB not yet carried out, oldest first
  stored,     \* the record data/draft
  opened,     \* times the page was opened
  typings,    \* keystrokes and format changes so far
  typed,      \* history: the last text typed, with the format it was typed as
  lost        \* history: a draft was on its way to the store when a request
              \* failed or the browser was reloaded

data == <<input, format, targetFormat, output, tab, error, saves, restore, draft,
          requests, stored, opened, typings, typed, lost>>

Draft(text, as) == [input |-> text, format |-> as]
NoDraft == Draft(Empty, JSON)

Output(kind, of, as) == [kind |-> kind, of |-> of, as |-> as]
Nothing == Output("none", Empty, JSON)

GetDraft == [op |-> "get", draft |-> NoDraft, opened |-> opened]
SetDraft(d) == [op |-> "set", draft |-> d, opened |-> opened]

DataInit ==
  /\ input = Sample /\ format = JSON /\ targetFormat = YAML
  /\ output = Nothing /\ tab = "output" /\ error = FALSE
  /\ saves = <<>>
  /\ opened = 1
  /\ restore = "asked" /\ draft = NoDraft
  /\ requests = <<GetDraft>>
  /\ stored = NoDraft
  /\ typings = 0
  /\ typed = NoDraft
  /\ lost = FALSE

\* The page's own timer, if it has one running, is the last that was set.
OwnTimerCleared ==
  IF saves # <<>> /\ saves[Len(saves)].opened = opened
    THEN SubSeq(saves, 1, Len(saves) - 1)
    ELSE saves

\* The timer saves the text with the format it was typed as.
HandleInputChange(text) ==
  /\ typings < MaxTyped
  /\ typings' = typings + 1
  /\ input' = text
  /\ typed' = Draft(text, format)
  /\ saves' = Append(OwnTimerCleared, SetDraft(typed'))
  /\ UNCHANGED <<format, targetFormat, output, tab, error, restore, draft, requests,
                 stored, opened, lost>>

SelectFormat(f) ==
  /\ typings < MaxTyped /\ f # format
  /\ typings' = typings + 1
  /\ format' = f
  /\ UNCHANGED <<input, targetFormat, output, tab, error, saves, restore, draft,
                 requests, stored, opened, typed, lost>>

SelectTargetFormat(f) ==
  /\ f # targetFormat
  /\ targetFormat' = f
  /\ UNCHANGED <<input, format, output, tab, error, saves, restore, draft, requests,
                 stored, opened, typings, typed, lost>>

\* Mutant: the timer saves what the page shows.
SaveShown(timer) == [timer EXCEPT !.draft = Draft(input, format)]

SaveDraft(timer) == timer

\* Timers run for the same time, so the oldest is the next.
TimerFires ==
  /\ saves # <<>>
  /\ requests' = Append(requests, SaveDraft(Head(saves)))
  /\ saves' = Tail(saves)
  /\ UNCHANGED <<input, format, targetFormat, output, tab, error, restore, draft,
                 stored, opened, typings, typed, lost>>

\* A get reads for the page that asked, if it is still there.
CarryOutOldest ==
  /\ requests # <<>>
  /\ requests' = Tail(requests)
  /\ LET r == Head(requests)
     IN /\ stored' = IF r.op = "set" THEN r.draft ELSE stored
        /\ IF r.op = "get" /\ r.opened = opened
             THEN restore' = "read" /\ draft' = stored
             ELSE UNCHANGED <<restore, draft>>
  /\ UNCHANGED <<input, format, targetFormat, output, tab, error, saves, opened,
                 typings, typed, lost>>

FailOldest ==
  /\ requests # <<>>
  /\ requests' = Tail(requests)
  /\ lost' = (lost \/ Head(requests).op = "set")
  /\ restore' = IF Head(requests) = GetDraft THEN "done" ELSE restore
  /\ UNCHANGED <<input, format, targetFormat, output, tab, error, saves, draft,
                 stored, opened, typings, typed>>

\* The answer replaces what the page shows, typed meanwhile or not.
RestoreDraft ==
  /\ restore = "read"
  /\ restore' = "done" /\ draft' = NoDraft
  /\ IF draft.input # Empty
       THEN input' = draft.input /\ format' = draft.format
       ELSE UNCHANGED <<input, format>>
  /\ UNCHANGED <<targetFormat, output, tab, error, saves, requests, stored, opened,
                 typings, typed, lost>>

-------------------------------------------------------------------------------
(* The buttons: each parses the input first, but for a conversion to the
   format the input has, and keeps the old output when that fails. *)

Parses(text, f) == text = Empty \/ <<text, f>> \in Readable
Serialized(text, f) == IF text = Empty THEN Nothing ELSE Output("text", text, f)

Press(parsed, result, shown) ==
  /\ error' = ~parsed
  /\ output' = IF parsed THEN result ELSE output
  /\ tab' = IF parsed THEN shown ELSE tab
  /\ UNCHANGED <<input, format, targetFormat, saves, restore, draft, requests, stored,
                 opened, typings, typed, lost>>

HandleFormat == Press(Parses(input, format), Serialized(input, format), "output")
HandleMinify == Press(Parses(input, JSON), Output("minified", input, JSON), "output")
HandleConvert ==
  Press(format = targetFormat \/ Parses(input, format),
        IF format = targetFormat THEN Output("text", input, format)
                                 ELSE Serialized(input, targetFormat),
        "output")
HandleInferSchema == Press(Parses(input, format), Output("schema", input, format), "schema")
HandleInspectTree == Press(Parses(input, format), output, "tree")

\* The page is left and opened again, its timers running on; or the browser is
\* reloaded, which takes the timers and the requests with it.
ReopenData ==
  /\ opened < MaxOpened
  /\ opened' = opened + 1
  /\ input' = Sample /\ format' = JSON /\ targetFormat' = YAML
  /\ output' = Nothing /\ tab' = "output" /\ error' = FALSE
  /\ restore' = "asked" /\ draft' = NoDraft
  /\ \/ requests' = Append(requests, GetDraft') /\ UNCHANGED <<saves, lost>>
     \/ /\ requests' = <<GetDraft'>>
        /\ saves' = <<>>
        /\ lost' = (lost \/ saves # <<>> \/ \E i \in DOMAIN requests : requests[i].op = "set")
  /\ UNCHANGED <<stored, typings, typed>>

DataNext ==
  \/ \E text \in Texts : HandleInputChange(text)
  \/ \E f \in Formats : SelectFormat(f) \/ SelectTargetFormat(f)
  \/ TimerFires \/ CarryOutOldest \/ FailOldest \/ RestoreDraft
  \/ HandleFormat \/ HandleMinify \/ HandleConvert \/ HandleInferSchema \/ HandleInspectTree
  \/ ReopenData

DataSpec == DataInit /\ [][DataNext]_data

-------------------------------------------------------------------------------
(* Properties *)

\* When nothing is under way the stored draft is what was typed last, in the
\* format it was typed in, although a page left before half a second has passed
\* saves after the next one was opened, and a late restore replaces the text
\* the next keystroke's timer is to save (DataPage.tsx).
DraftIsLastTyped == saves = <<>> /\ requests = <<>> /\ ~lost => stored = typed

===============================================================================
