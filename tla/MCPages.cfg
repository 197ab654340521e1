CONSTANTS
  query1 = query1
  guide = guide
  manual = manual
  sketch = sketch
  react = react
  sample = sample
  yamlText = yamlText
  nothing = nothing
  blank = blank
  get = get
  post = post
  srv = srv
  local = local
  lan = lan
  public = public
  Queries = {query1}
  Sources = {react}
  Documents = {guide, manual}
  MaxFetches = 3
  MaxTypings = 1
  MaxEntries = 2
  Texts = {sample, yamlText, nothing}
  Sample = sample
  Empty = nothing
  Formats = {"json", "yaml"}
  Readable <- MCReadable
  MaxTyped = 2
  MaxOpened = 2
  Drawings = {sketch}
  Blank = blank
  MaxClicks = 3
  MaxOps = 3
  MaxMounts = 2
  Hosts = {local, lan, public}
  ClassOf <- MCClassOf
  Operations = {get, post}
  WithSchema = {get}
  Server = srv
  MaxRequests = 2
  MaxAttempts = 2
  MaxCalls = 3
SPECIFICATION AppSpec
INVARIANTS
  PermalinkNamesTheDocument
  DraftIsLastTyped
  
  OnlyConfirmedHosts
  VerifierOfTheSameAttempt
CHECK_DEADLOCK FALSE
