------------------------------ MODULE LocalTools ------------------------------
(***************************************************************************)
(* The pages that compute in the browser alone. They share the tab and     *)
(* nothing else, so a behaviour is that of the one page opened: the state  *)
(* of the others stays that of a page not used yet.                        *)
(***************************************************************************)
EXTENDS GitSandbox, AlgorithmLessons, Cron, Diff, JsonPath, SqlFormat, TypeGeneration

VARIABLE opened  \* the page opened

GitUnused == /\ PageStart /\ requests = <<>>
VisualiserUnused ==
  /\ algo = "" /\ values = <<>> /\ pc = "idle" /\ steps = 0
  /\ PlayerIdle /\ SortingIdle /\ SearchIdle /\ StructureIdle /\ NoHash /\ target = 0
CronUnused == expression = [shorthand |-> "", fields |-> <<>>] /\ asked = 0
DiffUnused == leftDoc = <<>> /\ rightDoc = <<>> /\ options = NoOptions
QueryUnused == document = Null /\ wanted = <<>> /\ style = "dots"
SqlUnused == SqlInit
TypesUnused == json = NoSample /\ language = "" /\ rootName = ""

ToolsInit ==
  \/ /\ opened = "git" /\ PageInit
     /\ VisualiserUnused /\ CronUnused /\ DiffUnused /\ QueryUnused /\ SqlUnused /\ TypesUnused
  \/ /\ opened = "visualiser" /\ VisualiserInit
     /\ GitUnused /\ CronUnused /\ DiffUnused /\ QueryUnused /\ SqlUnused /\ TypesUnused
  \/ /\ opened = "cron" /\ CronInit
     /\ GitUnused /\ VisualiserUnused /\ DiffUnused /\ QueryUnused /\ SqlUnused /\ TypesUnused
  \/ /\ opened = "diff" /\ DiffInit
     /\ GitUnused /\ VisualiserUnused /\ CronUnused /\ QueryUnused /\ SqlUnused /\ TypesUnused
  \/ /\ opened = "query" /\ QueryInit
     /\ GitUnused /\ VisualiserUnused /\ CronUnused /\ DiffUnused /\ SqlUnused /\ TypesUnused
  \/ /\ opened = "sql" /\ SqlInit
     /\ GitUnused /\ VisualiserUnused /\ CronUnused /\ DiffUnused /\ QueryUnused /\ TypesUnused
  \/ /\ opened = "types" /\ TypesInit
     /\ GitUnused /\ VisualiserUnused /\ CronUnused /\ DiffUnused /\ QueryUnused /\ SqlUnused

ToolsNext ==
  /\ UNCHANGED opened
  /\ \/ /\ opened = "git" /\ PageNext
        /\ UNCHANGED <<visualiser, cronVars, diffVars, queryVars, sqlVars, typesVars>>
     \/ /\ opened = "visualiser" /\ VisualiserNext
        /\ UNCHANGED <<allVars, cronVars, diffVars, queryVars, sqlVars, typesVars>>
     \/ /\ opened = "cron" /\ SetExpression
        /\ UNCHANGED <<allVars, visualiser, diffVars, queryVars, sqlVars, typesVars>>
     \/ /\ opened = "diff" /\ (SetSide \/ SetOption)
        /\ UNCHANGED <<allVars, visualiser, cronVars, queryVars, sqlVars, typesVars>>
     \/ /\ opened = "query" /\ (TypeQuery \/ TypeDocument)
        /\ UNCHANGED <<allVars, visualiser, cronVars, diffVars, sqlVars, typesVars>>
     \/ /\ opened = "sql" /\ SqlNext
        /\ UNCHANGED <<allVars, visualiser, cronVars, diffVars, queryVars, typesVars>>
     \/ /\ opened = "types" /\ (SetJson \/ SetLanguage)
        /\ UNCHANGED <<allVars, visualiser, cronVars, diffVars, queryVars, sqlVars>>

toolsVars == <<opened, allVars, visualiser, cronVars, diffVars, queryVars, sqlVars, typesVars>>

ToolsSpec == ToolsInit /\ [][ToolsNext]_toolsVars

===============================================================================
