------------------------------- MODULE MCPages -------------------------------
(* Two documents, queries, drafts and drawings: enough for one of each to     *)
(* overtake the other.                                                        *)
EXTENDS Workbench, TLC

CONSTANTS query1, guide, manual, react, sample, yamlText, nothing, sketch, blank, get, post, srv,
          local, lan, public

MCReadable == {<<sample, "json">>, <<yamlText, "yaml">>}
MCClassOf == local :> "loopback" @@ lan :> "suffix" @@ public :> "public"

==============================================================================
