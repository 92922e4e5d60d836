------------------------------ MODULE MCRoster ------------------------------
(***************************************************************************)
(* An instance: a default list with a Rookie of the summer league on it, a *)
(* second list, and an NCAA player still known by his legacy id alone.     *)
(***************************************************************************)
EXTENDS RosterSpec

CONSTANTS e1, e2, s1, h1, n1, n2, n3

\* A first-version file, which knew neither lists nor tags; a third-version one, with a
\* promotion in its old form, both identities in one row; and one that leaves no default.
MCFiles ==
  {[version |-> 1, listed |-> FALSE, lists |-> {}, members |-> {},
    players |-> {[ext |-> Null, seq |-> s1, hl |-> Null, src |-> Null, level |-> "ncaa",
                  milb |-> Null, active |-> FALSE, rostered |-> Null]}],
   [version |-> 3, listed |-> TRUE,
    players |-> {[ext |-> e2, seq |-> s1, hl |-> Null, src |-> Null, level |-> "mlb",
                  milb |-> Null, active |-> TRUE, rostered |-> TRUE]},
    lists |-> {[name |-> n2, isDefault |-> FALSE, digestHour |-> Null, digestTo |-> Null]},
    members |-> {[list |-> n2, ext |-> e2, seq |-> Null, hl |-> Null]}],
   [version |-> 5, listed |-> TRUE,
    players |-> {[ext |-> Null, seq |-> Null, hl |-> h1, src |-> "highlightly_active", level |-> "ncaa",
                  milb |-> Null, active |-> TRUE, rostered |-> FALSE]},
    lists |-> {[name |-> n2, isDefault |-> TRUE, digestHour |-> 7, digestTo |-> "-"]},
    members |-> {[list |-> n2, ext |-> Null, seq |-> Null, hl |-> h1]}]}

NamedList(n, isDefault) == [NewList(n) EXCEPT !.isDefault = isDefault]

Prospect == ProRow(e1, [level |-> "milb", milb |-> "Rookie"])
Legacy == [HighlightlyRow(Null) EXCEPT !.seq = s1, !.src = "legacy_html"]

Scene(rows, lines) ==
  [players |-> rows, lists |-> <<NamedList(n1, TRUE), NamedList(n2, FALSE)>>,
   members |-> {<<1, 1>>}, derived |-> [i \in DOMAIN rows |-> {}], rostered |-> {1}, line |-> lines]

Early == Scene(<<Prospect, Legacy>>, <<"dsl", "legacy">>)
Later == Scene(<<Prospect, Legacy, HighlightlyRow(h1)>>, <<"dsl", "legacy", h1>>)

ASSUME ScenesAssumption == \A d \in {Early, Later} : Sound(Synced(d, DOMAIN d.players))

ListScene == Starts(Early, {"create", "rename", "delete", "setDefault", "configure", "addTo", "removeFrom"}, 3, 0)
AddScene == Starts(Early, {"add", "batch", "delete"}, 2, 1)
FetchScene == Starts(Later, {"refresh", "promote", "attach", "deactivate", "restore"}, 3, 0)
SweepScene == Starts(Later, {"sweep", "promote", "refresh", "tag", "rebuild", "restore"}, 3, 1)
BackupScene == Starts(Later, {"backup", "restore", "promote", "attach", "create", "addTo", "tag"}, 4, 0)

MCInit == ListScene \/ AddScene \/ FetchScene \/ SweepScene \/ BackupScene
MCStaged == Starts(Early, {"batch", "sweep"}, 2, 0)
MCStagedSpec == MCStaged /\ [][Next]_vars

MCSpec == MCInit /\ [][Next]_vars
=============================================================================
