------------------------------ MODULE MCPortal ------------------------------
\* One behaviour is one of these scenes: one page reading while the chain
\* moves, or two tabs that log in, check their sessions and write.
EXTENDS Portal

CONSTANTS ann, bob

calm == [tabs |-> {1}, slots |-> {1}, ids |-> {1}, pages |-> {}, loads |-> {}, writes |-> {},
         others |-> {}, blocks |-> 0, lastTime |-> 0, lastClock |-> 0, logins |-> 1, browses |-> FALSE, expires |-> FALSE, losses |-> FALSE]

MCScenes == {
  [calm EXCEPT !.pages = {assetPage}, !.loads = {"asset"}, !.others = {"mint", "attest", "propose"},
               !.blocks = 3, !.lastTime = 1, !.lastClock = 1],
  [calm EXCEPT !.pages = {assetPage}, !.loads = {"asset"}, !.others = {"mint", "attest"},
               !.blocks = 2, !.lastTime = 2, !.lastClock = 3],
  [calm EXCEPT !.loads = {"assets"}, !.ids = {1, 2}, !.others = {"mint", "attest", "propose"}, !.blocks = 4],
  [calm EXCEPT !.pages = {divergencePage}, !.loads = {"divergences"}, !.others = {"mint", "attest", "propose", "confirm"}, !.blocks = 5],
  [calm EXCEPT !.slots = {1, 2}, !.pages = {assetPage}, !.loads = {"asset"}, !.writes = {"transfer"},
               !.others = {"mint"}, !.blocks = 2, !.losses = TRUE],
  [calm EXCEPT !.slots = {1, 2}, !.pages = {rolesPage}, !.loads = {"role"}, !.writes = {"grant"},
               !.blocks = 2, !.losses = TRUE],
  [calm EXCEPT !.tabs = {1, 2}, !.pages = {attestationsPage, identityPage}, !.writes = {"attest", "register"},
               !.blocks = 1, !.logins = 2],
  [calm EXCEPT !.tabs = {1, 2}, !.pages = {dashboardPage, rolesPage}, !.logins = 2, !.browses = TRUE, !.expires = TRUE],
  [calm EXCEPT !.slots = {1, 2}, !.pages = {dashboardPage, rolesPage}, !.loads = {"role"}, !.logins = 2, !.browses = TRUE, !.expires = TRUE, !.losses = TRUE]}
=============================================================================
