--------------------------- MODULE MCReportWizard ---------------------------
(* A host, a moderator and the features they use together.                   *)
EXTENDS ReportWizard, TLC

UsedTogether ==
    {{"report", "host", "moderator"}, {"report", "menus", "overlap", "host"},
     {"report", "stats", "menus", "host"}, {"commands", "stats", "host"},
     {"commands", "host", "moderator"}, {"cancel", "menus", "overlap", "host"},
     {"cancel", "commands", "host"}, {"panel", "menus", "overlap", "moderator"},
     {"commands", "marks", "host"}}

Lists(q, g, d) == [NoClaim EXCEPT !.quit = q, !.grief = g, !.dc = d]
SomeLists ==
    {Lists(None, None, None), Lists(Slots, None, None), Lists(None, Slots, {}), Lists({}, None, Slots)}

AlikeJobs == Permutations(Jobs)
=============================================================================
