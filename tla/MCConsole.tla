-------------------------------- MODULE MCConsole --------------------------------
(* A small instance of each part of the console.                                           *)
EXTENDS Console

\* Each page by itself; the merchant's, and the inbox, with queries that are loaded.
Tour(opened, loaded, n) == [pages |-> opened, loaded |-> loaded, moves |-> n]
Loaded(p) == DOMAIN Pages[p].shows
MCTours ==
  {Tour({p}, {}, 3) : p \in DOMAIN Pages \ {"merchant", "inbox"}}
  \cup {Tour({"merchant"}, {"health", "subscription", "campaigns"}, 2),
        Tour({"merchant"}, Loaded("merchant"), 2), Tour({"inbox"}, Loaded("inbox"), 2),
        Tour({"announcements", "breakGlass"}, {}, 3)}

Images(upload, save, remove, choose) ==
  [uploads |-> upload, saves |-> save, removals |-> remove, defaults |-> choose]
MCBadgeSupplies == {Images(2, 2, 0, 0), Images(1, 2, 1, 0), Images(2, 1, 1, 0), Images(0, 1, 2, 1)}

MCBucket == [f |-> [s1 |-> 0]]

Event(by, shop, area) == [by |-> by, shop |-> shop, area |-> area]
Filter(by, shop, from) == [by |-> by, shop |-> shop, area |-> "", from |-> from]
MCEvents == {Event("ann", "s1", "merchant"), Event("bob", "", "cron")}
MCBegun == <<Event("bob", "", "cron"), Event("ann", "s1", "merchant")>>
MCFilters == {Filter("", "", 0), Filter("bob", "", 0), Filter("", "s1", 2)}

MCFoci == {{r} : r \in {"note", "tag", "chatTag", "pinned", "csat", "canned", "action", "views", "nps", "chats"}}
MCCap == [views |-> 2, nps |-> 1, chats |-> 1]

Replica(arrival, update, command, failure) ==
  [shops |-> 1..3, arrivals |-> arrival, updates |-> update, commands |-> command, failures |-> failure]
MCPlan == <<1, 2, 1, 1>>
MCWords == <<{"x"}, {}, {"x"}, {}>>
MCMatches == [t \in {"", "x"} |-> IF t = "" THEN 1..4 ELSE {2}]
MCDirectorySupplies == {Replica(1, 1, 2, 0), Replica(0, 1, 3, 0), Replica(0, 0, 3, 1)}

Orders(admin, request, change, read, tick, failure, event, run) ==
  [admin |-> admin, requests |-> request, changes |-> change, reads |-> read, ticks |-> tick,
   failures |-> failure, events |-> event, runs |-> run]
MCPlanSupplies ==
  {Orders(TRUE, 2, 0, 0, 0, 2, 0, 0), Orders(FALSE, 2, 0, 0, 0, 2, 0, 0),
   Orders(TRUE, 0, 2, 4, 2, 1, 0, 0), Orders(TRUE, 0, 0, 0, 0, 0, 2, 4)}

Signs(sub, talks) == [sub |-> sub, cap |-> FALSE, open |-> talks, csat |-> 0]
Supply(shops, events1, delivery, rollup, kpi, failure) ==
  [shops |-> shops, world |-> events1, deliveries |-> delivery, rollups |-> rollup, kpis |-> kpi,
   failures |-> failure]
MCSignals == {Signs("active", 1), Signs("none", 0)}
MCGrowthSupplies ==
  {Supply({"s1"}, 2, 1, 2, 0, 0), Supply({"s1"}, 1, 2, 1, 1, 1), Supply({"s1"}, 2, 0, 0, 2, 1),
   Supply({"s1"}, 1, 1, 2, 0, 1), Supply({"s1", "s2"}, 1, 1, 1, 0, 0),
   Supply({"s1", "s2"}, 0, 0, 2, 0, 1)}

Setting(comparison, threshold) == [comparison |-> comparison, threshold |-> threshold]
MCSettings == {Setting("DROP_GT", 0), Setting("RISE_GT", 1)}
MCDeltas == {-1, 0, 2}
MCAlertSupplies == {[rules |-> 1, turns |-> 3], [rules |-> 2, turns |-> 1]}

Tier(severity, rate, long, short) == [severity |-> severity, rate |-> rate, long |-> long, short |-> short]
Load(webhook, tick, failure, move, look) ==
  [webhooks |-> webhook, ticks |-> tick, failures |-> failure, moves |-> move, views |-> look]
MCTiers == <<Tier("page", 3, 2, 1), Tier("ticket", 1, 3, 1)>>
MCSloSupplies == {Load(2, 4, 0, 0, 0), Load(1, 4, 1, 0, 0), Load(0, 2, 0, 3, 1)}
=============================================================================
