----------------------------- MODULE Dashboard -----------------------------
(***************************************************************************)
(* The dashboard: its log page with the live feed, and its pages that list *)
(* and change the tables of the gateway.  The pages are all mounted and    *)
(* share nothing in the browser but the tables behind them, so a behaviour *)
(* is what happens on one of them, chosen in the initial state.            *)
(***************************************************************************)
EXTENDS LogFeed, AdminPages

dashboardVars == <<logVars, adminVars>>

DashboardInit ==
  /\ page \in ListPages \cup {"composer", "logs"}
  /\ LogInit
  /\ AdminInit

OnLogs(next) == page = "logs" /\ next /\ UNCHANGED adminVars

DashboardNext ==
  \/ OnLogs(PageNext) \/ OnLogs(OperatorNext) \/ OnLogs(FeedNext) \/ OnLogs(ServerNext)
  \/ page # "logs" /\ AdminNext /\ UNCHANGED logVars

\* The browser runs its callbacks, timers fire, the gateway answers and is
\* restarted when it stops; the operator and the outages owe nothing.
DashboardFairness ==
  /\ WF_dashboardVars(OnLogs(PageNext))
  /\ WF_dashboardVars(OnLogs(FeedNext))
  /\ WF_dashboardVars(OnLogs(\E c \in BagToSet(calls) : Serve(c)))
  /\ WF_dashboardVars(OnLogs(Restart))

DashboardSpec == DashboardInit /\ [][DashboardNext]_dashboardVars /\ DashboardFairness

\* The feed comes back after every outage, over one stream or the other, unless
\* the browser was told to close its EventSource for good.
FeedComesBack == page = "logs" => []<>(streamMode # "" \/ sse = "closed")
=============================================================================
