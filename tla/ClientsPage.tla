---------------------------- MODULE ClientsPage -----------------------------
(***************************************************************************)
(* The table and the detail drawer of app/dashboard/clients/page.tsx. The  *)
(* drawer shows one client's row and, beside it, the queue statistics      *)
(* fetched for a client. Opening it, refreshing it and its buttons each    *)
(* end with an answer that is applied whatever the drawer shows by then.   *)
(* The list of neighbours is left out: it is replaced only for a client    *)
(* with an address, so a late answer's neighbours may stay. The backend's  *)
(* part is Subscribers.                                                    *)
(***************************************************************************)
CONSTANTS
    Client,     \* clients in the table
    Nobody,     \* the drawer is closed, or holds nobody's statistics
    Tab         \* the tabs of the table

VARIABLES
    panel,      \* whose row the drawer shows (selectedClient), whose statistics, detailLoading
    busy,       \* actionLoading: the client whose buttons are disabled
    calls,      \* requests under way: [kind, c]
    table,      \* the tab chosen, and the tab whose rows are shown
    lists,      \* tabs whose rows are being fetched
    crossed     \* ghost: an answer about another client replaced the row alone

vars == <<panel, busy, calls, table, lists, crossed>>

Call == [kind : {"open", "refresh", "row", "drawer", "reload"}, c : Client]
Closed == [sel |-> Nobody, data |-> Nobody, loading |-> FALSE]

Init == /\ panel = Closed /\ busy = Nobody /\ calls = {} /\ crossed = FALSE
        /\ table \in {[chosen |-> t, shown |-> t] : t \in Tab}
        /\ lists = {}

Send(k, c) == /\ [kind |-> k, c |-> c] \notin calls
              /\ calls' = calls \cup {[kind |-> k, c |-> c]}
Answered(k, c) == /\ [kind |-> k, c |-> c] \in calls
                  /\ calls' = calls \ {[kind |-> k, c |-> c]}

----------------------------------------------------------------------------
(* handleSelectClient: a click on a row of the table. *)
Select(c) ==
    /\ panel.sel = Nobody
    /\ Send("open", c)
    /\ panel' = [sel |-> c, data |-> Nobody, loading |-> TRUE]
    /\ crossed' = FALSE
    /\ UNCHANGED <<busy, table, lists>>

(* Its answer puts the row and the statistics together. *)
DetailsOnly(c) ==
    /\ Answered("open", c)
    /\ panel' = [panel EXCEPT !.data = c, !.loading = FALSE]
    /\ UNCHANGED <<busy, table, lists, crossed>>

Details(c) ==
    /\ Answered("open", c)
    /\ panel' = [sel |-> c, data |-> c, loading |-> FALSE]
    /\ crossed' = FALSE
    /\ UNCHANGED <<busy, table, lists>>

(* The backdrop and the cross. *)
CloseDrawer ==
    /\ panel.sel # Nobody
    /\ panel' = [panel EXCEPT !.sel = Nobody, !.data = Nobody]
    /\ crossed' = FALSE
    /\ UNCHANGED <<busy, calls, table, lists>>

(* The answer of a refresh, or the row fetched after a button of the        *)
(* drawer: the row alone is replaced, and a closed drawer opens again.      *)
ShowRow(c) ==
    /\ panel' = [panel EXCEPT !.sel = c]
    /\ crossed' = (panel.data \notin {c, Nobody})

(* handleRefreshRealtime *)
Refresh(c) ==
    /\ panel.sel = c
    /\ Send("refresh", c)
    /\ UNCHANGED <<panel, busy, table, lists, crossed>>

Refreshed(c, ok) ==
    /\ Answered("refresh", c)
    /\ IF ok THEN ShowRow(c) ELSE UNCHANGED <<panel, crossed>>
    /\ UNCHANGED <<busy, table, lists>>

----------------------------------------------------------------------------
(* loadAll for the tab that is chosen; each answer replaces the table. *)
Fetching == lists' = lists \cup {table.chosen}

(* handleAction (the table) and handleClientAction (the drawer). One client *)
(* is busy at a time: a second action frees the first one's buttons.        *)
Act(c) ==
    /\ busy # c
    /\ \/ panel.sel = Nobody /\ Send("row", c)
       \/ panel.sel = c /\ ~panel.loading /\ Send("drawer", c)
    /\ busy' = c
    /\ UNCHANGED <<panel, table, lists, crossed>>

RowActed(c, ok) ==
    /\ Answered("row", c)
    /\ busy' = Nobody
    /\ IF ok THEN Fetching ELSE UNCHANGED lists
    /\ UNCHANGED <<panel, table, crossed>>

(* The drawer fetches the client again before it frees the buttons. *)
DrawerActed(c) ==
    /\ [kind |-> "drawer", c |-> c] \in calls
    /\ calls' = (calls \ {[kind |-> "drawer", c |-> c]}) \cup {[kind |-> "reload", c |-> c]}
    /\ UNCHANGED <<panel, busy, table, lists, crossed>>

DrawerFails(c) ==
    /\ Answered("drawer", c) \/ Answered("reload", c)
    /\ busy' = Nobody
    /\ UNCHANGED <<panel, table, lists, crossed>>

DrawerReloaded(c) ==
    /\ Answered("reload", c)
    /\ busy' = Nobody
    /\ ShowRow(c)
    /\ Fetching
    /\ UNCHANGED table

----------------------------------------------------------------------------
(* The tabs, the search box and the refresh button each start loadAll. *)
ChooseTab(t) ==
    /\ table' = [table EXCEPT !.chosen = t]
    /\ lists' = lists \cup {t}
    /\ UNCHANGED <<panel, busy, calls, crossed>>

Listed(t, ok) ==
    /\ t \in lists
    /\ lists' = lists \ {t}
    /\ table' = IF ok THEN [table EXCEPT !.shown = t] ELSE table
    /\ UNCHANGED <<panel, busy, calls, crossed>>

----------------------------------------------------------------------------
Next ==
    \/ CloseDrawer
    \/ \E c \in Client : \/ Select(c) \/ Details(c) \/ Refresh(c) \/ Act(c)
                         \/ DrawerActed(c) \/ DrawerFails(c) \/ DrawerReloaded(c)
    \/ \E c \in Client, ok \in BOOLEAN : Refreshed(c, ok) \/ RowActed(c, ok)
    \/ \E t \in Tab : ChooseTab(t)
    \/ \E t \in Tab, ok \in BOOLEAN : Listed(t, ok)

Spec == Init /\ [][Next]_vars

----------------------------------------------------------------------------
TypeOK == /\ panel \in [sel : Client \cup {Nobody}, data : Client \cup {Nobody}, loading : BOOLEAN]
          /\ busy \in Client \cup {Nobody}
          /\ calls \subseteq Call
          /\ table \in [chosen : Tab, shown : Tab]
          /\ lists \subseteq Tab
          /\ crossed \in BOOLEAN

(* The statistics in the drawer are of the client whose row it shows:       *)
(* openings may overtake each other, since each answer replaces both, but a *)
(* late refresh or button of another client replaces the row alone.         *)
PanelIsOneClient == ~crossed => panel.data \in {panel.sel, Nobody}
=============================================================================
