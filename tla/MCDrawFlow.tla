----------------------------- MODULE MCDrawFlow -----------------------------
(***************************************************************************)
(* Instances of DrawFlow for TLC.  Pokemon are interchangeable, and so are *)
(* requests, and tabs that post from the same client.                      *)
(***************************************************************************)
EXTENDS DrawFlow

Symmetry == Permutations(Pokemon) \cup Permutations(Tabs) \cup Permutations(Requests)

\* The tabs of one browser.
OneClient == [t \in Tabs |-> "browser"]

World(tabs, requests, faults, copied, maxSessions, maxRows) ==
    [tabs |-> tabs, requests |-> requests, faults |-> faults, backup |-> copied,
     maxSessions |-> maxSessions, maxRows |-> maxRows]

\* Nothing fails, and one request follows another, from one tab or from two;
\* requests of two tabs overlap; they overlap and fail; and a backup is made
\* next to a player whose requests may fail.
Alone(t, r) == World({t}, {r}, FALSE, FALSE, 4, 3)
Switching(r) == World(Tabs, {r}, FALSE, FALSE, 3, 2)
Overlapping == World(Tabs, Requests, FALSE, FALSE, 2, 2)
Crowded(t) == World({t}, Requests, TRUE, FALSE, 2, 2)
Copied(t, r) == World({t}, {r}, TRUE, TRUE, 2, 2)

AllWorlds ==
    {Overlapping}
    \cup UNION {{Alone(t, r), Switching(r), Crowded(t), Copied(t, r)} : t \in Tabs, r \in Requests}

\* One tab and one request at a time, and requests fail.
OneTab == {World({t}, {r}, TRUE, FALSE, 3, 2) : t \in Tabs, r \in Requests}

\* Two tabs and one request at a time, and nothing fails.
TwoTabs == {World(Tabs, {r}, FALSE, FALSE, 3, 2) : r \in Requests}

=============================================================================
