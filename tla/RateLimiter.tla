----------------------------- MODULE RateLimiter -----------------------------
(***************************************************************************)
(* The in-memory fixed window that limits anonymous searches, one window   *)
(* per client address and at most maxClients of them                       *)
(* (services/record-api/src/rate-limit.ts).  allow() is synchronous, so a  *)
(* call is one step.  Windows store the time left until resetAt.           *)
(***************************************************************************)
EXTENDS Naturals, FiniteSets

CONSTANTS
    Client,      \* socket addresses
    Limit,       \* options.limit
    WindowTime,  \* options.windowMs, in ticks
    MaxClients,  \* options.maxClients
    NoWindow     \* a client without an entry in the map

ASSUME LimiterAssumption ==
    /\ Limit \in Nat \ {0} /\ WindowTime \in Nat \ {0} /\ MaxClients \in Nat \ {0}
    /\ NoWindow \notin [count : Nat, left : Nat]

VARIABLES
    windows,  \* the map of windows
    granted,  \* history: searches allowed since the client's last fresh start
    started   \* history: ticks since that start, up to WindowTime

limiterVars == <<windows, granted, started>>

Window == [count : 0..Limit, left : 0..WindowTime]

LimiterInit ==
    /\ windows = [c \in Client |-> NoWindow]
    /\ granted = [c \in Client |-> 0]
    /\ started = [c \in Client |-> WindowTime]

Entries(map) == {c \in Client : map[c] # NoWindow}

FaultyPruneAll(map) == [c \in Client |-> NoWindow]

\* pruneExpired.
Pruned(map) ==
    [c \in Client |->
        IF map[c] # NoWindow /\ map[c].left = 0 THEN NoWindow ELSE map[c]]

Full(map) == Cardinality(Entries(map)) >= MaxClients

\* The map as allow() finds it for client c: pruned if c is new and the map is
\* full.
Swept(c) ==
    IF windows[c] = NoWindow /\ Full(windows) THEN Pruned(windows) ELSE windows

\* The window allow() counts in: a new one when c has none or an expired one.
WindowFor(c) ==
    IF windows[c] = NoWindow \/ windows[c].left = 0
    THEN [count |-> 0, left |-> WindowTime] ELSE windows[c]

\* A new client is turned away while the map is full of live windows.
NoRoom(c) == windows[c] = NoWindow /\ Full(Swept(c))

Allow(c) ==
    /\ ~NoRoom(c)
    /\ WindowFor(c).count < Limit
    /\ windows' = [Swept(c) EXCEPT ![c] =
          [WindowFor(c) EXCEPT !.count = @ + 1]]
    /\ granted' = [granted EXCEPT ![c] = IF started[c] = WindowTime THEN 1 ELSE @ + 1]
    /\ started' = [started EXCEPT ![c] = IF @ = WindowTime THEN 0 ELSE @]

\* The refusals: the sweep is kept; with a fresh window there is none.
Refuse(c) ==
    /\ NoRoom(c) \/ WindowFor(c).count >= Limit
    /\ windows' = Swept(c)
    /\ UNCHANGED <<granted, started>>

LimiterTick ==
    /\ windows' = [c \in Client |->
          IF windows[c] # NoWindow /\ windows[c].left > 0
          THEN [windows[c] EXCEPT !.left = @ - 1] ELSE windows[c]]
    /\ started' = [c \in Client |->
          IF started[c] < WindowTime THEN started[c] + 1 ELSE started[c]]
    /\ UNCHANGED granted

LimiterNext == (\E c \in Client : Allow(c) \/ Refuse(c)) \/ LimiterTick

LimiterSpec == LimiterInit /\ [][LimiterNext]_limiterVars

-----------------------------------------------------------------------------
(* Properties.                                                             *)

LimiterTypeOK ==
    /\ windows \in [Client -> Window \cup {NoWindow}]
    /\ granted \in [Client -> Nat]
    /\ started \in [Client -> 0..WindowTime]
    /\ Cardinality(Entries(windows)) <= MaxClients

\* No client is allowed more than Limit searches in the WindowTime ticks after
\* a search that found it without a running window: neither the sweep nor a
\* full map hands out a second window early.
WindowHolds == \A c \in Client : granted[c] <= Limit

=============================================================================
