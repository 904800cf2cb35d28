------------------------------ MODULE Gateway -------------------------------
(***************************************************************************)
(* The rate limit in front of the API, kept in the memory of one process:  *)
(* a sliding window per client, or per client and path where the path has  *)
(* a limit of its own (rate_limit.py, as main.py configures it).  A check  *)
(* of the limit does not give way: it is one step.                         *)
(***************************************************************************)
EXTENDS Naturals, FiniteSets

CONSTANTS
    Clients,
    Paths,
    exclude_paths,          \* paths without a limit
    path_limits,            \* per path that has one: its own limit
    requests_per_minute,    \* the limit of all other paths
    window_size,            \* 60 s
    MaxSecond,              \* bound on the clock
    MaxCalls                \* bound on calls

ASSUME GatewayAssumption ==
    /\ exclude_paths \subseteq Paths
    /\ DOMAIN path_limits \subseteq Paths
    /\ \A p \in DOMAIN path_limits : path_limits[p] \in Nat
    /\ {requests_per_minute, window_size, MaxSecond, MaxCalls} \subseteq Nat

VARIABLES
    windows,            \* per key: calls let through (the code has their times)
    second,
    calls,
    (* What happened, for the properties:                                  *)
    passed,             \* calls let through since the process started
    turnedAway          \* calls refused since then

gatewayVars == <<windows, second, calls, passed, turnedAway>>

get_limit_for_path(p) ==
    IF p \in DOMAIN path_limits THEN path_limits[p] ELSE requests_per_minute

(* A tenth of the general limit, on top of every limit.                    *)
burst_size == IF requests_per_minute \div 10 > 1
              THEN requests_per_minute \div 10 ELSE 1

effective_limit(p) == get_limit_for_path(p) + burst_size

(* A path whose own limit is the general one shares the client's window.   *)
rate_key(c, p) == IF get_limit_for_path(p) # requests_per_minute
                  THEN <<c, p>> ELSE <<c>>

GatewayInit ==
    /\ windows = [k \in {} |-> {}]
    /\ second = 0 /\ calls = 0
    /\ passed = {} /\ turnedAway = {}

(* Slip: the oldest second of the window is forgotten.                     *)
RecentShort(k) ==
    IF k \in DOMAIN windows
    THEN {x \in windows[k] : x.at + window_size > second + 1}
    ELSE {}

(* The calls of a key that are still in the window.                        *)
RecentCalls(k) ==
    IF k \in DOMAIN windows
    THEN {x \in windows[k] : x.at + window_size > second}
    ELSE {}

Stored(k, recent) ==
    windows' = [x \in DOMAIN windows \cup {k} |->
                   IF x = k THEN recent ELSE windows[x]]

ThisCall(c, p) == [id |-> calls + 1, key |-> rate_key(c, p), path |-> p,
                   at |-> second]

Counted == calls < MaxCalls /\ calls' = calls + 1

(* dispatch, with is_allowed: a refused call does not count.               *)
dispatch(c, p) ==
    LET k      == rate_key(c, p)
        recent == RecentCalls(k)
        allowed == Cardinality(recent) < effective_limit(p)
    IN  /\ p \notin exclude_paths
        /\ Counted
        /\ Stored(k, IF allowed THEN recent \cup {ThisCall(c, p)} ELSE recent)
        /\ passed' = IF allowed THEN passed \cup {ThisCall(c, p)} ELSE passed
        /\ turnedAway' = IF allowed THEN turnedAway
                         ELSE turnedAway \cup {ThisCall(c, p)}
        /\ UNCHANGED second

Unlimited(p) ==
    /\ p \in exclude_paths
    /\ Counted
    /\ UNCHANGED <<windows, second, passed, turnedAway>>

Second ==
    /\ second < MaxSecond
    /\ second' = second + 1
    /\ UNCHANGED <<windows, calls, passed, turnedAway>>

(* A new process starts with empty windows.                                *)
NewProcess ==
    /\ windows' = [k \in {} |-> {}]
    /\ passed' = {} /\ turnedAway' = {}
    /\ UNCHANGED <<second, calls>>

GatewayNext ==
    \/ \E c \in Clients, p \in Paths : dispatch(c, p)
    \/ \E p \in Paths : Unlimited(p)
    \/ Second \/ NewProcess

GatewaySpec == GatewayInit /\ [][GatewayNext]_gatewayVars

-----------------------------------------------------------------------------

(* Calls of a key let through in the window that ends at time t.           *)
Load(k, t) == {x \in passed : x.key = k /\ x.at <= t /\ t < x.at + window_size}

(* The limit is exact: in no window of window_size seconds, wherever it    *)
(* starts, are more calls let through than the limit and the burst allow,  *)
(* and none is refused before they are used up.                            *)
LimitExact ==
    /\ \A x \in passed :
           Cardinality(Load(x.key, x.at)) <= effective_limit(x.path)
    /\ \A x \in turnedAway :
           Cardinality(Load(x.key, x.at)) >= effective_limit(x.path)
=============================================================================
