---------------------------- MODULE SlidingWindow ----------------------------
(***************************************************************************)
(* What policy.RateLimiter promises its callers, with no lock and no       *)
(* buffer: a request is answered at one instant, by comparing the clock    *)
(* with the history of what was admitted.  A limited service admits a      *)
(* request exactly when the Limit-th last admission is older than the      *)
(* window.                                                                 *)
(***************************************************************************)
EXTENDS Integers, Sequences

CONSTANTS
  Clients,    \* the goroutines that call Allow
  Services,   \* the service names they call it with
  Limit,      \* Limit[s]: the configured rate limit, none when not positive
  Window      \* the length of the window in ticks (one minute in the code)

VARIABLES
  now,        \* the monotonic clock
  log,        \* log[s]: the times at which s admitted a request, in order
  verdict,    \* verdict[c]: where the request of c stands
  req         \* req[c]: the service c last asked for

swVars == <<now, log, verdict, req>>

Limited(s) == Limit[s] > 0

\* At time t the last Limit[s] admissions all lie in the window that ends at t.
Full(s, t) == LET n == Len(log[s]) IN
  Limited(s) /\ n >= Limit[s] /\ log[s][n - Limit[s] + 1] >= t - Window

Init ==
  /\ now = 0
  /\ log = [s \in Services |-> << >>]
  /\ verdict = [c \in Clients |-> "none"]
  /\ req \in [Clients -> Services]

Tick ==
  /\ now' = now + 1
  /\ UNCHANGED <<log, verdict, req>>

Ask(c, s) ==
  /\ verdict[c] = "none"
  /\ verdict' = [verdict EXCEPT ![c] = "pending"]
  /\ req' = [req EXCEPT ![c] = s]
  /\ UNCHANGED <<now, log>>

\* Only admissions to a limited service are remembered.
Admit(c) ==
  /\ verdict[c] = "pending"
  /\ ~Full(req[c], now)
  /\ verdict' = [verdict EXCEPT ![c] = "allowed"]
  /\ log' = IF Limited(req[c]) THEN [log EXCEPT ![req[c]] = Append(@, now)]
                               ELSE log
  /\ UNCHANGED <<now, req>>

Deny(c) ==
  /\ verdict[c] = "pending"
  /\ Full(req[c], now)
  /\ verdict' = [verdict EXCEPT ![c] = "denied"]
  /\ UNCHANGED <<now, log, req>>

Answer(c) ==
  /\ verdict[c] \in {"allowed", "denied"}
  /\ verdict' = [verdict EXCEPT ![c] = "none"]
  /\ UNCHANGED <<now, log, req>>

Next ==
  \/ Tick
  \/ \E c \in Clients :
       \/ \E s \in Services : Ask(c, s)
       \/ Admit(c)
       \/ Deny(c)
       \/ Answer(c)

Spec == Init /\ [][Next]_swVars
=============================================================================
