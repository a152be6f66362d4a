----------------------------- MODULE RateLimiter -----------------------------
(***************************************************************************)
(* internal/policy/ratelimit.go: the limiter every request of the proxy    *)
(* and of the gateway goes through.  Clients are the goroutines inside     *)
(* Allow.  The clock runs between any two of their steps, in particular    *)
(* between the two time.Now() of one call.                                 *)
(***************************************************************************)
EXTENDS Integers, Sequences, FiniteSets

CONSTANTS
  Clients,    \* goroutines calling Allow
  Services,   \* service names
  Limit,      \* rl.limits, 0 standing for a service it does not list
  Window,     \* time.Minute in ticks
  MaxTime,    \* bound: the clock stops here
  NoClient    \* the value of lock when the mutex is free

ASSUME LimitAssumption    == Limit \in [Services -> Int]
ASSUME WindowAssumption   == Window \in Nat
ASSUME MaxTimeAssumption  == MaxTime \in Nat
ASSUME NoClientAssumption == NoClient \notin Clients
ASSUME ServicesAssumption == Services # {}

VARIABLES
  now,        \* the monotonic clock
  lock,       \* rl.mu: its holder
  windows,    \* rl.windows: one ring buffer per service asked for so far
  pc,         \* where each client is in Allow
  req,        \* the argument of each client's last call
  cutoff,     \* the local cutoff of a call inside evict, 0 outside of it
  log         \* history: when each limited service admitted, in order

vars == <<now, lock, windows, pc, req, cutoff, log>>

Limited(s) == Limit[s] > 0

(*************************** the ring buffer *******************************)
\* A window of capacity Limit[s] holds w.count stamps, the oldest at w.head.
NewWindow(s) == [buf |-> [i \in 0..(Limit[s] - 1) |-> 0], head |-> 0, count |-> 0]

SlotNoWrap(w, s, i) == w.head + i                               \* mutant
Slot(w, s, i) == (w.head + i) % Limit[s]

\* The condition and the body of the loop of evict.
EvictableAtCutoff(w, t) == w.count > 0 /\ w.buf[w.head] <= t    \* mutant
Evictable(w, t) == w.count > 0 /\ w.buf[w.head] < t

EvictOldestKeepsCount(w, s) == [w EXCEPT !.head = Slot(w, s, 1)] \* mutant
EvictOldest(w, s) ==
  [buf |-> w.buf, head |-> Slot(w, s, 1), count |-> w.count - 1]

PushStampIgnoresHead(w, s, t) ==                                \* mutant
  [w EXCEPT !.buf[w.count] = t, !.count = @ + 1]
PushStamp(w, s, t) ==
  [buf |-> [w.buf EXCEPT ![Slot(w, s, w.count)] = t],
   head |-> w.head, count |-> w.count + 1]

(******************************* Allow *************************************)
MutexIgnored == TRUE                                            \* mutant
MutexFree == lock = NoClient

Unlock == lock' = NoClient

\* The condition w.count >= limit of Allow, negated.
HasRoomForOneMore(s) == windows[s].count <= Limit[s]            \* mutant
HasRoom(s) == windows[s].count < Limit[s]

\* The loop of evict has ended.
EvictedOnce(c) == TRUE                                          \* mutant
Evicted(c) == ~Evictable(windows[req[c]], cutoff[c])

Init ==
  /\ now = 0
  /\ lock = NoClient
  /\ windows = [s \in {} |-> NewWindow(s)]
  /\ pc = [c \in Clients |-> "idle"]
  /\ req = [c \in Clients |-> CHOOSE s \in Services : TRUE]
  /\ cutoff = [c \in Clients |-> 0]
  /\ log = [s \in Services |-> << >>]

Tick ==
  /\ now < MaxTime
  /\ now' = now + 1
  /\ UNCHANGED <<lock, windows, pc, req, cutoff, log>>

Call(c, s) ==
  /\ pc[c] = "idle"
  /\ pc' = [pc EXCEPT ![c] = "called"]
  /\ req' = [req EXCEPT ![c] = s]
  /\ UNCHANGED <<now, lock, windows, cutoff, log>>

\* No limit configured: allowed without the mutex.
FastAllow(c) ==
  /\ pc[c] = "called"
  /\ ~Limited(req[c])
  /\ pc' = [pc EXCEPT ![c] = "allowed"]
  /\ UNCHANGED <<now, lock, windows, req, cutoff, log>>

\* Lock, and look the window up or create it.
Acquire(c) ==
  /\ pc[c] = "called"
  /\ Limited(req[c])
  /\ MutexFree
  /\ lock' = c
  /\ pc' = [pc EXCEPT ![c] = "locked"]
  /\ windows' = [s \in DOMAIN windows \cup {req[c]} |->
                   IF s \in DOMAIN windows THEN windows[s] ELSE NewWindow(s)]
  /\ UNCHANGED <<now, req, cutoff, log>>

\* The first time.Now(): evict is entered with its cutoff.
StartEvict(c) ==
  /\ pc[c] = "locked"
  /\ pc' = [pc EXCEPT ![c] = "evicting"]
  /\ cutoff' = [cutoff EXCEPT ![c] = now - Window]
  /\ UNCHANGED <<now, lock, windows, req, log>>

EvictOne(c) ==
  /\ pc[c] = "evicting"
  /\ Evictable(windows[req[c]], cutoff[c])
  /\ windows' = [windows EXCEPT ![req[c]] = EvictOldest(@, req[c])]
  /\ UNCHANGED <<now, lock, pc, req, cutoff, log>>

\* evict has returned and the window is full: return false, unlocking.
Deny(c) ==
  /\ pc[c] = "evicting"
  /\ Evicted(c)
  /\ ~HasRoom(req[c])
  /\ Unlock
  /\ pc' = [pc EXCEPT ![c] = "denied"]
  /\ cutoff' = [cutoff EXCEPT ![c] = 0]
  /\ UNCHANGED <<now, windows, req, log>>

\* evict has returned and there is room.
Room(c) ==
  /\ pc[c] = "evicting"
  /\ Evicted(c)
  /\ HasRoom(req[c])
  /\ pc' = [pc EXCEPT ![c] = "pushing"]
  /\ cutoff' = [cutoff EXCEPT ![c] = 0]
  /\ UNCHANGED <<now, lock, windows, req, log>>

\* The second time.Now() is the stamp that is pushed; return true, unlocking.
Push(c) ==
  /\ pc[c] = "pushing"
  /\ windows' = [windows EXCEPT ![req[c]] = PushStamp(@, req[c], now)]
  /\ log' = [log EXCEPT ![req[c]] = Append(@, now)]
  /\ Unlock
  /\ pc' = [pc EXCEPT ![c] = "allowed"]
  /\ UNCHANGED <<now, req, cutoff>>

\* The caller has its answer and may call again.
Return(c) ==
  /\ pc[c] \in {"allowed", "denied"}
  /\ pc' = [pc EXCEPT ![c] = "idle"]
  /\ UNCHANGED <<now, lock, windows, req, cutoff, log>>

Inside(c) ==
  \/ StartEvict(c)
  \/ EvictOne(c)
  \/ Deny(c)
  \/ Room(c)
  \/ Push(c)

Next ==
  \/ Tick
  \/ \E c \in Clients :
       \/ \E s \in Services : Call(c, s)
       \/ FastAllow(c)
       \/ Acquire(c)
       \/ Inside(c)
       \/ Return(c)

Spec == Init /\ [][Next]_vars

\* A goroutine in Allow keeps running.  A sync.Mutex hands itself over to the
\* longest waiter once that waiter has waited 1ms, so nobody is overtaken for
\* ever: strong fairness of Acquire.  Time passes.  Nobody is bound to call.
Fairness ==
  /\ WF_vars(Tick)
  /\ \A c \in Clients :
       /\ WF_vars(FastAllow(c))
       /\ SF_vars(Acquire(c))
       /\ WF_vars(Inside(c))
       /\ WF_vars(Return(c))

FairSpec == Spec /\ Fairness

(***************************** properties **********************************)
States == {"idle", "called", "locked", "evicting", "pushing", "allowed", "denied"}

RingOf(s) == [buf : [0..(Limit[s] - 1) -> Nat], head : 0..(Limit[s] - 1),
              count : 0..Limit[s]]

\* The values each variable takes.  The bounds of head and count are the
\* slice's: an index outside of them panics in evict or push.
TypeOK ==
  /\ now \in 0..MaxTime
  /\ lock \in Clients \cup {NoClient}
  /\ DOMAIN windows \subseteq {s \in Services : Limited(s)}
  /\ \A s \in DOMAIN windows : windows[s] \in RingOf(s)
  /\ pc \in [Clients -> States]
  /\ req \in [Clients -> Services]
  /\ cutoff \in [Clients -> Int]
  /\ log \in [Services -> Seq(Nat)]

\* What the mutex protects is touched by its holder only, and the holder works
\* on a window that exists.
Owner ==
  \A c \in Clients :
    /\ pc[c] \in {"locked", "evicting", "pushing"} <=> lock = c
    /\ lock = c => req[c] \in DOMAIN windows

\* The rate limit itself: of any Limit[s] + 1 successive admissions of s, the
\* last comes more than Window after the first, whoever made the calls and
\* however the clock ran inside them (ratelimit.go Allow).
WindowBound ==
  \A s \in Services : Limited(s) =>
    \A i \in DOMAIN log[s] :
      i + Limit[s] \in DOMAIN log[s] =>
        log[s][i + Limit[s]] > log[s][i] + Window

\* The ring holds exactly the latest admissions, oldest at head, whatever
\* wrap-around and partial evictions came before: no stamp is lost,
\* overwritten or counted twice (ratelimit.go window).
RingIsLogSuffix ==
  \A s \in DOMAIN windows :
    LET w == windows[s]
        n == Len(log[s])
    IN /\ w.count <= n
       /\ \A i \in 0..(w.count - 1) :
            w.buf[Slot(w, s, i)] = log[s][n - w.count + 1 + i]

\* Eviction forgets nothing that still counts: every admission no longer in the
\* ring is older than the window, by the clock of whoever looks (evict's strict
\* Before, on the cutoff read under the mutex).
EvictedAreOld ==
  \A s \in DOMAIN windows :
    \A j \in 1..(Len(log[s]) - windows[s].count) : log[s][j] < now - Window

\* push's own comment: "Caller must ensure count < capacity" (ratelimit.go:27).
\* Room was checked before the second time.Now(): it still holds at the push.
PushHasRoom ==
  \A c \in Clients : pc[c] = "pushing" => windows[req[c]].count < Limit[req[c]]

\* The rest of what makes the invariants above inductive: stamps are in the order
\* of the pushes and not in the future, a service never locked has admitted
\* nothing, and a call inside evict has a cutoff no older than what is gone.
StampsInOrder ==
  \A s \in Services :
    /\ \A i \in DOMAIN log[s] : log[s][i] <= now
    /\ \A i, j \in DOMAIN log[s] : i <= j => log[s][i] <= log[s][j]
    /\ s \notin DOMAIN windows => log[s] = << >>

CutoffIsCurrent ==
  \A c \in Clients : pc[c] = "evicting" =>
    /\ cutoff[c] <= now - Window
    /\ \A j \in 1..(Len(log[req[c]]) - windows[req[c]].count) :
         log[req[c]][j] < cutoff[c]

IInv ==
  /\ TypeOK
  /\ Owner
  /\ RingIsLogSuffix
  /\ EvictedAreOld
  /\ PushHasRoom
  /\ StampsInOrder
  /\ CutoffIsCurrent
  /\ WindowBound

\* The limiter implements the sliding window: an admission takes effect at the
\* push, a denial when the cutoff is read, since from then on the verdict
\* cannot change.
Doomed(c) == LET n == Len(log[req[c]]) IN
  /\ n >= Limit[req[c]]
  /\ log[req[c]][n - Limit[req[c]] + 1] >= cutoff[c]

Verdict(c) ==
  CASE pc[c] = "idle" -> "none"
    [] pc[c] \in {"allowed", "denied"} -> pc[c]
    [] pc[c] = "evicting" /\ Doomed(c) -> "denied"
    [] OTHER -> "pending"

verdictBar == [c \in Clients |-> Verdict(c)]

SW == INSTANCE SlidingWindow WITH verdict <- verdictBar

\* Every behaviour of the limiter is one of the abstract sliding window:
\* Allow answers as if it had looked at clock and history at one instant.
ImplementsSlidingWindow == SW!Init /\ [][SW!Next]_(SW!swVars)

\* Every call returns, whoever else holds or wants the mutex.
CallReturns ==
  \A c \in Clients : pc[c] = "called" ~> pc[c] \in {"allowed", "denied"}

\* If one client keeps calling s, then after a denial with a full window of time
\* left somebody is admitted again: a full ring does reopen.
WindowReopens ==
  \A c \in Clients, s \in Services :
    []<>(pc[c] = "called" /\ req[c] = s) =>
      (pc[c] = "denied" /\ req[c] = s /\ now + Window < MaxTime
         ~> \E d \in Clients : pc[d] = "pushing" /\ req[d] = s)
=============================================================================
