-------------------------- MODULE RateLimiterProofs --------------------------
(***************************************************************************)
(* The rate limiter keeps its bound, and implements the sliding window,    *)
(* for every set of clients and services, every limit and every window.    *)
(***************************************************************************)
EXTENDS RateLimiter, TLAPS

(****************************** the ring ***********************************)
\* Counting from the end of a log of n entries, of which k are in the ring.
LEMMA SuffixIndex ==
  ASSUME NEW n \in Nat, NEW k \in Nat, k <= n, NEW i \in Int
  PROVE  /\ n - (k - 1) + 1 + i = n - k + 1 + (i + 1)
         /\ (n + 1) - (k + 1) + 1 + i = n - k + 1 + i
         /\ i \in 0..(k - 1) => n - k + 1 + i \in 1..n
OBVIOUS

\* Stepping an index of a ring of L slots round its end.
LEMMA WrapAround ==
  ASSUME NEW L \in Nat, L > 0, NEW i \in 0..(2 * L - 1)
  PROVE  i % L = IF i < L THEN i ELSE i - L
<1>1. CASE i < L   BY <1>1
<1>2. CASE i >= L  BY <1>2
<1> QED  BY <1>1, <1>2

LEMMA SlotValue ==
  ASSUME NEW s \in Services, Limited(s), NEW w \in RingOf(s), NEW i \in 0..Limit[s]
  PROVE  /\ Slot(w, s, i) \in 0..(Limit[s] - 1)
         /\ Slot(w, s, i) = IF w.head + i < Limit[s] THEN w.head + i
                                                      ELSE w.head + i - Limit[s]
<1>1. Limit[s] \in Nat /\ Limit[s] > 0
  BY LimitAssumption DEF Limited
<1>2. w.head + i \in 0..(2 * Limit[s] - 1)
  BY <1>1 DEF RingOf
<1>3. \A n \in 0..(2 * Limit[s] - 1) :
        n % Limit[s] = IF n < Limit[s] THEN n ELSE n - Limit[s]
  BY <1>1, WrapAround
<1>4. w.head \in 0..(Limit[s] - 1)
  BY DEF RingOf
<1> QED  BY <1>1, <1>2, <1>3, <1>4 DEF Slot

\* An empty window of any capacity is a ring.
LEMMA NewWindowRing ==
  ASSUME NEW s \in Services, Limited(s)
  PROVE  NewWindow(s) \in RingOf(s) /\ NewWindow(s).count = 0
BY LimitAssumption DEF NewWindow, RingOf, Limited

\* evict's step drops the oldest entry and renumbers the others.
LEMMA EvictRing ==
  ASSUME NEW s \in Services, Limited(s), NEW w \in RingOf(s), w.count > 0
  PROVE  LET v == EvictOldest(w, s) IN
         /\ v \in RingOf(s)
         /\ v.count = w.count - 1
         /\ v.buf = w.buf
         /\ \A i \in 0..(v.count - 1) : Slot(v, s, i) = Slot(w, s, i + 1)
<1> DEFINE v == EvictOldest(w, s)
<1>1. Limit[s] \in Nat /\ Limit[s] > 0
  BY LimitAssumption DEF Limited
<1>2. Slot(w, s, 1) \in 0..(Limit[s] - 1)
  BY <1>1, SlotValue
<1>3. v.count = w.count - 1 /\ v.buf = w.buf /\ v.head = Slot(w, s, 1)
  BY DEF EvictOldest, RingOf
<1>4. v \in RingOf(s)
  <2>1. w.count - 1 \in 0..Limit[s]
    BY <1>1 DEF RingOf
  <2> QED  BY <1>2, <2>1 DEF EvictOldest, RingOf
<1>5. ASSUME NEW i \in 0..(v.count - 1)
      PROVE  Slot(v, s, i) = Slot(w, s, i + 1)
  <2>1. w.count \in 0..Limit[s] /\ w.head \in 0..(Limit[s] - 1)
    BY DEF RingOf
  <2>2. i \in 0..Limit[s] /\ i + 1 \in 0..Limit[s] /\ 1 \in 0..Limit[s]
    BY <1>1, <1>3, <2>1, <1>5
  <2>3. /\ Slot(v, s, i) = IF v.head + i < Limit[s] THEN v.head + i
                                                    ELSE v.head + i - Limit[s]
        /\ Slot(w, s, i + 1) = IF w.head + (i + 1) < Limit[s] THEN w.head + (i + 1)
                               ELSE w.head + (i + 1) - Limit[s]
        /\ Slot(w, s, 1) = IF w.head + 1 < Limit[s] THEN w.head + 1
                                                    ELSE w.head + 1 - Limit[s]
    BY <1>4, <2>2, SlotValue
  <2> HIDE DEF v
  <2> QED  BY <1>1, <1>3, <2>1, <2>2, <2>3
<1> QED  BY <1>3, <1>4, <1>5

\* push writes the slot after the newest entry and disturbs no other.
LEMMA PushRing ==
  ASSUME NEW s \in Services, Limited(s), NEW w \in RingOf(s), NEW t \in Nat,
         w.count < Limit[s]
  PROVE  LET v == PushStamp(w, s, t) IN
         /\ v \in RingOf(s)
         /\ v.count = w.count + 1
         /\ \A i \in 0..(w.count - 1) : v.buf[Slot(v, s, i)] = w.buf[Slot(w, s, i)]
         /\ v.buf[Slot(v, s, w.count)] = t
<1> DEFINE v == PushStamp(w, s, t)
<1>1. Limit[s] \in Nat /\ Limit[s] > 0
  BY LimitAssumption DEF Limited
<1>2. w.count \in 0..Limit[s] /\ w.head \in 0..(Limit[s] - 1)
  BY DEF RingOf
<1>3. Slot(w, s, w.count) \in 0..(Limit[s] - 1)
  BY <1>1, <1>2, SlotValue
<1>4. /\ v.count = w.count + 1
      /\ v.head = w.head
      /\ v.buf = [w.buf EXCEPT ![Slot(w, s, w.count)] = t]
  BY DEF PushStamp, RingOf
<1>5. v \in RingOf(s)
  <2>1. [w.buf EXCEPT ![Slot(w, s, w.count)] = t] \in [0..(Limit[s] - 1) -> Nat]
    BY <1>3 DEF RingOf
  <2>2. w.count + 1 \in 0..Limit[s]
    BY <1>1, <1>2
  <2> QED  BY <1>2, <2>1, <2>2 DEF PushStamp, RingOf
<1>6. \A i : Slot(v, s, i) = Slot(w, s, i)
  BY <1>4 DEF Slot
<1>7. DOMAIN w.buf = 0..(Limit[s] - 1)
  BY DEF RingOf
<1>8. ASSUME NEW i \in 0..(w.count - 1)
      PROVE  Slot(w, s, i) # Slot(w, s, w.count) /\ Slot(w, s, i) \in 0..(Limit[s] - 1)
  <2>1. i \in 0..Limit[s] /\ i < w.count /\ w.count \in 0..Limit[s]
    BY <1>1, <1>2
  <2>2. /\ Slot(w, s, i) \in 0..(Limit[s] - 1)
        /\ Slot(w, s, i) = IF w.head + i < Limit[s] THEN w.head + i
                                                    ELSE w.head + i - Limit[s]
        /\ Slot(w, s, w.count) = IF w.head + w.count < Limit[s] THEN w.head + w.count
                                 ELSE w.head + w.count - Limit[s]
    BY <2>1, SlotValue
  <2> QED  BY <1>1, <1>2, <2>1, <2>2
<1> HIDE DEF v
<1>9. v.buf[Slot(v, s, w.count)] = t
  BY <1>3, <1>4, <1>6, <1>7
<1>10. ASSUME NEW i \in 0..(w.count - 1)
       PROVE  v.buf[Slot(v, s, i)] = w.buf[Slot(w, s, i)]
  <2>1. Slot(v, s, i) = Slot(w, s, i)
    BY <1>6
  <2>2. Slot(w, s, i) # Slot(w, s, w.count) /\ Slot(w, s, i) \in DOMAIN w.buf
    BY <1>7, <1>8
  <2> QED  BY <1>4, <2>1, <2>2
<1> QED  BY <1>4, <1>5, <1>9, <1>10 DEF v

(************************ the inductive invariant **************************)
\* Only a push can change the log, an eviction or a push a window: a step that
\* leaves both and the clock alone keeps every invariant about them.
LEMMA QuietStep ==
  ASSUME RingIsLogSuffix, EvictedAreOld, StampsInOrder, WindowBound,
         UNCHANGED <<now, windows, log>>
  PROVE  RingIsLogSuffix' /\ EvictedAreOld' /\ StampsInOrder' /\ WindowBound'
<1>1. RingIsLogSuffix' BY DEF RingIsLogSuffix, Slot
<1>2. EvictedAreOld'   BY DEF EvictedAreOld
<1>3. StampsInOrder'   BY DEF StampsInOrder
<1>4. WindowBound'     BY DEF WindowBound, Limited
<1> QED  BY <1>1, <1>2, <1>3, <1>4

LEMMA InitInvariant == Init => IInv
<1> SUFFICES ASSUME Init PROVE IInv
  OBVIOUS
<1>1. TypeOK
  BY MaxTimeAssumption, ServicesAssumption DEF Init, TypeOK, States
<1>2. Owner
  BY NoClientAssumption DEF Init, Owner
<1>3. RingIsLogSuffix /\ EvictedAreOld
  BY DEF Init, RingIsLogSuffix, EvictedAreOld
<1>4. PushHasRoom /\ CutoffIsCurrent
  BY DEF Init, PushHasRoom, CutoffIsCurrent
<1>5. StampsInOrder /\ WindowBound
  BY DEF Init, StampsInOrder, WindowBound
<1> QED  BY <1>1, <1>2, <1>3, <1>4, <1>5 DEF IInv

LEMMA TickStep == IInv /\ Tick => IInv'
<1> SUFFICES ASSUME IInv, Tick PROVE IInv'
  OBVIOUS
<1> USE DEF IInv
<1>1. now \in Nat /\ now' = now + 1
  BY MaxTimeAssumption DEF Tick, TypeOK
<1>2. UNCHANGED <<lock, windows, pc, req, cutoff, log>>
  BY DEF Tick
<1>3. TypeOK'
  BY <1>1, <1>2, MaxTimeAssumption DEF Tick, TypeOK, RingOf, Limited
<1>4. Owner' /\ PushHasRoom' /\ RingIsLogSuffix' /\ WindowBound'
  BY <1>2 DEF Owner, PushHasRoom, RingIsLogSuffix, WindowBound, Slot, Limited
<1>5. \A s \in DOMAIN windows :
        \A j \in 1..(Len(log[s]) - windows[s].count) :
          log[s][j] \in Int
  <2> SUFFICES ASSUME NEW s \in DOMAIN windows,
                      NEW j \in 1..(Len(log[s]) - windows[s].count)
               PROVE  log[s][j] \in Int
    OBVIOUS
  <2>1. log[s] \in Seq(Nat) /\ windows[s].count \in Nat
    BY LimitAssumption DEF TypeOK, RingOf, Limited
  <2> QED  BY <2>1
<1>6. EvictedAreOld'
  BY <1>1, <1>2, <1>5, WindowAssumption DEF EvictedAreOld
<1>7. StampsInOrder'
  <2>1. \A s \in Services : \A i \in DOMAIN log[s] : log[s][i] \in Nat
    BY DEF TypeOK
  <2> QED  BY <1>1, <1>2, <2>1 DEF StampsInOrder
<1>8. CutoffIsCurrent'
  BY <1>1, <1>2, WindowAssumption DEF CutoffIsCurrent, TypeOK
<1> QED  BY <1>3, <1>4, <1>6, <1>7, <1>8

\* Call, FastAllow and Return move one client outside of the mutex.
LEMMA OutsideStep ==
  ASSUME IInv, NEW c \in Clients,
         \/ \E s \in Services : Call(c, s)
         \/ FastAllow(c)
         \/ Return(c)
  PROVE  IInv'
<1> USE DEF IInv
<1>1. UNCHANGED <<now, lock, windows, cutoff, log>>
  BY DEF Call, FastAllow, Return
<1>2. /\ pc[c] \notin {"locked", "evicting", "pushing"}
      /\ \E p \in {"idle", "called", "allowed"} : pc' = [pc EXCEPT ![c] = p]
      /\ \E s \in Services : req' = [req EXCEPT ![c] = s]
  BY DEF Call, FastAllow, Return, TypeOK
<1>3. /\ pc'[c] \notin {"locked", "evicting", "pushing"}
      /\ \A d \in Clients \ {c} : pc'[d] = pc[d] /\ req'[d] = req[d]
  BY <1>2 DEF TypeOK
<1>4. TypeOK'
  BY <1>1, <1>2 DEF TypeOK, States, RingOf, Limited
<1>5. lock # c
  BY <1>2 DEF Owner
<1>6. Owner'
  BY <1>1, <1>2, <1>3, <1>5 DEF Owner
<1>7. PushHasRoom' /\ CutoffIsCurrent'
  BY <1>1, <1>3 DEF PushHasRoom, CutoffIsCurrent
<1> QED  BY <1>1, <1>4, <1>6, <1>7, QuietStep

LEMMA AcquireStep ==
  ASSUME IInv, NEW c \in Clients, Acquire(c)
  PROVE  IInv'
<1> USE DEF IInv
<1> DEFINE s == req[c]
<1>1. /\ UNCHANGED <<now, req, cutoff, log>>
      /\ lock = NoClient /\ lock' = c
      /\ pc[c] = "called" /\ pc' = [pc EXCEPT ![c] = "locked"]
      /\ s \in Services /\ Limited(s)
  BY DEF Acquire, MutexFree, TypeOK
<1>2. /\ DOMAIN windows' = DOMAIN windows \cup {s}
      /\ \A r \in DOMAIN windows : windows'[r] = windows[r]
      /\ s \notin DOMAIN windows => windows'[s] = NewWindow(s)
  BY DEF Acquire
<1>3. NewWindow(s) \in RingOf(s) /\ NewWindow(s).count = 0
  BY <1>1, NewWindowRing
<1>4. \A d \in Clients : pc[d] \notin {"locked", "evicting", "pushing"}
  BY <1>1, NoClientAssumption DEF Owner
<1>5. \A r \in DOMAIN windows' :
        \/ r \in DOMAIN windows /\ windows'[r] = windows[r]
        \/ r = s /\ windows'[r] = NewWindow(s) /\ log[r] = << >>
  BY <1>1, <1>2 DEF StampsInOrder
<1>6. TypeOK'
  <2>1. /\ DOMAIN windows' \subseteq {r \in Services : Limited(r)}
        /\ \A r \in DOMAIN windows' : windows'[r] \in RingOf(r)
    BY <1>1, <1>2, <1>3, <1>5 DEF TypeOK
  <2>2. now' \in 0..MaxTime /\ lock' \in Clients \cup {NoClient}
        /\ pc' \in [Clients -> States] /\ req' \in [Clients -> Services]
        /\ cutoff' \in [Clients -> Int] /\ log' \in [Services -> Seq(Nat)]
    BY <1>1 DEF TypeOK, States
  <2> QED  BY <2>1, <2>2 DEF TypeOK, RingOf, Limited
<1>7. Owner'
  BY <1>1, <1>2, <1>4, NoClientAssumption DEF Owner, TypeOK
<1>8. RingIsLogSuffix' /\ EvictedAreOld'
  <2> SUFFICES ASSUME NEW r \in DOMAIN windows'
               PROVE  /\ windows'[r].count <= Len(log'[r])
                      /\ \A i \in 0..(windows'[r].count - 1) :
                           windows'[r].buf[Slot(windows'[r], r, i)] =
                             log'[r][Len(log'[r]) - windows'[r].count + 1 + i]
                      /\ \A j \in 1..(Len(log'[r]) - windows'[r].count) :
                           log'[r][j] < now' - Window
    BY DEF RingIsLogSuffix, EvictedAreOld, Slot
  <2>1. CASE r \in DOMAIN windows /\ windows'[r] = windows[r]
    BY <1>1, <2>1 DEF RingIsLogSuffix, EvictedAreOld
  <2>2. CASE r = s /\ windows'[r] = NewWindow(s) /\ log[r] = << >>
    BY <1>1, <1>3, <2>2
  <2> QED  BY <1>5, <2>1, <2>2
<1>9. PushHasRoom' /\ CutoffIsCurrent'
  BY <1>1, <1>4 DEF PushHasRoom, CutoffIsCurrent, TypeOK
<1>10. StampsInOrder' /\ WindowBound'
  BY <1>1, <1>2 DEF StampsInOrder, WindowBound, Limited
<1> QED  BY <1>6, <1>7, <1>8, <1>9, <1>10

LEMMA StartEvictStep ==
  ASSUME IInv, NEW c \in Clients, StartEvict(c)
  PROVE  IInv'
<1> USE DEF IInv
<1>1. /\ UNCHANGED <<now, lock, windows, req, log>>
      /\ pc[c] = "locked" /\ pc' = [pc EXCEPT ![c] = "evicting"]
      /\ cutoff' = [cutoff EXCEPT ![c] = now - Window]
  BY DEF StartEvict
<1>2. TypeOK'
  BY <1>1, WindowAssumption, MaxTimeAssumption DEF TypeOK, States, RingOf, Limited
<1>3. Owner' /\ PushHasRoom'
  BY <1>1 DEF Owner, PushHasRoom, TypeOK
<1>4. req[c] \in DOMAIN windows
  BY <1>1 DEF Owner
<1>5. now - Window \in Int
  BY WindowAssumption DEF TypeOK
<1>6. CutoffIsCurrent'
  <2> SUFFICES ASSUME NEW d \in Clients, pc'[d] = "evicting"
               PROVE  /\ cutoff'[d] <= now - Window
                      /\ \A j \in 1..(Len(log[req[d]]) - windows[req[d]].count) :
                           log[req[d]][j] < cutoff'[d]
    BY <1>1 DEF CutoffIsCurrent
  <2>1. CASE d = c
    <3>1. cutoff'[d] = now - Window
      BY <1>1, <2>1 DEF TypeOK
    <3> QED  BY <1>4, <1>5, <2>1, <3>1 DEF EvictedAreOld
  <2>2. CASE d # c
    BY <1>1, <2>2 DEF CutoffIsCurrent, TypeOK
  <2> QED  BY <2>1, <2>2
<1> QED  BY <1>1, <1>2, <1>3, <1>6, QuietStep

\* Deny and Room leave evict with the windows as they are.
LEMMA DecideStep ==
  ASSUME IInv, NEW c \in Clients, Deny(c) \/ Room(c)
  PROVE  IInv'
<1> USE DEF IInv
<1>1. /\ UNCHANGED <<now, windows, req, log>>
      /\ pc[c] = "evicting"
      /\ cutoff' = [cutoff EXCEPT ![c] = 0]
      /\ \/ pc' = [pc EXCEPT ![c] = "denied"] /\ lock' = NoClient
         \/ pc' = [pc EXCEPT ![c] = "pushing"] /\ lock' = lock
            /\ windows[req[c]].count < Limit[req[c]]
  BY DEF Deny, Room, HasRoom, Unlock
<1>2. lock = c /\ \A d \in Clients : d # c => pc[d] \notin {"locked", "evicting", "pushing"}
  BY <1>1 DEF Owner
<1>3. TypeOK'
  <2>1. pc' \in [Clients -> States]
    BY <1>1 DEF TypeOK, States
  <2>2. cutoff' \in [Clients -> Int] /\ lock' \in Clients \cup {NoClient}
    BY <1>1 DEF TypeOK
  <2> QED  BY <1>1, <2>1, <2>2 DEF TypeOK, RingOf, Limited
<1>4. Owner'
  BY <1>1, <1>2, NoClientAssumption DEF Owner, TypeOK
<1>5. PushHasRoom' /\ CutoffIsCurrent'
  BY <1>1, <1>2 DEF PushHasRoom, CutoffIsCurrent, TypeOK
<1> QED  BY <1>1, <1>3, <1>4, <1>5, QuietStep

LEMMA EvictOneStep ==
  ASSUME IInv, NEW c \in Clients, EvictOne(c)
  PROVE  IInv'
<1> USE DEF IInv
<1> DEFINE s == req[c]
           w == windows[s]
           v == EvictOldest(w, s)
           n == Len(log[s])
<1>1. /\ UNCHANGED <<now, lock, pc, req, cutoff, log>>
      /\ pc[c] = "evicting"
      /\ w.count > 0 /\ w.buf[w.head] < cutoff[c]
      /\ windows' = [windows EXCEPT ![s] = v]
  BY DEF EvictOne, Evictable
<1>2. /\ s \in DOMAIN windows /\ s \in Services /\ Limited(s)
      /\ w \in RingOf(s)
      /\ Limit[s] \in Nat
      /\ n \in Nat
      /\ log[s] \in Seq(Nat)
  BY <1>1, LimitAssumption DEF Owner, TypeOK, Limited
<1>3. w.count \in Nat /\ w.count <= n /\ w.head \in 0..(Limit[s] - 1)
  BY <1>2 DEF RingIsLogSuffix, RingOf
<1>4. /\ v \in RingOf(s)
      /\ v.count = w.count - 1
      /\ v.buf = w.buf
      /\ \A i \in 0..(v.count - 1) : Slot(v, s, i) = Slot(w, s, i + 1)
  BY <1>1, <1>2, EvictRing
<1> HIDE DEF v
<1>5. /\ DOMAIN windows' = DOMAIN windows /\ windows'[s] = v
      /\ \A r \in DOMAIN windows : r # s => windows'[r] = windows[r]
  BY <1>1, <1>2
<1>6. TypeOK'
  <2>1. \A r \in DOMAIN windows' : windows'[r] \in RingOf(r)
    BY <1>4, <1>5 DEF TypeOK
  <2> QED  BY <1>1, <1>5, <2>1 DEF TypeOK, RingOf, Limited
<1>7. Owner'
  BY <1>1, <1>5 DEF Owner
<1>8. PushHasRoom'
  BY <1>1, <1>2, <1>3, <1>4, <1>5 DEF PushHasRoom, Owner
<1>9. StampsInOrder' /\ WindowBound'
  BY <1>1, <1>5 DEF StampsInOrder, WindowBound, Limited
\* The entry that goes is log[s][n - w.count + 1].
<1>10. log[s][n - w.count + 1] < cutoff[c]
  <2>1. Slot(w, s, 0) = w.head
    BY <1>2, <1>3, SlotValue
  <2>2. 0 \in 0..(w.count - 1)
    BY <1>1, <1>3
  <2>3. w.buf[Slot(w, s, 0)] = log[s][n - w.count + 1 + 0]
    BY <1>2, <2>2 DEF RingIsLogSuffix
  <2>4. n - w.count + 1 + 0 = n - w.count + 1
    BY <1>2, <1>3
  <2> QED  BY <1>1, <2>1, <2>3, <2>4
<1>11. RingIsLogSuffix'
  <2> SUFFICES ASSUME NEW r \in DOMAIN windows
               PROVE  /\ windows'[r].count <= Len(log[r])
                      /\ \A i \in 0..(windows'[r].count - 1) :
                           windows'[r].buf[Slot(windows'[r], r, i)] =
                             log[r][Len(log[r]) - windows'[r].count + 1 + i]
    BY <1>1, <1>5 DEF RingIsLogSuffix, Slot
  <2>1. CASE r # s
    BY <1>5, <2>1 DEF RingIsLogSuffix
  <2>2. CASE r = s
    <3>1. ASSUME NEW i \in 0..(v.count - 1)
          PROVE  v.buf[Slot(v, s, i)] = log[s][n - v.count + 1 + i]
      <4>1. i + 1 \in 0..(w.count - 1)
        BY <1>3, <1>4
      <4>2. w.buf[Slot(w, s, i + 1)] = log[s][n - w.count + 1 + (i + 1)]
        BY <1>2, <4>1 DEF RingIsLogSuffix
      <4>3. n - v.count + 1 + i = n - w.count + 1 + (i + 1)
        <5>1. i \in Int /\ v.count = w.count - 1
          BY <1>3, <1>4
        <5>2. n - (w.count - 1) + 1 + i = n - w.count + 1 + (i + 1)
          BY <1>2, <1>3, <5>1, SuffixIndex
        <5> QED  BY <5>1, <5>2
      <4>4. v.buf[Slot(v, s, i)] = w.buf[Slot(w, s, i + 1)]
        BY <1>4
      <4> QED  BY <4>2, <4>3, <4>4
    <3>2. v.count <= n
      BY <1>2, <1>3, <1>4
    <3> QED  BY <1>5, <2>2, <3>1, <3>2
  <2> QED  BY <2>1, <2>2
<1>12. \A j \in 1..(n - v.count) : j \in 1..(n - w.count) \/ j = n - w.count + 1
  BY <1>2, <1>3, <1>4
<1>13. EvictedAreOld'
  <2> SUFFICES ASSUME NEW r \in DOMAIN windows,
                      NEW j \in 1..(Len(log[r]) - windows'[r].count)
               PROVE  log[r][j] < now - Window
    BY <1>1, <1>5 DEF EvictedAreOld
  <2>1. CASE r # s
    BY <1>5, <2>1 DEF EvictedAreOld
  <2>2. CASE r = s
    <3>1. CASE j \in 1..(n - w.count)
      BY <1>2, <2>2, <3>1 DEF EvictedAreOld
    <3>2. CASE j = n - w.count + 1
      <4>1. cutoff[c] <= now - Window /\ cutoff[c] \in Int /\ now - Window \in Int
        BY <1>1, WindowAssumption DEF CutoffIsCurrent, TypeOK
      <4>2. log[s][j] \in Int
        BY <1>1, <1>2, <1>3, <3>2
      <4> QED  BY <1>10, <2>2, <3>2, <4>1, <4>2
    <3> QED  BY <1>5, <1>12, <2>2, <3>1, <3>2
  <2> QED  BY <2>1, <2>2
<1>14. CutoffIsCurrent'
  <2> SUFFICES ASSUME NEW d \in Clients, pc[d] = "evicting"
               PROVE  /\ cutoff[d] <= now - Window
                      /\ \A j \in 1..(Len(log[req[d]]) - windows'[req[d]].count) :
                           log[req[d]][j] < cutoff[d]
    BY <1>1 DEF CutoffIsCurrent
  <2>1. d = c
    BY <1>1 DEF Owner
  <2> QED  BY <1>1, <1>2, <1>5, <1>10, <1>12, <2>1 DEF CutoffIsCurrent
<1> QED  BY <1>6, <1>7, <1>8, <1>9, <1>11, <1>13, <1>14

LEMMA PushStep ==
  ASSUME IInv, NEW c \in Clients, Push(c)
  PROVE  IInv'
<1> USE DEF IInv
<1> DEFINE s == req[c]
           w == windows[s]
           v == PushStamp(w, s, now)
           n == Len(log[s])
           L == Limit[s]
<1>1. /\ UNCHANGED <<now, req, cutoff>>
      /\ pc[c] = "pushing" /\ pc' = [pc EXCEPT ![c] = "allowed"]
      /\ lock' = NoClient
      /\ windows' = [windows EXCEPT ![s] = v]
      /\ log' = [log EXCEPT ![s] = Append(@, now)]
  BY DEF Push, Unlock
<1>2. /\ s \in DOMAIN windows /\ s \in Services /\ Limited(s)
      /\ w \in RingOf(s)
      /\ L \in Nat /\ L > 0
      /\ n \in Nat
      /\ log[s] \in Seq(Nat)
      /\ DOMAIN log[s] = 1..n
      /\ now \in Nat
  <2>1. s \in DOMAIN windows /\ s \in Services /\ now \in Nat
    BY <1>1, MaxTimeAssumption DEF Owner, TypeOK
  <2>2. Limited(s) /\ w \in RingOf(s) /\ log[s] \in Seq(Nat)
    BY <2>1 DEF TypeOK
  <2>3. L \in Nat /\ L > 0
    BY <2>1, <2>2, LimitAssumption DEF Limited
  <2> QED  BY <2>1, <2>2, <2>3
<1>3. w.count \in Nat /\ w.count <= n /\ w.count < L
  BY <1>1, <1>2 DEF RingIsLogSuffix, RingOf, PushHasRoom
<1>4. /\ v \in RingOf(s)
      /\ v.count = w.count + 1
      /\ \A i \in 0..(w.count - 1) : v.buf[Slot(v, s, i)] = w.buf[Slot(w, s, i)]
      /\ v.buf[Slot(v, s, w.count)] = now
  BY <1>2, <1>3, PushRing
<1> HIDE DEF v
<1>5. /\ DOMAIN windows' = DOMAIN windows /\ windows'[s] = v
      /\ \A r \in DOMAIN windows : r # s => windows'[r] = windows[r]
  BY <1>1, <1>2
<1>6. /\ log'[s] = Append(log[s], now)
      /\ log'[s] \in Seq(Nat)
      /\ Len(log'[s]) = n + 1
      /\ DOMAIN log'[s] = 1..(n + 1)
      /\ log'[s][n + 1] = now
      /\ \A i \in 1..n : log'[s][i] = log[s][i]
      /\ \A r \in Services : r # s => log'[r] = log[r]
  BY <1>1, <1>2 DEF TypeOK
<1>7. \A i \in 1..n : log[s][i] \in Nat /\ log[s][i] <= now
  BY <1>2 DEF StampsInOrder
<1>8. \A d \in Clients : d # c => pc[d] \notin {"locked", "evicting", "pushing"}
  BY <1>1 DEF Owner
<1>9. TypeOK'
  <2>1. \A r \in DOMAIN windows' : windows'[r] \in RingOf(r)
    BY <1>4, <1>5 DEF TypeOK
  <2>2. pc' \in [Clients -> States] /\ lock' \in Clients \cup {NoClient}
    BY <1>1 DEF TypeOK, States
  <2>3. log' \in [Services -> Seq(Nat)]
    BY <1>1, <1>6 DEF TypeOK
  <2> QED  BY <1>1, <1>5, <2>1, <2>2, <2>3 DEF TypeOK, RingOf, Limited
<1>10. Owner'
  BY <1>1, <1>8, NoClientAssumption DEF Owner, TypeOK
<1>11. PushHasRoom' /\ CutoffIsCurrent'
  BY <1>1, <1>8 DEF PushHasRoom, CutoffIsCurrent, TypeOK
<1>12. RingIsLogSuffix'
  <2> SUFFICES ASSUME NEW r \in DOMAIN windows
               PROVE  /\ windows'[r].count <= Len(log'[r])
                      /\ \A i \in 0..(windows'[r].count - 1) :
                           windows'[r].buf[Slot(windows'[r], r, i)] =
                             log'[r][Len(log'[r]) - windows'[r].count + 1 + i]
    BY <1>1, <1>5 DEF RingIsLogSuffix, Slot
  <2>1. CASE r # s
    <3>1. windows'[r] = windows[r] /\ log'[r] = log[r]
      BY <1>5, <1>6, <2>1 DEF TypeOK
    <3> QED  BY <3>1 DEF RingIsLogSuffix
  <2>2. CASE r = s
    <3>1. v.count <= n + 1
      BY <1>2, <1>3, <1>4
    <3>2. ASSUME NEW i \in 0..(v.count - 1)
          PROVE  v.buf[Slot(v, s, i)] = log'[s][(n + 1) - v.count + 1 + i]
      <4>1. CASE i = w.count
        <5>1. (n + 1) - v.count + 1 + i = n + 1
          BY <1>2, <1>3, <1>4, <4>1
        <5> QED  BY <1>4, <1>6, <4>1, <5>1
      <4>2. CASE i # w.count
        <5>1. i \in 0..(w.count - 1)
          BY <1>3, <1>4, <4>2
        <5>2. /\ (n + 1) - v.count + 1 + i = n - w.count + 1 + i
              /\ n - w.count + 1 + i \in 1..n
          <6>1. i \in Int /\ v.count = w.count + 1
            BY <1>3, <1>4, <5>1
          <6>2. /\ (n + 1) - (w.count + 1) + 1 + i = n - w.count + 1 + i
                /\ n - w.count + 1 + i \in 1..n
            BY <1>2, <1>3, <5>1, <6>1, SuffixIndex
          <6> QED  BY <6>1, <6>2
        <5>3. w.buf[Slot(w, s, i)] = log[s][n - w.count + 1 + i]
          BY <1>2, <5>1 DEF RingIsLogSuffix
        <5> QED  BY <1>4, <1>6, <5>1, <5>2, <5>3
      <4> QED  BY <4>1, <4>2
    <3> QED  BY <1>5, <1>6, <2>2, <3>1, <3>2
  <2> QED  BY <2>1, <2>2
<1>13. EvictedAreOld'
  <2> SUFFICES ASSUME NEW r \in DOMAIN windows,
                      NEW j \in 1..(Len(log'[r]) - windows'[r].count)
               PROVE  log'[r][j] < now - Window
    BY <1>1, <1>5 DEF EvictedAreOld
  <2>1. CASE r # s
    BY <1>5, <1>6, <2>1 DEF EvictedAreOld, TypeOK
  <2>2. CASE r = s
    <3>1. j \in 1..((n + 1) - (w.count + 1))
      BY <1>4, <1>5, <1>6, <2>2
    <3>2. j \in 1..(n - w.count) /\ j \in 1..n
      BY <1>2, <1>3, <3>1
    <3> QED  BY <1>2, <1>6, <2>2, <3>2 DEF EvictedAreOld
  <2> QED  BY <2>1, <2>2
<1>14. StampsInOrder'
  <2> SUFFICES ASSUME NEW r \in Services
               PROVE  /\ \A i \in DOMAIN log'[r] : log'[r][i] <= now
                      /\ \A i, j \in DOMAIN log'[r] :
                           i <= j => log'[r][i] <= log'[r][j]
                      /\ r \notin DOMAIN windows => log'[r] = << >>
    BY <1>1, <1>5 DEF StampsInOrder
  <2>1. CASE r # s
    BY <1>6, <2>1 DEF StampsInOrder
  <2>2. CASE r = s
    <3>1. \A i \in 1..(n + 1) : i \in 1..n \/ i = n + 1
      BY <1>2
    <3>2. \A i, j \in 1..n : i <= j => log[s][i] <= log[s][j]
      BY <1>2 DEF StampsInOrder
    <3>3. \A i \in 1..(n + 1) : log'[s][i] <= now
      BY <1>2, <1>6, <1>7, <3>1
    <3>4. \A i, j \in 1..(n + 1) : i <= j => log'[s][i] <= log'[s][j]
      BY <1>2, <1>6, <1>7, <3>1, <3>2
    <3> QED  BY <1>2, <1>6, <2>2, <3>3, <3>4
  <2> QED  BY <2>1, <2>2
\* The admission L places back is out of the ring, so out of the window.
<1>15. WindowBound'
  <2> SUFFICES ASSUME NEW r \in Services, Limited(r),
                      NEW i \in DOMAIN log'[r], i + Limit[r] \in DOMAIN log'[r]
               PROVE  log'[r][i + Limit[r]] > log'[r][i] + Window
    BY DEF WindowBound, Limited
  <2>1. CASE r # s
    BY <1>6, <2>1 DEF WindowBound
  <2>2. CASE r = s
    <3>0. i \in 1..(n + 1) /\ i + L \in 1..(n + 1)
      BY <1>6, <2>2
    <3>1. CASE i + L = n + 1
      <4>1. i \in 1..(n - w.count) /\ i \in 1..n
        BY <1>2, <1>3, <3>0, <3>1
      <4>2. log[s][i] < now - Window /\ log[s][i] \in Nat
        BY <1>2, <1>7, <4>1 DEF EvictedAreOld
      <4>3. log'[s][i] = log[s][i] /\ log'[s][i + L] = now
        BY <1>6, <3>1, <4>1
      <4> QED  BY <1>2, <2>2, <4>2, <4>3, WindowAssumption
    <3>2. CASE i + L # n + 1
      <4>1. i \in 1..n /\ i + L \in 1..n
        BY <1>2, <3>0, <3>2
      <4>2. log[s][i + L] > log[s][i] + Window
        BY <1>2, <4>1 DEF WindowBound
      <4> QED  BY <1>6, <2>2, <4>1, <4>2
    <3> QED  BY <3>1, <3>2
  <2> QED  BY <2>1, <2>2
<1> QED  BY <1>9, <1>10, <1>11, <1>12, <1>13, <1>14, <1>15

LEMMA NextInvariant == IInv /\ [Next]_vars => IInv'
<1> SUFFICES ASSUME IInv, [Next]_vars PROVE IInv'
  OBVIOUS
<1>1. CASE Tick
  BY <1>1, TickStep
<1>2. ASSUME NEW c \in Clients,
             \/ \E s \in Services : Call(c, s)
             \/ FastAllow(c)
             \/ Return(c)
      PROVE  IInv'
  BY <1>2, OutsideStep
<1>3. ASSUME NEW c \in Clients, Acquire(c) PROVE IInv'
  BY <1>3, AcquireStep
<1>4. ASSUME NEW c \in Clients, Inside(c) PROVE IInv'
  BY <1>4, StartEvictStep, EvictOneStep, DecideStep, PushStep DEF Inside
<1>5. CASE UNCHANGED vars
  <2>1. UNCHANGED <<now, lock, windows, pc, req, cutoff, log>>
    BY <1>5 DEF vars
  <2>2. TypeOK' /\ Owner' /\ PushHasRoom' /\ CutoffIsCurrent'
    BY <2>1 DEF IInv, TypeOK, RingOf, Limited, Owner, PushHasRoom, CutoffIsCurrent
  <2> QED  BY <2>1, <2>2, QuietStep DEF IInv
<1> QED  BY <1>1, <1>2, <1>3, <1>4, <1>5 DEF Next

LEMMA Invariance == Spec => []IInv
<1>1. Init => IInv
  BY InitInvariant
<1>2. IInv /\ [Next]_vars => IInv'
  BY NextInvariant
<1> QED  BY <1>1, <1>2, PTL DEF Spec

\* Every variable keeps its type; head and count stay inside the ring, so that
\* neither evict nor push can index out of range.
THEOREM TypeCorrect == Spec => []TypeOK
<1>1. IInv => TypeOK
  BY DEF IInv
<1> QED  BY <1>1, Invariance, PTL

\* The rate limit holds for every limit, window, and number of clients: of any
\* Limit[s] + 1 successive admissions the last is more than a window after the
\* first.
THEOREM RateLimitHolds == Spec => []WindowBound
<1>1. IInv => WindowBound
  BY DEF IInv
<1> QED  BY <1>1, Invariance, PTL

\* The ring is the end of the history of admissions, whatever was evicted.
THEOREM RingIsFaithful == Spec => []RingIsLogSuffix
<1>1. IInv => RingIsLogSuffix
  BY DEF IInv
<1> QED  BY <1>1, Invariance, PTL

\* What has left a ring is out of the window for good.
THEOREM EvictionIsSafe == Spec => []EvictedAreOld
<1>1. IInv => EvictedAreOld
  BY DEF IInv
<1> QED  BY <1>1, Invariance, PTL

\* Whoever touches a window holds the mutex, alone.
THEOREM MutexProtects == Spec => []Owner
<1>1. IInv => Owner
  BY DEF IInv
<1> QED  BY <1>1, Invariance, PTL

\* push finds the room that its comment demands.
THEOREM PushIsSafe == Spec => []PushHasRoom
<1>1. IInv => PushHasRoom
  BY DEF IInv
<1> QED  BY <1>1, Invariance, PTL

(******************************* refinement *********************************)
\* A client that takes no part in a step keeps its verdict.
LEMMA VerdictOfOthers ==
  ASSUME NEW d, pc'[d] = pc[d], req'[d] = req[d], cutoff'[d] = cutoff[d],
         log' = log \/ pc[d] # "evicting"
  PROVE  Verdict(d)' = Verdict(d)
BY DEF Verdict, Doomed

LEMMA VerdictChange ==
  ASSUME TypeOK, NEW c \in Clients, NEW v, Verdict(c)' = v,
         \A d \in Clients \ {c} : Verdict(d)' = Verdict(d)
  PROVE  verdictBar' = [verdictBar EXCEPT ![c] = v]
BY DEF verdictBar

LEMMA RefinementStep == IInv /\ [Next]_vars => [SW!Next]_(SW!swVars)
<1> SUFFICES ASSUME IInv, [Next]_vars PROVE [SW!Next]_(SW!swVars)
  OBVIOUS
<1> USE DEF IInv
<1>1. CASE Tick
  <2>1. verdictBar' = verdictBar
    BY <1>1, VerdictOfOthers DEF Tick, verdictBar
  <2> QED  BY <1>1, <2>1 DEF Tick, SW!Next, SW!Tick
<1>2. ASSUME NEW c \in Clients, NEW s \in Services, Call(c, s)
      PROVE  [SW!Next]_(SW!swVars)
  <2>1. \A d \in Clients \ {c} : Verdict(d)' = Verdict(d)
    BY <1>2, VerdictOfOthers DEF Call, TypeOK
  <2>2. Verdict(c) = "none" /\ Verdict(c)' = "pending"
    BY <1>2 DEF Call, Verdict, TypeOK
  <2>3. verdictBar[c] = "none" /\ verdictBar' = [verdictBar EXCEPT ![c] = "pending"]
    BY <2>1, <2>2, VerdictChange DEF verdictBar
  <2> QED  BY <1>2, <2>3 DEF Call, SW!Next, SW!Ask
<1>3. ASSUME NEW c \in Clients, FastAllow(c)
      PROVE  [SW!Next]_(SW!swVars)
  <2>1. \A d \in Clients \ {c} : Verdict(d)' = Verdict(d)
    BY <1>3, VerdictOfOthers DEF FastAllow, TypeOK
  <2>2. Verdict(c) = "pending" /\ Verdict(c)' = "allowed"
    BY <1>3 DEF FastAllow, Verdict, TypeOK
  <2>3. verdictBar[c] = "pending" /\ verdictBar' = [verdictBar EXCEPT ![c] = "allowed"]
    BY <2>1, <2>2, VerdictChange DEF verdictBar
  <2>4. ~SW!Full(req[c], now) /\ ~SW!Limited(req[c])
    BY <1>3 DEF FastAllow, SW!Full, SW!Limited, Limited
  <2> QED  BY <1>3, <2>3, <2>4 DEF FastAllow, SW!Next, SW!Admit
<1>4. ASSUME NEW c \in Clients, Acquire(c)
      PROVE  [SW!Next]_(SW!swVars)
  <2>1. \A d \in Clients \ {c} : Verdict(d)' = Verdict(d)
    BY <1>4, VerdictOfOthers DEF Acquire, TypeOK
  <2>2. Verdict(c)' = Verdict(c)
    BY <1>4 DEF Acquire, Verdict, TypeOK
  <2>3. verdictBar' = verdictBar
    BY <2>1, <2>2 DEF verdictBar
  <2> QED  BY <1>4, <2>3 DEF Acquire, SW!swVars
\* The cutoff is read: from here on the answer is settled.
<1>5. ASSUME NEW c \in Clients, StartEvict(c)
      PROVE  [SW!Next]_(SW!swVars)
  <2>1. \A d \in Clients \ {c} : Verdict(d)' = Verdict(d)
    BY <1>5, VerdictOfOthers DEF StartEvict, TypeOK
  <2>2. /\ Verdict(c) = "pending"
        /\ pc'[c] = "evicting" /\ req' = req /\ log' = log
        /\ cutoff'[c] = now - Window
    BY <1>5 DEF StartEvict, Verdict, TypeOK
  <2>3. Limited(req[c])
    BY <1>5 DEF StartEvict, Owner, TypeOK
  <2>4. Doomed(c)' = SW!Full(req[c], now)
    BY <2>2, <2>3 DEF Doomed, SW!Full, SW!Limited, Limited
  <2>5. CASE Doomed(c)'
    <3>1. Verdict(c)' = "denied"
      BY <2>2, <2>5 DEF Verdict
    <3>2. verdictBar[c] = "pending" /\ verdictBar' = [verdictBar EXCEPT ![c] = "denied"]
      BY <2>1, <2>2, <3>1, VerdictChange DEF verdictBar
    <3> QED  BY <1>5, <2>4, <2>5, <3>2 DEF StartEvict, SW!Next, SW!Deny
  <2>6. CASE ~Doomed(c)'
    <3>1. Verdict(c)' = "pending"
      BY <2>2, <2>6 DEF Verdict
    <3>2. verdictBar' = verdictBar
      BY <2>1, <2>2, <3>1 DEF verdictBar
    <3> QED  BY <1>5, <3>2 DEF StartEvict, SW!swVars
  <2> QED  BY <2>5, <2>6
<1>6. ASSUME NEW c \in Clients, EvictOne(c)
      PROVE  [SW!Next]_(SW!swVars)
  <2>1. verdictBar' = verdictBar
    BY <1>6, VerdictOfOthers DEF EvictOne, verdictBar
  <2> QED  BY <1>6, <2>1 DEF EvictOne, SW!swVars
\* Inside evict, when nothing more can be evicted: what the ring says of a full
\* window is what the history says.
<1>7. ASSUME NEW c \in Clients, pc[c] = "evicting",
             ~Evictable(windows[req[c]], cutoff[c])
      PROVE  Doomed(c) <=> windows[req[c]].count >= Limit[req[c]]
  <2> DEFINE s == req[c]
             w == windows[s]
             n == Len(log[s])
             L == Limit[s]
  <2>1. s \in DOMAIN windows /\ s \in Services
    BY <1>7 DEF Owner, TypeOK
  <2>2. Limited(s) /\ w \in RingOf(s) /\ log[s] \in Seq(Nat)
    BY <2>1 DEF TypeOK
  <2>3. L \in Nat /\ L > 0 /\ n \in Nat
    BY <2>1, <2>2, LimitAssumption DEF Limited
  <2>4. w.count \in 0..L /\ w.count <= n /\ w.head \in 0..(L - 1)
    BY <2>1, <2>2 DEF RingOf, RingIsLogSuffix
  <2>5. CASE w.count >= L
    <3>1. w.count = L /\ 0 \in 0..(w.count - 1)
      BY <2>3, <2>4, <2>5
    <3>2. w.buf[Slot(w, s, 0)] = log[s][n - w.count + 1 + 0]
      BY <2>1, <3>1 DEF RingIsLogSuffix
    <3>3. Slot(w, s, 0) = w.head
      BY <2>1, <2>2, <2>3, <2>4, SlotValue
    <3>4. n - w.count + 1 + 0 = n - L + 1
      BY <2>3, <3>1
    <3>5. ~(w.buf[w.head] < cutoff[c]) /\ w.buf[w.head] \in Nat /\ cutoff[c] \in Int
      BY <1>7, <2>2, <2>3, <2>4, <3>1 DEF Evictable, RingOf, TypeOK
    <3>6. log[s][n - L + 1] >= cutoff[c]
      BY <3>2, <3>3, <3>4, <3>5
    <3> QED  BY <2>3, <2>4, <2>5, <3>1, <3>6 DEF Doomed
  <2>6. CASE ~(w.count >= L)
    <3> SUFFICES ASSUME n >= L PROVE log[s][n - L + 1] < cutoff[c]
      <4>1. ASSUME n >= L PROVE log[s][n - L + 1] \in Nat /\ cutoff[c] \in Int
        <5>1. n - L + 1 \in 1..n
          BY <2>3, <4>1
        <5> QED  BY <2>2, <5>1 DEF TypeOK
      <4> QED  BY <2>6, <4>1 DEF Doomed
    <3>1. n - L + 1 \in 1..(n - w.count)
      BY <2>3, <2>4, <2>6
    <3> QED  BY <1>7, <3>1 DEF CutoffIsCurrent
  <2> QED  BY <2>5, <2>6
<1>8. ASSUME NEW c \in Clients, Deny(c)
      PROVE  [SW!Next]_(SW!swVars)
  <2>1. \A d \in Clients \ {c} : Verdict(d)' = Verdict(d)
    BY <1>8, VerdictOfOthers DEF Deny, TypeOK
  <2>2. Doomed(c)
    <3>1. req[c] \in Services /\ req[c] \in DOMAIN windows /\ windows[req[c]] \in RingOf(req[c])
      BY <1>8 DEF Deny, Owner, TypeOK
    <3>2. windows[req[c]].count \in Int /\ Limit[req[c]] \in Int
      BY <3>1, LimitAssumption DEF RingOf
    <3>3. windows[req[c]].count >= Limit[req[c]]
      BY <1>8, <3>2 DEF Deny, HasRoom
    <3> QED  BY <1>7, <1>8, <3>3 DEF Deny, Evicted
  <2>3. Verdict(c) = "denied" /\ Verdict(c)' = "denied"
    BY <1>8, <2>2 DEF Deny, Verdict, TypeOK
  <2>4. verdictBar' = verdictBar
    BY <2>1, <2>3 DEF verdictBar
  <2> QED  BY <1>8, <2>4 DEF Deny, SW!swVars
<1>9. ASSUME NEW c \in Clients, Room(c)
      PROVE  [SW!Next]_(SW!swVars)
  <2>1. \A d \in Clients \ {c} : Verdict(d)' = Verdict(d)
    BY <1>9, VerdictOfOthers DEF Room, TypeOK
  <2>2. ~Doomed(c)
    <3>1. req[c] \in Services /\ req[c] \in DOMAIN windows /\ windows[req[c]] \in RingOf(req[c])
      BY <1>9 DEF Room, Owner, TypeOK
    <3>2. windows[req[c]].count \in Int /\ Limit[req[c]] \in Int
      BY <3>1, LimitAssumption DEF RingOf
    <3>3. ~(windows[req[c]].count >= Limit[req[c]])
      BY <1>9, <3>2 DEF Room, HasRoom
    <3> QED  BY <1>7, <1>9, <3>3 DEF Room, Evicted
  <2>3. Verdict(c) = "pending" /\ Verdict(c)' = "pending"
    BY <1>9, <2>2 DEF Room, Verdict, TypeOK
  <2>4. verdictBar' = verdictBar
    BY <2>1, <2>3 DEF verdictBar
  <2> QED  BY <1>9, <2>4 DEF Room, SW!swVars
\* The push is the admission: whatever is out of the ring is out of the window.
<1>10. ASSUME NEW c \in Clients, Push(c)
       PROVE  [SW!Next]_(SW!swVars)
  <2> DEFINE s == req[c]
             n == Len(log[s])
             L == Limit[s]
             k == windows[s].count
  <2>1. \A d \in Clients \ {c} : pc[d] # "evicting"
    BY <1>10 DEF Push, Owner
  <2>2. \A d \in Clients \ {c} : Verdict(d)' = Verdict(d)
    BY <1>10, <2>1, VerdictOfOthers DEF Push, TypeOK
  <2>3. Verdict(c) = "pending" /\ Verdict(c)' = "allowed"
    BY <1>10 DEF Push, Verdict, TypeOK
  <2>4. verdictBar[c] = "pending" /\ verdictBar' = [verdictBar EXCEPT ![c] = "allowed"]
    BY <2>2, <2>3, VerdictChange DEF verdictBar
  <2>5. s \in DOMAIN windows /\ s \in Services /\ now \in Nat
    BY <1>10, MaxTimeAssumption DEF Push, Owner, TypeOK
  <2>6. Limited(s) /\ windows[s] \in RingOf(s) /\ log[s] \in Seq(Nat)
    BY <2>5 DEF TypeOK
  <2>7. L \in Nat /\ L > 0 /\ n \in Nat
    BY <2>5, <2>6, LimitAssumption DEF Limited
  <2>8. k \in Nat /\ k <= n /\ k < L
    BY <1>10, <2>5, <2>6, <2>7 DEF RingIsLogSuffix, RingOf, PushHasRoom, Push
  <2>9. ~SW!Full(s, now)
    <3> SUFFICES ASSUME n >= L PROVE ~(log[s][n - L + 1] >= now - Window)
      BY DEF SW!Full
    <3>1. n - L + 1 \in 1..(n - k) /\ n - L + 1 \in 1..n
      BY <2>7, <2>8
    <3>2. log[s][n - L + 1] \in Nat /\ log[s][n - L + 1] < now - Window
      BY <2>5, <2>6, <3>1 DEF EvictedAreOld
    <3> QED  BY <2>5, <3>2, WindowAssumption
  <2>10. SW!Limited(s)
    BY <2>6 DEF SW!Limited, Limited
  <2> QED  BY <1>10, <2>4, <2>9, <2>10 DEF Push, SW!Next, SW!Admit
<1>11. ASSUME NEW c \in Clients, Return(c)
       PROVE  [SW!Next]_(SW!swVars)
  <2>1. \A d \in Clients \ {c} : Verdict(d)' = Verdict(d)
    BY <1>11, VerdictOfOthers DEF Return, TypeOK
  <2>2. Verdict(c) \in {"allowed", "denied"} /\ Verdict(c)' = "none"
    BY <1>11 DEF Return, Verdict, TypeOK
  <2>3. /\ verdictBar[c] \in {"allowed", "denied"}
        /\ verdictBar' = [verdictBar EXCEPT ![c] = "none"]
    BY <2>1, <2>2, VerdictChange DEF verdictBar
  <2> QED  BY <1>11, <2>3 DEF Return, SW!Next, SW!Answer
<1>12. CASE UNCHANGED vars
  <2>1. verdictBar' = verdictBar
    BY <1>12, VerdictOfOthers DEF vars, verdictBar
  <2> QED  BY <1>12, <2>1 DEF vars, SW!swVars
<1> QED  BY <1>1, <1>2, <1>3, <1>4, <1>5, <1>6, <1>8, <1>9, <1>10, <1>11, <1>12
         DEF Next, Inside

\* The mutex, the ring and the clock readings together implement the one-instant
\* sliding window, whatever the numbers.
THEOREM Refinement == Spec => ImplementsSlidingWindow
<1>1. Init => SW!Init
  <2> SUFFICES ASSUME Init PROVE SW!Init
    OBVIOUS
  <2>1. req \in [Clients -> Services]
    BY InitInvariant DEF IInv, TypeOK
  <2>2. \A c \in Clients : Verdict(c) = "none"
    BY DEF Init, Verdict
  <2>3. verdictBar = [c \in Clients |-> "none"]
    BY <2>2 DEF verdictBar
  <2> QED  BY <2>1, <2>3 DEF Init, SW!Init
<1>2. IInv /\ [Next]_vars => [SW!Next]_(SW!swVars)
  BY RefinementStep
<1> QED  BY <1>1, <1>2, Invariance, PTL DEF Spec, ImplementsSlidingWindow

=============================================================================
