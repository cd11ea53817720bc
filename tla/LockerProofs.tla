---------------------------- MODULE LockerProofs ----------------------------
(***************************************************************************)
(* Proofs about Locker, for any clients, times to live and drift.  The     *)
(* argument: an "ok" that is young enough, and a time left that is not     *)
(* over, are each backed by the client's value in the key with at least as *)
(* much life; nobody else's command touches a key that is owned.           *)
(***************************************************************************)
EXTENDS Locker, TLAPS

\* The time left is never longer than the key lives.
Backed(c) ==
    left[c] > 0 =>
        owner = c /\ life >= left[c] /\ left[c] <= ttl[c] /\ pc[c] \in {"hold", "extend"}

\* An acquisition or extension Redis has confirmed still stands while it is young.
Granted(c) ==
    pc[c] \in {"ask", "extend"} /\ reply[c] = "ok" /\ age[c] < ttl[c] =>
        owner = c /\ life + age[c] >= ttl[c]

IInv == TypeOK /\ \A c \in Client : Backed(c) /\ Granted(c)

USE LockerAssumption

\* What InTime says about the time that is left.
LEMMA TimeLeft ==
    ASSUME TypeOK, NEW c \in Client
    PROVE  /\ ttl[c] \in Nat /\ age[c] \in Nat /\ left[c] \in Nat
           /\ InTime(c) => /\ age[c] < ttl[c]
                           /\ ttl[c] - Drift - age[c] \in Nat
                           /\ ttl[c] - Drift - age[c] <= ttl[c] - age[c]
                           /\ ttl[c] - Drift - age[c] <= ttl[c]
<1>1. ttl[c] \in Ttl \cup {0} /\ age[c] \in Nat /\ left[c] \in Nat
  BY DEF TypeOK
<1>2. Ttl \cup {0} \subseteq Nat
  BY LockerAssumption
<1>3. ttl[c] \in Nat
  BY <1>1, <1>2
<1> QED
  BY <1>1, <1>3 DEF InTime

\* Types: every action of Locker keeps them.
LEMMA TypeStep == TypeOK /\ [Next]_vars => TypeOK'
<1> SUFFICES ASSUME TypeOK, [Next]_vars PROVE TypeOK'
  OBVIOUS
<1> USE DEF TypeOK, Requests, Ended, Go, Leave
<1>1. CASE Tick
  BY <1>1 DEF Tick
<1>2. ASSUME NEW c \in Client, NEW t \in Ttl, NEW n \in {0, Tries}, Call(c, t, n) PROVE TypeOK'
  BY <1>2 DEF Call
<1>3. ASSUME NEW c \in Client, Execute(c) PROVE TypeOK'
  BY <1>3 DEF Execute, Fits, Deletes
<1>4. ASSUME NEW c \in Client, Lose(c) PROVE TypeOK'
  BY <1>4 DEF Lose
<1>5. ASSUME NEW c \in Client, Hold(c), InTime(c) PROVE left' \in [Client -> Nat]
  BY <1>5, TimeLeft DEF Hold
<1>6. ASSUME NEW c \in Client, Acquired(c) PROVE TypeOK'
  BY <1>5, <1>6 DEF Acquired, Hold
<1>7. ASSUME NEW c \in Client, NotAcquired(c) \/ TryAgain(c) \/ GiveUp(c) \/ WaitOver(c) \/ Cancel(c)
      PROVE  TypeOK'
  BY <1>7 DEF NotAcquired, TryAgain, GiveUp, WaitOver, Cancel
<1>8. ASSUME NEW c \in Client, Extended(c) PROVE TypeOK'
  BY <1>5, <1>8 DEF Extended, Hold
<1>9. ASSUME NEW c \in Client, Extend(c) \/ Unlock(c) \/ Unlocked(c) \/ Crash(c) PROVE TypeOK'
  BY <1>9 DEF Extend, Unlock, Unlocked, Crash
<1>10. CASE UNCHANGED vars
  BY <1>10 DEF vars
<1> QED
  BY <1>1, <1>2, <1>3, <1>4, <1>6, <1>7, <1>8, <1>9, <1>10 DEF Next, ClientStep

\* Both parts of the invariant survive every step, for the client that takes
\* it and for the others.
LEMMA BackedStep ==
    ASSUME IInv, [Next]_vars, NEW d \in Client
    PROVE  Backed(d)' /\ Granted(d)'
<1> TypeOK'
  BY TypeStep DEF IInv
<1> USE DEF IInv, TypeOK, Backed, Granted, Go, Leave, Requests, Ended
<1>1. CASE Tick
  <2>1. ttl[d] \in Nat /\ age[d] \in Nat /\ left[d] \in Nat /\ life \in Nat
    BY TimeLeft
  <2>2. /\ age'[d] = (IF age[d] < ttl[d] THEN age[d] + 1 ELSE age[d])
        /\ left'[d] = (IF left[d] > 0 THEN left[d] - 1 ELSE 0)
    BY <1>1 DEF Tick
  <2>3. Backed(d)'
    BY <1>1, <2>1, <2>2 DEF Tick
  <2>4. Granted(d)'
    BY <1>1, <2>1, <2>2 DEF Tick
  <2> QED
    BY <2>3, <2>4
<1>2. ASSUME NEW c \in Client, NEW t \in Ttl, NEW n \in {0, Tries}, Call(c, t, n)
      PROVE  Backed(d)' /\ Granted(d)'
  BY <1>2 DEF Call
<1>3. ASSUME NEW c \in Client, Execute(c) PROVE Backed(d)' /\ Granted(d)'
  <2>1. CASE c = d
    BY <1>3, <2>1 DEF Execute, Fits, Deletes
  <2>2. CASE c # d
    <3>1. owner = d => owner' = owner /\ life' = life
      BY <1>3, <2>2 DEF Execute, Fits, Deletes
    <3> QED
      BY <1>3, <2>2, <3>1 DEF Execute
  <2> QED
    BY <2>1, <2>2
<1>4. ASSUME NEW c \in Client, Lose(c) PROVE Backed(d)' /\ Granted(d)'
  BY <1>4 DEF Lose
<1>5. ASSUME NEW c \in Client, Acquired(c) PROVE Backed(d)' /\ Granted(d)'
  <2>1. ttl[c] \in Nat /\ age[c] \in Nat /\ left[c] \in Nat /\ life \in Nat /\ Drift \in Nat
    BY TimeLeft
  <2>2. owner = c /\ life + age[c] >= ttl[c]
    BY <1>5, TimeLeft DEF Acquired, InTime
  <2>3. life >= ttl[c] - Drift - age[c] /\ ttl[c] - Drift - age[c] <= ttl[c]
    BY <2>1, <2>2
  <2> QED
    BY <1>5, <2>2, <2>3 DEF Acquired, Hold
<1>6. ASSUME NEW c \in Client, NotAcquired(c) \/ TryAgain(c) \/ WaitOver(c) \/ Extend(c)
      PROVE  Backed(d)' /\ Granted(d)'
  BY <1>6 DEF NotAcquired, TryAgain, WaitOver, Extend
<1>7. ASSUME NEW c \in Client, GiveUp(c) \/ Cancel(c) \/ Unlocked(c) \/ Crash(c)
      PROVE  Backed(d)' /\ Granted(d)'
  BY <1>7 DEF GiveUp, Cancel, Unlocked, Crash
<1>8. ASSUME NEW c \in Client, Extended(c) PROVE Backed(d)' /\ Granted(d)'
  <2>1. ttl[c] \in Nat /\ age[c] \in Nat /\ left[c] \in Nat /\ life \in Nat /\ Drift \in Nat
    BY TimeLeft
  <2>2. CASE InTime(c)
    <3>1. owner = c /\ life + age[c] >= ttl[c]
      BY <1>8, <2>2, TimeLeft DEF Extended, InTime
    <3>2. life >= ttl[c] - Drift - age[c] /\ ttl[c] - Drift - age[c] <= ttl[c]
      BY <2>1, <3>1
    <3> QED
      BY <1>8, <2>2, <3>1, <3>2 DEF Extended, Hold
  <2>3. CASE ~ InTime(c)
    BY <1>8, <2>3 DEF Extended
  <2> QED
    BY <2>2, <2>3
<1>9. ASSUME NEW c \in Client, Unlock(c) PROVE Backed(d)' /\ Granted(d)'
  BY <1>9 DEF Unlock
<1>10. CASE UNCHANGED vars
  BY <1>10 DEF vars
<1> QED
  BY <1>1, <1>2, <1>3, <1>4, <1>5, <1>6, <1>7, <1>8, <1>9, <1>10 DEF Next, ClientStep

LEMMA Invariant == Spec => []IInv
<1>1. Init => IInv
  BY DEF Init, IInv, TypeOK, Backed, Granted, Requests, Ended
<1>2. IInv /\ [Next]_vars => IInv'
  BY TypeStep, BackedStep DEF IInv
<1> QED
  BY <1>1, <1>2, PTL DEF Spec

\* The type invariant of Locker.
THEOREM TypeCorrect == Spec => []TypeOK
<1>1. IInv => TypeOK
  BY DEF IInv
<1> QED
  BY <1>1, Invariant, PTL

\* Whoever holds the lock by its own Until holds it alone and in Redis
\* (TryLock, Lock, Extend and Unlock), for any number of clients, any times to
\* live and any loss of requests and answers.
THEOREM Exclusive == Spec => []HolderAlone
<1>1. IInv => HolderAlone
  BY DEF IInv, Backed, HolderAlone
<1> QED
  BY <1>1, Invariant, PTL

-----------------------------------------------------------------------------
(* A key that nobody remembers.                                            *)

\* No key lives for ever, since no lock is asked for without a time to live.
Mortal ==
    /\ owner = Nobody <=> life = 0
    /\ \A c \in Client : pc[c] \notin Ended => ttl[c] > 0

LEMMA MortalStep ==
    ASSUME TypeOK, Mortal, [Next]_vars
    PROVE  Mortal'
<1>1. ASSUME NEW c \in Client, owner' = owner \/ (owner = c /\ owner' = Stranger), life' = life
      PROVE  (owner = Nobody <=> life = 0)'
  BY <1>1 DEF Mortal
<1>2. ASSUME NEW c \in Client, NEW to, Go(c, to), ttl' = ttl, pc[c] \notin Ended
      PROVE  (\A d \in Client : pc[d] \notin Ended => ttl[d] > 0)'
  BY <1>2 DEF Go, Mortal, TypeOK
<1>3. CASE Tick
  BY <1>3 DEF Tick, Mortal, TypeOK
<1>4. ASSUME NEW c \in Client, NEW t \in Ttl, NEW n \in {0, Tries}, Call(c, t, n) PROVE Mortal'
  BY <1>4 DEF Call, Usable, Go, Mortal, TypeOK
<1>5. ASSUME NEW c \in Client, Execute(c) PROVE Mortal'
  <2>1. ttl[c] > 0 /\ pc' = pc /\ ttl' = ttl
    BY <1>5 DEF Execute, Mortal, Requests, Ended
  <2>2. (owner = Nobody <=> life = 0)'
    <3>1. ~ (ttl[c] = 0)
      BY <2>1, TimeLeft
    <3> QED
      BY <1>5, <3>1 DEF Execute, Mortal, Fits, Deletes
  <2> QED
    BY <2>1, <2>2 DEF Mortal
<1>6. ASSUME NEW c \in Client, Lose(c) PROVE Mortal'
  BY <1>6 DEF Lose, Mortal
<1>7. ASSUME NEW c \in Client, ClientStep(c) \/ Cancel(c) \/ Extend(c) \/ Unlock(c) \/ Crash(c)
      PROVE  Mortal'
  <2>1. (owner' = owner \/ (owner = c /\ owner' = Stranger)) /\ life' = life
    BY <1>7 DEF ClientStep, Acquired, NotAcquired, TryAgain, GiveUp, WaitOver, Extended, Unlocked,
                Cancel, Extend, Unlock, Crash, Leave
  <2>2. pc[c] \notin Ended /\ ttl' = ttl /\ \E to : Go(c, to)
    BY <1>7 DEF ClientStep, Acquired, NotAcquired, TryAgain, GiveUp, WaitOver, Extended, Unlocked,
                Cancel, Extend, Unlock, Crash, Hold, Ended
  <2> QED
    BY <1>1, <1>2, <2>1, <2>2 DEF Mortal
<1>8. CASE UNCHANGED vars
  BY <1>8 DEF vars, Mortal
<1> QED
  BY <1>3, <1>4, <1>5, <1>6, <1>7, <1>8 DEF Next

\* A key that belongs to a client that stopped, or that never learnt it had
\* acquired the lock, is free once the time to live it was set with has
\* passed: no request of anybody prolongs it, and it has such a time (newMutex,
\* redsync's scripts, which compare the value).
THEOREM AbandonedFreed ==
    Spec => [][owner = Stranger =>
                 /\ life > 0
                 /\ Tick => life' = life - 1 /\ owner' = IF life = 1 THEN Nobody ELSE Stranger
                 /\ ~ Tick => life' = life /\ owner' = owner]_vars
<1> DEFINE Fading == owner = Stranger =>
                       /\ life > 0
                       /\ Tick => life' = life - 1 /\ owner' = IF life = 1 THEN Nobody ELSE Stranger
                       /\ ~ Tick => life' = life /\ owner' = owner
<1>1. Init => Mortal
  BY DEF Init, Mortal, Ended
<1>2. IInv /\ Mortal /\ [Next]_vars => Mortal'
  BY MortalStep DEF IInv
<1>3. IInv /\ Mortal /\ [Next]_vars => [Fading]_vars
  <2> SUFFICES ASSUME IInv, Mortal, [Next]_vars, owner = Stranger
               PROVE  /\ life > 0
                      /\ Tick => life' = life - 1 /\ owner' = IF life = 1 THEN Nobody ELSE Stranger
                      /\ ~ Tick => life' = life /\ owner' = owner
    OBVIOUS
  <2>1. life \in Nat /\ life > 0
    BY DEF IInv, TypeOK, Mortal
  <2>2. Tick => life' = life - 1 /\ owner' = IF life = 1 THEN Nobody ELSE Stranger
    BY <2>1 DEF Tick
  <2>3. ASSUME NEW c \in Client, Execute(c) PROVE life' = life /\ owner' = owner
    BY <2>1, <2>3 DEF Execute, Fits, Mortal
  <2>4. ASSUME NEW c \in Client, NEW t \in Ttl, NEW n \in {0, Tries}, Call(c, t, n)
        PROVE  life' = life /\ owner' = owner
    BY <2>4 DEF Call
  <2>5. ASSUME NEW c \in Client,
               Lose(c) \/ ClientStep(c) \/ Cancel(c) \/ Extend(c) \/ Unlock(c) \/ Crash(c)
        PROVE  life' = life /\ owner' = owner
    BY <2>5 DEF Lose, ClientStep, Acquired, NotAcquired, TryAgain, GiveUp, WaitOver, Extended,
                Unlocked, Cancel, Extend, Unlock, Crash, Leave
  <2> QED
    BY <2>1, <2>2, <2>3, <2>4, <2>5 DEF Next, vars
<1> QED
  BY <1>1, <1>2, <1>3, Invariant, PTL DEF Spec
=============================================================================
