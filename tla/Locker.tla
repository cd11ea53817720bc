------------------------------- MODULE Locker -------------------------------
(***************************************************************************)
(* The lock of internal/cache/redis.go: TryLock, Lock, Extend and Unlock   *)
(* on one key, as clients call them that may be slow, lose requests or     *)
(* answers, or stop.  Redis and redsync over a single Redis are external.  *)
(* Time passes alike for Redis and the clients, and a command its sender   *)
(* gave up is executed before the sender goes on, or never.                *)
(***************************************************************************)
EXTENDS Naturals

CONSTANTS
    Client,
    Nobody, Stranger,  \* owner of a free key; a value no client uses any more
    Ttl,               \* times to live that are asked for
    Drift,             \* external: what redsync takes off for drifting clocks
    Tries              \* external: attempts of a Lock

ASSUME LockerAssumption ==
    /\ Nobody \notin Client /\ Stranger \notin Client /\ Nobody # Stranger
    /\ Ttl \subseteq Nat /\ Drift \in Nat /\ Tries \in Nat \ {0}

VARIABLES
    owner,  \* external: whose value the key holds
    life,   \* external: time until the key expires, 0 if it never does
    pc,     \* what each client does: a request, or how its last call ended
    reply,  \* what is known of that request
    ttl,    \* the time to live of its lock
    tries,  \* attempts a Lock has left, 0 for a TryLock
    age,    \* time since the request was sent
    left    \* time to Until

vars == <<owner, life, pc, reply, ttl, tries, age, left>>

Requests == {"ask", "release", "retreat", "extend", "unlock"}

\* Requests that delete the key.
Deletes == {"release", "retreat", "unlock"}

Ended == {"idle", "contended", "failed"}

Init ==
    /\ owner = Nobody
    /\ life = 0
    /\ pc = [c \in Client |-> "idle"]
    /\ reply = [c \in Client |-> "none"]
    /\ ttl = [c \in Client |-> 0]
    /\ tries = [c \in Client |-> 0]
    /\ age = [c \in Client |-> 0]
    /\ left = [c \in Client |-> 0]

-----------------------------------------------------------------------------

\* c sends the request that `to` names, or goes on to a state without one.
Go(c, to) ==
    /\ pc' = [pc EXCEPT ![c] = to]
    /\ reply' = [reply EXCEPT ![c] = "none"]
    /\ age' = [age EXCEPT ![c] = 0]

\* What c leaves in Redis when it lets its lock go belongs to nobody it knows.
Leave(c) == owner' = IF owner = c THEN Stranger ELSE owner

\* Mutant: any time to live will do; 0 is a key that does not expire.
UsableAny(t) == t \in Nat

\* newMutex
Usable(t) == t > 0

\* TryLock, with n = 0, and Lock.
Call(c, t, n) ==
    /\ pc[c] \in Ended
    /\ Usable(t)
    /\ Go(c, "ask")
    /\ ttl' = [ttl EXCEPT ![c] = t]
    /\ tries' = [tries EXCEPT ![c] = n]
    /\ UNCHANGED <<owner, life, left>>

-----------------------------------------------------------------------------
(* Redis: SET NX with expiry, and scripts that compare the value.          *)

\* Whether a request of c finds what it needs.
Fits(c) == IF pc[c] = "ask" THEN owner = Nobody ELSE owner = c

\* The answer of a request may be lost.
Execute(c) ==
    /\ pc[c] \in Requests /\ reply[c] = "none"
    /\ \E answer \in {"lost", IF Fits(c) THEN "ok" ELSE "no"} : reply' = [reply EXCEPT ![c] = answer]
    /\ owner' = CASE Fits(c) /\ pc[c] = "ask"   -> c
                  [] Fits(c) /\ pc[c] \in Deletes -> Nobody
                  [] OTHER                        -> owner
    /\ life' = CASE Fits(c) /\ pc[c] \in {"ask", "extend"} -> ttl[c]
                 [] Fits(c) /\ pc[c] \in Deletes         -> 0
                 [] OTHER                                -> life
    /\ UNCHANGED <<pc, ttl, tries, age, left>>

\* The request is lost, or its context ends before it is sent.
Lose(c) ==
    /\ pc[c] \in Requests /\ reply[c] = "none"
    /\ reply' = [reply EXCEPT ![c] = "lost"]
    /\ UNCHANGED <<owner, life, pc, ttl, tries, age, left>>

\* The key expires.
Tick ==
    /\ life' = IF life > 0 THEN life - 1 ELSE 0
    /\ owner' = IF life = 1 THEN Nobody ELSE owner
    /\ age' = [c \in Client |-> IF age[c] < ttl[c] THEN age[c] + 1 ELSE age[c]]
    /\ left' = [c \in Client |-> IF left[c] > 0 THEN left[c] - 1 ELSE 0]
    /\ UNCHANGED <<pc, reply, ttl, tries>>

-----------------------------------------------------------------------------
(* Answers.                                                                *)

\* An "ok" that came in time: the lock is valid for what is left of its time.
InTime(c) == reply[c] = "ok" /\ age[c] + Drift < ttl[c]

Hold(c) ==
    /\ Go(c, "hold")
    /\ left' = [left EXCEPT ![c] = ttl[c] - Drift - age[c]]

Acquired(c) ==
    /\ pc[c] = "ask" /\ InTime(c)
    /\ Hold(c)
    /\ UNCHANGED <<owner, life, ttl, tries>>

\* redsync gives back what it may have got, after contention or an error.
NotAcquired(c) ==
    /\ pc[c] = "ask" /\ reply[c] # "none" /\ ~ InTime(c)
    /\ Go(c, IF reply[c] = "lost" THEN "retreat" ELSE "release")
    /\ UNCHANGED <<owner, life, ttl, tries, left>>

\* The attempt is over; another follows after the retry delay.
TryAgain(c) ==
    /\ pc[c] \in {"release", "retreat"} /\ reply[c] # "none" /\ tries[c] > 1
    /\ Go(c, "wait")
    /\ tries' = [tries EXCEPT ![c] = @ - 1]
    /\ UNCHANGED <<owner, life, ttl, left>>

\* The last attempt is over.  For TryLock contention is no error (isContention).
GiveUp(c) ==
    /\ pc[c] \in {"release", "retreat"} /\ reply[c] # "none" /\ tries[c] <= 1
    /\ Go(c, IF pc[c] = "release" /\ tries[c] = 0 THEN "contended" ELSE "failed")
    /\ Leave(c)
    /\ UNCHANGED <<life, ttl, tries, left>>

WaitOver(c) ==
    /\ pc[c] = "wait"
    /\ Go(c, "ask")
    /\ UNCHANGED <<owner, life, ttl, tries, left>>

\* The context of Lock ends while it waits.
Cancel(c) ==
    /\ pc[c] = "wait"
    /\ Go(c, "failed")
    /\ Leave(c)
    /\ UNCHANGED <<life, ttl, tries, left>>

Extend(c) ==
    /\ pc[c] = "hold"
    /\ Go(c, "extend")
    /\ UNCHANGED <<owner, life, ttl, tries, left>>

\* Mutant: the answer that the lock is no longer owned is not looked at.
ExtendedAnyway(c) ==
    /\ pc[c] = "extend" /\ reply[c] # "none"
    /\ IF age[c] + Drift < ttl[c] THEN Hold(c) ELSE Go(c, "hold") /\ UNCHANGED left
    /\ UNCHANGED <<owner, life, ttl, tries>>

\* An error leaves Until as it was; the lock can still be used and extended.
Extended(c) ==
    /\ pc[c] = "extend" /\ reply[c] # "none"
    /\ IF InTime(c) THEN Hold(c) ELSE Go(c, "hold") /\ UNCHANGED left
    /\ UNCHANGED <<owner, life, ttl, tries>>

Unlock(c) ==
    /\ pc[c] = "hold"
    /\ Go(c, "unlock")
    /\ left' = [left EXCEPT ![c] = 0]
    /\ UNCHANGED <<owner, life, ttl, tries>>

\* An Unlock that could not release anything is an error.
Unlocked(c) ==
    /\ pc[c] = "unlock" /\ reply[c] # "none"
    /\ Go(c, IF reply[c] = "ok" THEN "idle" ELSE "failed")
    /\ Leave(c)
    /\ UNCHANGED <<life, ttl, tries, left>>

Crash(c) ==
    /\ pc[c] \notin Ended
    /\ Go(c, "idle")
    /\ left' = [left EXCEPT ![c] = 0]
    /\ Leave(c)
    /\ UNCHANGED <<life, ttl, tries>>

ClientStep(c) ==
    \/ Acquired(c) \/ NotAcquired(c) \/ TryAgain(c) \/ GiveUp(c) \/ WaitOver(c)
    \/ Extended(c) \/ Unlocked(c)

Next ==
    \/ Tick
    \/ \E c \in Client :
          \/ \E t \in Ttl, n \in {0, Tries} : Call(c, t, n)
          \/ Execute(c) \/ Lose(c) \/ ClientStep(c) \/ Cancel(c)
          \/ Extend(c) \/ Unlock(c) \/ Crash(c)

\* Time passes.
Spec == Init /\ [][Next]_vars /\ WF_vars(Tick)

-----------------------------------------------------------------------------
(* Properties.                                                             *)

TypeOK ==
    /\ owner \in Client \cup {Nobody, Stranger}
    /\ life \in Nat
    /\ pc \in [Client -> Requests \cup Ended \cup {"wait", "hold"}]
    /\ reply \in [Client -> {"none", "ok", "no", "lost"}]
    /\ ttl \in [Client -> Ttl \cup {0}]
    /\ tries \in [Client -> 0..Tries]
    /\ age \in [Client -> Nat]
    /\ left \in [Client -> Nat]

\* No two clients hold the lock as far as their Until tells them, whatever
\* expired, was extended, released or lost meanwhile, and who holds it is in
\* the key (TryLock, Lock, Extend, Unlock).
HolderAlone ==
    \A c \in Client : left[c] > 0 =>
        /\ owner = c
        /\ \A d \in Client : left[d] > 0 => d = c

\* A key left behind by a client that stopped, or that never learnt it had
\* acquired the lock, becomes free again (newMutex).
KeyFreed == (owner = Stranger) ~> (owner # Stranger)
=============================================================================
