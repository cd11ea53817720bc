-------------------------- MODULE ConfirmedReplica --------------------------
(***************************************************************************)
(* What the search projection promises to the services that own the        *)
(* documents: a replica in which every record only moves forward in its    *)
(* owner's versions, holds nothing but what an owner sent, and in which a  *)
(* version is confirmed (its event acknowledged) only after the record has *)
(* reached it.  How events travel, who applies them and what is lost on    *)
(* the way is left to the implementation.                                  *)
(***************************************************************************)
EXTENDS Naturals

CONSTANTS
    Id,      \* identities of the records
    Write,   \* what owners may legitimately send: [id, version, body]
    Absent   \* the entry of a record the replica knows nothing of

VARIABLES
    view,       \* the entry [version, body] of each record
    confirmed,  \* the versions of each record confirmed to its owner
    forgotten   \* records whose deletion the replica no longer remembers

vars == <<view, confirmed, forgotten>>

Entry(write) == [version |-> write.version, body |-> write.body]

Init ==
    /\ view = [id \in Id |-> Absent]
    /\ confirmed = [id \in Id |-> {}]
    /\ forgotten = {}

Move(write) ==
    /\ write.version >= view[write.id].version
    /\ view' = [view EXCEPT ![write.id] = Entry(write)]
    /\ UNCHANGED <<confirmed, forgotten>>

Confirm(write) ==
    /\ write.id \in forgotten \/ write.version <= view[write.id].version
    /\ confirmed' = [confirmed EXCEPT ![write.id] = @ \cup {write.version}]
    /\ UNCHANGED <<view, forgotten>>

Forget(id) ==
    /\ view[id].body = Absent.body
    /\ view' = [view EXCEPT ![id] = Absent]
    /\ forgotten' = forgotten \cup {id}
    /\ UNCHANGED confirmed

Next ==
    \/ \E write \in Write : Move(write) \/ Confirm(write)
    \/ \E id \in Id : Forget(id)

Spec == Init /\ [][Next]_vars
=============================================================================
