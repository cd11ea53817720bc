----------------------------- MODULE ReadPromise -----------------------------
(***************************************************************************)
(* What a read promises to its caller, who asks for a page of documents or *)
(* for a single one: the answer is taken from one state of the index, at a *)
(* time between question and answer, and holds documents the caller may    *)
(* see there and then; it is given only under the grants of applications   *)
(* it calls for, once and for all; a refusal shows nothing.  How tokens,   *)
(* grants and documents are looked up, in which order, and what changes    *)
(* between the look-ups is left to the implementation.                     *)
(***************************************************************************)

VARIABLES
    single,    \* whether a single document is asked for
    asked,     \* the applications a page is asked for; all of them if empty
    showable,  \* documents the index holds and the caller may see
    allowed,   \* applications granted at some time since the question
    found,     \* documents taken from the index for the answer
    answer     \* what the caller is told

vars == <<single, asked, showable, allowed, found, answer>>

Refusal == {"invalid", "forbidden", "notfound", "unavailable"}

Init == found = {} /\ answer = "pending"

\* Bindings, grants and documents change, and time grants more.
Change ==
    /\ allowed \subseteq allowed'
    /\ UNCHANGED <<single, asked, found, answer>>

\* A single document is found before its application is known.
Take ==
    /\ answer = "pending" /\ found = {} /\ single
    /\ \E d \in showable : found' = {d}
    /\ UNCHANGED <<single, asked, showable, allowed, answer>>

Cleared(d) ==
    IF single THEN d.applicationId = "" \/ d.applicationId \in allowed
              ELSE asked # {} => d.applicationId \in asked

Answer ==
    /\ answer = "pending"
    /\ ~ single => asked \subseteq allowed
    /\ \/ found = {} /\ found' \subseteq showable
       \/ found' = found
    /\ \A d \in found' : Cleared(d)
    /\ answer' = "ok"
    /\ UNCHANGED <<single, asked, showable, allowed>>

Refuse ==
    /\ answer = "pending"
    /\ answer' \in Refusal
    /\ found' = {}
    /\ UNCHANGED <<single, asked, showable, allowed>>

Next == Change \/ Take \/ Answer \/ Refuse

Spec == Init /\ [][Next]_vars
=============================================================================
