--------------------------- MODULE AccountLifecycle ---------------------------
(***************************************************************************)
(* What account deletion promises to a user, without jobs, locks, workers  *)
(* or a provider: an account is open, then deleting, then deleted, and     *)
(* never goes back; its owner writes only while it is open; completing the *)
(* deletion erases what names the account; and success is answered only    *)
(* for a deleted account.  AccountDeletion implements this specification.  *)
(***************************************************************************)
CONSTANT Actors

VARIABLES
    status,     \* status[a]: "open", "deleting" or "deleted"
    content,    \* the accounts named by some stored row
    answered    \* the accounts whose deletion was reported as done

vars == <<status, content, answered>>

LiveActors == {a \in Actors : status[a] # "deleted"}

Init ==
    /\ status = [a \in Actors |-> "open"]
    /\ content = {}
    /\ answered = {}

\* a, still open, stores rows; they may name other accounts not yet deleted.
Write(a) ==
    /\ status[a] = "open"
    /\ \E named \in SUBSET LiveActors : content' = content \cup {a} \cup named
    /\ UNCHANGED <<status, answered>>

RequestDeletion(a) ==
    /\ status[a] = "open"
    /\ status' = [status EXCEPT ![a] = "deleting"]
    /\ UNCHANGED <<content, answered>>

CompleteDeletion(a) ==
    /\ status[a] = "deleting"
    /\ status' = [status EXCEPT ![a] = "deleted"]
    /\ content' = content \ {a}
    /\ answered' \in {answered, answered \cup {a}}

Answer(a) ==
    /\ status[a] = "deleted"
    /\ answered' = answered \cup {a}
    /\ UNCHANGED <<status, content>>

Next == \E a \in Actors :
    Write(a) \/ RequestDeletion(a) \/ CompleteDeletion(a) \/ Answer(a)

Spec == Init /\ [][Next]_vars
===============================================================================
