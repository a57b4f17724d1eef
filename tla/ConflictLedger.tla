--------------------------- MODULE ConflictLedger ---------------------------
(***************************************************************************)
(* What the resolution of topology conflicts promises, one atomic step at  *)
(* a time: a conflict's ledger is opened by its detection and grows by     *)
(* legal moves; applying its suggestion is one of those moves, from        *)
(* resolution_proposed to resolved, and drafts exactly one proposal.       *)
(* ConflictResolution implements it with its audit trail as the ledger.    *)
(***************************************************************************)
EXTENDS Naturals, Sequences, Workflow

CONSTANTS Users, RoleOf, Conflicts, Proposals

VARIABLES
    ledger,     \* each conflict's moves
    drafted     \* which proposal was drafted from which conflict

Latest(k) == ledger[k][Len(ledger[k])].after

Entry(u, from, to) == [actor |-> u, before |-> from, after |-> to]

Init == ledger = [k \in Conflicts |-> <<>>] /\ drafted = {}

Detect(k, u) ==
    /\ ledger[k] = <<>>
    /\ ledger' = [ledger EXCEPT ![k] = <<Entry(u, "none", "detected")>>]
    /\ UNCHANGED drafted

Advance(k, u, to) ==
    /\ ledger[k] # <<>>
    /\ RoleOf[u] \in ConflictReviewRoles
    /\ CanConflictTransition(Latest(k), to)
    /\ ledger' = [ledger EXCEPT ![k] = Append(@, Entry(u, Latest(k), to))]

Move(k, u, to) == Advance(k, u, to) /\ UNCHANGED drafted

Apply(k, u, p) ==
    /\ \A d \in drafted : d.proposal # p
    /\ Advance(k, u, "resolved")
    /\ drafted' = drafted \cup {[conflict |-> k, proposal |-> p, author |-> u]}

Next ==
    \E k \in Conflicts, u \in Users :
        \/ Detect(k, u)
        \/ \E to \in ConflictStates : Move(k, u, to)
        \/ \E p \in Proposals : Apply(k, u, p)

Spec == Init /\ [][Next]_<<ledger, drafted>>
=============================================================================
