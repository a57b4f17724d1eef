---------------------------- MODULE ReviewLedger ----------------------------
(***************************************************************************)
(* What the review of boundary proposals promises, with no requests, no    *)
(* snapshots and no races: every proposal has an append-only ledger; one   *)
(* atomic step opens it with its author's entry, and one atomic step       *)
(* appends a move that the state machine allows from the ledger's last     *)
(* entry and that its actor may make.  BoundaryProposal implements it with *)
(* its audit trail as the ledger.                                          *)
(***************************************************************************)
EXTENDS Naturals, Sequences, Workflow

CONSTANTS
    Users, RoleOf, Proposals,
    FirstVersions      \* the versions a ledger may open at

VARIABLE ledger

Nothing == [state |-> "none", version |-> 0]

Latest(entries) == entries[Len(entries)].after

Author(entries) == entries[1].actor

Init == ledger = [p \in Proposals |-> <<>>]

Open(p, author, version) ==
    /\ ledger[p] = <<>>
    /\ ledger' = [ledger EXCEPT ![p] =
                    << [actor |-> author, before |-> Nothing,
                        after |-> [state |-> "draft", version |-> version]] >>]

Move(p, actor, to) ==
    /\ ledger[p] # <<>>
    /\ CanProposalTransition(Latest(ledger[p]).state, to)
    /\ RoleOf[actor] \in ProposalMoveRoles
    /\ AuthorizedMove(to, RoleOf[actor], actor = Author(ledger[p]))
    /\ ledger' = [ledger EXCEPT ![p] = Append(@,
                    [actor |-> actor, before |-> Latest(@),
                     after |-> [state |-> to, version |-> Latest(@).version + 1]])]

Next ==
    \E p \in Proposals, u \in Users :
        \/ \E version \in FirstVersions : Open(p, u, version)
        \/ \E to \in ProposalStates : Move(p, u, to)

Spec == Init /\ [][Next]_ledger
=============================================================================
