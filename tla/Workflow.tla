------------------------------ MODULE Workflow ------------------------------
(***************************************************************************)
(* The tables every handler consults before it changes a row: the state    *)
(* machines of the three reviewed entities (internal/constants and         *)
(* canTransitionObservation), the roles, who a route admits                *)
(* (RBACMiddleware as the routers install it) and who may move a boundary  *)
(* proposal (authorizeProposalTransition).  Pure definitions; the modules  *)
(* of the components EXTEND this one.                                      *)
(***************************************************************************)

Roles == {"surveyor", "gis_analyst", "reviewer", "auditor", "admin"}

-----------------------------------------------------------------------------
(* Boundary proposals. *)

ProposalStates ==
    {"draft", "validated", "submitted", "reviewed", "revision", "accepted", "rejected"}

ProposalTransitions ==
    { <<"draft", "validated">>, <<"validated", "submitted">>, <<"submitted", "reviewed">>,
      <<"reviewed", "accepted">>, <<"reviewed", "rejected">>, <<"reviewed", "revision">>,
      <<"revision", "draft">> }

CanProposalTransition(from, to) == <<from, to>> \in ProposalTransitions

DecidedStates == {"accepted", "rejected"}

\* isProposalReviewTransition: the targets that record the actor in reviewed_by.
ReviewStates == {"reviewed", "accepted", "rejected", "revision"}

\* authorizeProposalTransition: authoring moves belong to the author or an
\* administrator, review moves to a reviewer or administrator other than the author.
\* AuthorizedMove_SelfReview is a plausible bug: a review branch that forgets the author.
AuthorizedMove_SelfReview(to, role, isAuthor) ==
    IF to \in ReviewStates THEN role \in {"reviewer", "admin"}
                           ELSE isAuthor \/ role = "admin"

AuthorizedMove(to, role, isAuthor) ==
    IF to \in ReviewStates THEN role \in {"reviewer", "admin"} /\ ~isAuthor
                           ELSE isAuthor \/ role = "admin"

-----------------------------------------------------------------------------
(* Topology conflicts. *)

ConflictStates ==
    {"detected", "confirmed", "false_positive", "resolution_proposed", "resolved", "closed"}

ConflictTransitions ==
    { <<"detected", "confirmed">>, <<"detected", "false_positive">>,
      <<"confirmed", "resolution_proposed">>, <<"false_positive", "closed">>,
      <<"resolution_proposed", "resolved">>, <<"resolved", "closed">> }

CanConflictTransition(from, to) == <<from, to>> \in ConflictTransitions

-----------------------------------------------------------------------------
(* Survey observations. *)

ObservationStates == {"accepted", "rejected", "superseded"}

ObservationTransitions ==
    { <<"accepted", "rejected">>, <<"accepted", "superseded">>, <<"rejected", "accepted">> }

CanObservationTransition(from, to) == <<from, to>> \in ObservationTransitions

-----------------------------------------------------------------------------
(* The roles each mutating route admits. *)

FieldRoles == {"surveyor", "gis_analyst", "admin"}
ProposalMoveRoles == FieldRoles \cup {"reviewer"}
DetectionRoles == {"gis_analyst", "admin"}
ConflictReviewRoles == {"reviewer", "admin"}
=============================================================================
