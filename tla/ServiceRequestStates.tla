------------------------ MODULE ServiceRequestStates ------------------------
(***************************************************************************)
(* The transition table of a ServiceRequest and the status groups that the *)
(* dispatch, acceptance and workload code read.  No state: every module    *)
(* that moves a job through its life extends this one, as every view of    *)
(* the back end goes through apply_transition.                             *)
(***************************************************************************)

\* Targets of ALLOWED_TRANSITIONS, keyed by the current status.
AllowedTransitions ==
    [ draft         |-> {"new_request", "confirmed", "offering", "dispatching",
                         "assigned", "unassigned", "cancelled"},
      new_request   |-> {"confirmed", "offering", "dispatching", "assigned",
                         "unassigned", "cancelled"},
      requested     |-> {"new_request", "confirmed", "offering", "dispatching",
                         "assigned", "unassigned", "accepted", "cancelled"},
      searching     |-> {"offering", "dispatching", "assigned", "unassigned",
                         "accepted", "cancelled"},
      unassigned    |-> {"offering", "dispatching", "assigned", "accepted",
                         "redispatching", "cancelled"},
      offering      |-> {"accepted", "unassigned", "redispatching", "cancelled"},
      dispatching   |-> {"offering", "accepted", "unassigned", "redispatching",
                         "cancelled"},
      redispatching |-> {"offering", "dispatching", "unassigned", "accepted",
                         "cancelled"},
      confirmed     |-> {"offering", "dispatching", "assigned", "unassigned",
                         "accepted", "cancelled"},
      assigned      |-> {"received", "accepted", "on_the_way", "en_route",
                         "arrived", "in_progress", "reassigned",
                         "redispatching", "cancelled"},
      received      |-> {"accepted", "on_the_way", "arrived", "in_progress",
                         "reassigned", "redispatching", "cancelled"},
      accepted      |-> {"on_the_way", "en_route", "arrived", "in_progress",
                         "redispatching", "cancelled", "unable_to_complete"},
      on_the_way    |-> {"arrived", "in_progress", "redispatching",
                         "cancelled", "unable_to_complete"},
      en_route      |-> {"arrived", "in_progress", "redispatching",
                         "cancelled", "unable_to_complete"},
      arrived       |-> {"service_started", "in_progress",
                         "inspection_in_progress", "cancelled",
                         "unable_to_complete"},
      inspection_in_progress |->
                        {"in_progress", "on_hold", "proof_submitted",
                         "completed", "cancelled", "unable_to_complete"},
      service_started |-> {"in_progress", "cancelled", "unable_to_complete"},
      in_progress   |-> {"on_hold", "proof_submitted", "cancelled",
                         "unable_to_complete", "follow_up_required",
                         "quotation_created", "quotation_sent",
                         "inspection_completed"},
      quotation_created |-> {"quotation_sent", "quotation_pending_approval",
                             "in_progress", "cancelled"},
      quotation_pending_approval |->
                        {"quotation_sent", "in_progress", "cancelled"},
      quotation_sent |-> {"in_progress", "assigned", "accepted", "cancelled",
                          "customer_rejected", "inspection_completed",
                          "proof_submitted"},
      inspection_completed |->
                        {"quotation_sent", "in_progress", "assigned",
                         "accepted", "proof_submitted", "completed",
                         "cancelled"},
      on_hold       |-> {"in_progress", "cancelled", "unable_to_complete"},
      proof_submitted |-> {"completed", "cancelled", "unable_to_complete",
                           "follow_up_required"},
      follow_up_required |-> {"in_progress", "completed", "cancelled",
                              "unable_to_complete"},
      completed     |-> {},
      cancelled     |-> {},
      reassigned    |-> {"assigned", "cancelled"},
      unable_to_complete |-> {},
      customer_rejected |-> {} ]

JobStatuses == DOMAIN AllowedTransitions

\* can_transition / the first check of apply_transition for an actor who is
\* not a superuser; repeating the current status is accepted and does nothing.
CanTransition(current, target) ==
    current = target \/ target \in AllowedTransitions[current]

\* WORKLOAD_OCCUPIED_STATUSES: what get_employee_active_job looks for.
WorkloadOccupied ==
    {"assigned", "accepted", "on_the_way", "en_route", "arrived",
     "inspection_in_progress", "in_progress", "quotation_sent", "on_hold",
     "proof_submitted", "quotation_created", "quotation_pending_approval",
     "inspection_completed"}

\* ACTIVE_WORKLOAD_STATUSES also lists the two states a customer decision
\* leads to; neither is in the transition table, so no job reaches them.
ActiveWorkload == WorkloadOccupied \ {"assigned"}

\* The EmployeeJob statuses the fallback of get_employee_active_job reads.
ActiveEmployeeJob ==
    {"assigned", "accepted", "on_the_way", "en_route", "arrived",
     "inspection_in_progress", "in_progress", "quotation_sent", "on_hold",
     "proof_submitted"}

\* Statuses after which ServiceRequest.save closes the job's other rows.
ClosingStatuses == {"cancelled", "completed", "unable_to_complete"}

\* DISPATCHABLE_STATUSES: what the periodic sweep looks for.
Dispatchable ==
    {"draft", "new_request", "confirmed", "unassigned", "assigned",
     "redispatching", "requested", "received", "searching"}
=============================================================================
