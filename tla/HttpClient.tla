----------------------------- MODULE HttpClient ----------------------------
(***************************************************************************)
(* The calls of the frontend (services/api/httpClient.ts): the part of the *)
(* API each goes to, which decides whose session it has to carry, and what *)
(* parseJsonOrThrow makes of an answer.                                    *)
(*                                                                         *)
(* An answer has a status and a body.  "page" is a body that is not JSON: a *)
(* gateway's error page, or a web server's own page where the API should be. *)
(***************************************************************************)
EXTENDS TLC

\* The calls that go to one part of the API: /api/auditor, /api/manager,
\* /api/client, what is for all staff, and what is for anybody.
To(area, calls) == [c \in calls |-> area]

PublicCalls ==
    To("public", {"createReport", "getStatus", "staffLogin"})

ReviewCalls ==
    To("auditor", {"getAuditorCases", "getAuditorCaseDetail", "resolveCase"})

RecordCalls ==
    To("manager", {"getAuditHistory", "getManagerDashboard"})

WellbeingCalls ==
    To("auditor", {"getMyWellbeing", "acknowledgeContentWarning", "declineCase", "recordExposure",
                      "triggerSos", "reportUnexpectedExposure", "requestWellbeingSupport",
                      "withdrawWellbeingRequest", "stopShift"})

OversightCalls ==
    To("manager", {"getAuditorOverview", "getSosSummary", "getAuditorDetail", "setExposureLimit",
                      "approveBreakRequest", "markWellbeingFollowedUp", "getCaseOversight",
                      "listSosAlerts", "getSosAlert", "acknowledgeSosAlert", "logSosFollowUp",
                      "logCheckIn"})

CaseCalls ==
    To("manager", {"listDeclinedCases", "getManagerCaseReview", "getReassignmentContext",
                      "reassignCase", "closeWithoutReassignment", "getCaseForExceptionalAccess",
                      "recordExceptionalAccess", "getValidationSummary"})
    @@ To("auditor", {"releaseCaseAtLimit", "releaseAllCasesAtLimit"})

CustomerCalls ==
    To("manager", {"getCustomerIntegration", "testIntegration", "listDeliveries", "getDelivery",
                      "retryDelivery", "escalateDelivery", "listReports", "generateReport",
                      "getReport", "updateReportNote", "releaseReport", "listReportAccess",
                      "getManagerIntelligence", "getGovernanceSummary"})

ClientCalls ==
    To("public", {"clientLogin"})
    @@ To("client", {"clientListReports", "clientGetReport", "clientRecordDownload",
                     "clientSendMessage", "clientListMessages", "clientGetMessage",
                     "clientListCaseResults", "clientCaseResultsSummary",
                     "clientRecordPlatformAction"})
    @@ To("manager", {"listClientMessages", "getClientMessage", "replyClientMessage"})

QueueCalls ==
    To("staff", {"aiChat", "makeCaseAvailable", "withdrawCaseRelease"})
    @@ To("manager", {"listClientAccounts", "getGovernanceCase", "listClients"})
    @@ To("auditor", {"getAllOpenCases", "getAvailableCases", "takeCase", "claimCase"})

Calls ==
    PublicCalls @@ ReviewCalls @@ RecordCalls @@ WellbeingCalls @@ OversightCalls
        @@ CaseCalls @@ CustomerCalls @@ ClientCalls @@ QueueCalls

\* The operations of the data source that the server has no endpoint for: they
\* fail with 501 without a request.
NotConnected == {"createLinkReport", "createScreenshotReport", "addCaseInformation", "requestStatusUpdates"}

\* "lost" is no answer at all: fetch itself fails.
Answers == [status : {200, 204, 401, 403, 404, 409, 422, 429, 502}, body : {"json", "empty", "page"}]

Ok(a) == a.status \in {200, 204}

\* Mutant: whatever arrives with a good status is handed to the page.
ParseGood(a) == IF Ok(a) THEN "done" ELSE IF a.body = "json" THEN "detail" ELSE "generic"

\* What the page hears: that it is done, the server's own words, or a general
\* message.  A good status without JSON never reached the API.
Parse(a) ==
    CASE Ok(a) /\ (a.body = "json" \/ a.status = 204) -> "done"
      [] Ok(a) -> "unexpected"
      [] a.body = "json" -> "detail"
      [] OTHER -> "generic"
=============================================================================
