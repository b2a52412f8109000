-------------------------------- MODULE MCRecords -------------------------------
(* The record-keeping services side by side.  They share no state, so a        *)
(* behaviour follows one of them, its focus, and the others stay as they are.  *)
EXTENDS Consent, AuditLog, CmsCache, Documents, Notification, Scoring

MCChannelChoices == [Jobs -> Channels]

\* Below and at the thresholds of classify_risk_band.
MCMlScores == {549, 550, 750}

\* At and above the thresholds of the fallback.
MCMockScores == {600, 751}

VARIABLE focus

recordsVars ==
  <<consentVars, auditVars, cmsVars, documentVars, notificationVars, scoringVars,
    focus>>

Init ==
  /\ ConsentInit /\ AuditInit /\ CmsInit /\ DocumentInit /\ NotificationInit
  /\ ScoringInit
  /\ focus \in {"consent", "audit", "cms", "documents", "notification", "scoring"}
  /\ configured => focus = "documents"
  /\ focus = "notification" \/ \A j \in Jobs : jobs[j].channel = "sms"

Next ==
  /\ UNCHANGED focus
  /\ \/ /\ focus = "consent" /\ ConsentNext
        /\ UNCHANGED <<auditVars, cmsVars, documentVars,
                       notificationVars, scoringVars>>
     \/ /\ focus = "audit" /\ AuditNext
        /\ UNCHANGED <<consentVars, cmsVars, documentVars,
                       notificationVars, scoringVars>>
     \/ /\ focus = "cms" /\ CmsNext
        /\ UNCHANGED <<consentVars, auditVars, documentVars,
                       notificationVars, scoringVars>>
     \/ /\ focus = "documents" /\ DocumentNext
        /\ UNCHANGED <<consentVars, auditVars, cmsVars,
                       notificationVars, scoringVars>>
     \/ /\ focus = "notification" /\ NotificationNext
        /\ UNCHANGED <<consentVars, auditVars, cmsVars,
                       documentVars, scoringVars>>
     \/ /\ focus = "scoring" /\ ScoringNext
        /\ UNCHANGED <<consentVars, auditVars, cmsVars,
                       documentVars, notificationVars>>

Spec ==
  /\ Init /\ [][Next]_recordsVars
  /\ CmsFairness /\ NotificationFairness /\ ScoringFairness

TypeOK ==
  /\ ConsentTypeOK /\ AuditTypeOK /\ CmsTypeOK /\ DocumentTypeOK
  /\ NotificationTypeOK /\ ScoringTypeOK
===============================================================================
