------------------------ MODULE MCNotificationPolling ------------------------
(* The instance of NotificationPolling that TLC checks; RidePage composes the
   polls with the page, and MCRidePage checks their other properties.        *)
EXTENDS NotificationPolling
=============================================================================
