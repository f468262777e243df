------------------------ MODULE MCNotificationOutbox ------------------------
(* Small instances of NotificationOutbox for TLC. *)
EXTENDS NotificationOutbox, TLC

TwoItems == {1, 2}
TwoUsers == {1, 2}

=============================================================================
