----------------------------- MODULE MCPublisher -----------------------------
(* Small instances of PublisherConnection: two created messages, one edit, one *)
(* deletion that the allowlist leaves out, and an edit of the account's own.   *)
EXTENDS PublisherConnection

MCCreated == {1, 2}
MCEdited == {3, 5}
MCDeleted == {4}
MCIgnored == {5}
MCOffList == {4}
=============================================================================
