---------------------------- MODULE MCSyncGroups ----------------------------
(* Small instances of SyncGroups for TLC.                                  *)
EXTENDS SyncGroups

MCThree == 1..3

\* A group that stays as it was formed, and two that take others in.
MCClosed == [founders |-> 1..3, leader |-> 2, min |-> 2, max |-> 3, topUps |-> FALSE]
MCOpen == [founders |-> {1}, leader |-> 1, min |-> 1, max |-> 2, topUps |-> TRUE]
MCJoined == [founders |-> {1, 2}, leader |-> 2, min |-> 1, max |-> 3, topUps |-> TRUE]

MCClosedOrOpen == {MCClosed, MCOpen}
MCClosedOrJoined == {MCClosed, MCJoined}
=============================================================================
