------------------------------- MODULE MCOutbox -------------------------------
(* Small instances of Outbox: a lane of webhooks, and a lane of mail. *)
EXTENDS Outbox, TLC

ThreeRows == 1 .. 3
NoRows == {}

(* Two events about one booking and one about another, for one subscriber. *)
HookLine == <<"b1", "b1", "b2">>
HookSubscriber == <<"hook", "hook", "hook">>
AtOnce == <<0, 0, 0>>

(* A confirmation, a cancellation and a reminder to one invitee. *)
MailLine == <<"b1", "b1", "b1">>
NoSubscriber == <<None, None, None>>
ReminderLater == <<0, 0, 1>>
Confirmation == {1}
Cancellation == {2}
DroppedRows == {1, 3}

TwoProcesses == ("s1" :> "a") @@ ("s2" :> "a") @@ ("s3" :> "b")
OneEach == ("s1" :> "a") @@ ("s2" :> "b")
=============================================================================
