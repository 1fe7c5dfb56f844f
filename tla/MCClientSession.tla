--------------------------- MODULE MCClientSession ---------------------------
(* Small instances of ClientSession for TLC. *)
EXTENDS ClientSession

MCThreeKinds == <<"deletion", "conversation", "message">>
MCOneInstallation == [c \in Clients |-> CHOOSE i \in Installations : TRUE]
=============================================================================
