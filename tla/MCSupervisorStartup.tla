------------------------ MODULE MCSupervisorStartup ------------------------
(***************************************************************************)
(* Two supervisors that start, crash and are started again, with three     *)
(* starts in all.                                                          *)
(***************************************************************************)
EXTENDS SupervisorStartup
CONSTANTS n1, n2
MCMembers == {n1, n2}
=============================================================================
