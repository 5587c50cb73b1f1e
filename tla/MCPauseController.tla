------------------------ MODULE MCPauseController ------------------------
(* Two replies and a scan, which may come together or one after the other; *)
(* two of them may save in the same millisecond.                           *)
EXTENDS PauseControllerProps

CONSTANTS r1, r2, s1, t1, t2
=============================================================================
