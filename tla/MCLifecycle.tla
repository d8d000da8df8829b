------------------------------- MODULE MCLifecycle -------------------------------
(* A device that is registered twice at a time, or one that starts again.   *)
EXTENDS Lifecycle

Both ==
    {{"failure", "shutdown", "timeout", "twice"},
     {"failure", "shutdown", "timeout", "crash", "restart", "removal"}}
================================================================================
