----------------------------- MODULE MCLaunchdJob -----------------------------
(***************************************************************************)
(* One job of every kind, two jobs, and the kinds that single runs need.   *)
(***************************************************************************)
EXTENDS LaunchdJob

CONSTANTS a, b

(* Every kind but the services that reset their port and whose process may *)
(* be killed before launchd attaches to it, which NeverDeaf does not cover. *)
MCKindsOf(j) ==
    {k \in SUBSET Traits :
        /\ "reset" \in k \/ "drain" \in k => "service" \in k
        /\ ~("reset" \in k /\ "early" \in k)}

(* A job with a Mach service, of three kinds, and one without, which only an *)
(* operator starts.                                                          *)
MCTwoKindsOf(j) ==
    IF j = a THEN {{"service", "drain", "stuck"}, {"service", "keepalive", "clean"},
                   {"service", "patient", "clean", "stuck"}}
             ELSE {{}}

(* A service that resets its port, whose process may be killed at once. *)
MCEarlyKindsOf(j) == {{"service", "reset", "early"}}

(* A KeepAlive job whose process may be killed at once. *)
MCKeptKindsOf(j) == {{"service", "keepalive", "early"}}

(* A KeepAlive job whose process may be clean when stopped, and may then hang. *)
MCHangKindsOf(j) == {{"keepalive", "clean", "stuck"}}
===============================================================================
