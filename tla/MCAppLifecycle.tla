---------------------------- MODULE MCAppLifecycle ----------------------------
(* Three transports and two state handlers.                                *)
EXTENDS AppLifecycle, TLC

CONSTANTS t1, t2, t3

\* Two transports share a name and may start late or not at all; the third has its own.
SharedName == t1 :> "app1" @@ t2 :> "app1" @@ t3 :> "app2"
LateStarts == {t1, t2}

=============================================================================
