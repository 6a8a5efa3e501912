------------------------------ MODULE MCDaemon ------------------------------
(***************************************************************************)
(* One instance for the two daemons: a behaviour runs the one in C or the  *)
(* one in Python.                                                          *)
(***************************************************************************)
EXTENDS Daemon, PyDaemon

Msg(type, bytes) == [type |-> type, bytes |-> bytes]
MCKnown == {<<1, 5>>, <<2, 5>>}
MCInbox ==
    {Msg(0, <<>>), Msg(1, <<1, 5, 1>>), Msg(1, <<1>>), Msg(5, <<1, 2, 3>>), Msg(11, <<1>>),
     Msg(3, <<0>>), Msg(3, <<0, 0>>), Msg(3, <<0, 1, 7, 5>>), Msg(3, <<0, 1, 2, 5>>),
     Msg(3, <<0, 1, 1, 5>>), Msg(3, <<2, 1, 1, 6>>), Msg(3, <<0, 2, 2, 5, 3, 3>>),
     Msg(3, <<1, 2, 2, 6, 1, 5>>), Msg(4, <<0, 2, 2, 5, 1, 5>>), Msg(4, <<1, 1, 1, 6>>),
     Msg(4, <<2, 1, 1, 5>>), Msg(4, <<0, 0>>)}

vars == <<daemonVars, pyVars>>

Init == DaemonInit /\ PyInit
Next == \/ main = "start" /\ DaemonNext /\ UNCHANGED pyVars
        \/ accepted = <<>> /\ alive /\ PyNext /\ UNCHANGED daemonVars

\* The main loop waits for messages and handles them; the threads of the
\* daemon in Python run.
Spec == /\ Init /\ [][Next]_vars
        /\ WF_vars(main = "start" /\ alive /\ Dispatch /\ UNCHANGED pyVars)
        /\ WF_vars(accepted = <<>> /\ alive /\ PyProgress /\ UNCHANGED daemonVars)
        /\ \A c \in Clients :
              WF_vars(accepted = <<>> /\ alive /\ handle_connection(c) /\ UNCHANGED daemonVars)
=============================================================================
