------------------------------ MODULE MC_AdbMux ------------------------------
EXTENDS AdbMux

CONSTANTS t1, t2

\* Two tasks: a shell command next to a root/unroot/remount command, a
\* reboot, or a port-forward client connection.
MCTasks == {t1, t2}
MCKindsRoot == {(t1 :> "shell") @@ (t2 :> "root")}
MCKindsAll == MCKindsRoot \cup {(t1 :> "shell") @@ (t2 :> "forward"),
                             (t1 :> "shell") @@ (t2 :> "reboot")}

\* Two chunks per stream, so that flow control (OKAY before the next WRTE)
\* is exercised.  IdMax 2 makes the second OPEN take u32::MAX and reset
\* the stored counter.  The forward listener accepts one client, who may
\* close before sending: a second connection next to a shell did not finish.
MCChunks == 2
MCIdMax == 2
MCConns == 1
=============================================================================
