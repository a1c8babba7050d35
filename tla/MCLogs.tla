------------------------------- MODULE MCLogs -------------------------------
(* Two configurations and two starts: small enough for TLC.               *)
EXTENDS Logs

MCLogConfs == {[level |-> 3, console |-> TRUE, file |-> 4, web |-> 3],
               [level |-> 2, console |-> FALSE, file |-> 0, web |-> 2]}
MCLogFlags == {[all |-> 5, verbose |-> 0, env |-> <<>>],
               [all |-> 0, verbose |-> 2, env |-> <<[all |-> 0, own |-> 1]>>]}
=============================================================================
