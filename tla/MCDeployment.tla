---------------------------- MODULE MCDeployment ----------------------------
(* A small instance of Deployment for TLC. *)
EXTENDS Deployment

CONSTANTS r1, r2

MCReleases == {r1, r2}

(* The worker's service as an earlier command left it, and as it is by      *)
(* default.                                                                 *)
Narrow == [web |-> 2, worker |-> 1]
Default == [web |-> 2, worker |-> 2]

(* Two commands in a row, one answer lost; one command that an operator     *)
(* races; one command that loses two answers; a bootstrap with a failed     *)
(* rollout and a lost answer.                                               *)
MCScenarios ==
    {[start |-> First, room |-> Narrow, commands |-> 2, operator |-> 0, failed |-> 0, lost |-> 1],
     [start |-> First, room |-> Default, commands |-> 1, operator |-> 1, failed |-> 0, lost |-> 0],
     [start |-> First, room |-> Default, commands |-> 1, operator |-> 0, failed |-> 0, lost |-> 2],
     [start |-> Boot, room |-> Default, commands |-> 1, operator |-> 0, failed |-> 1, lost |-> 1]}
=============================================================================
