------------------------------- MODULE MCSsh --------------------------------
(***************************************************************************)
(* The components of omni-ssh for TLC.  They share no state in the code    *)
(* (the listener, the session, the SFTP server, the forwarder, the client, *)
(* the policy cache, the emergency manager and the fleet executor hold     *)
(* their own maps), so a behaviour is that of one component, which Init    *)
(* chooses, while the others stay as they started.                         *)
(***************************************************************************)
EXTENDS SshSession, SshRecorder, SshServer, SftpServer, SshForward, SshClient,
        SshPolicyCache, EmergencyAccess, SshFleet

CONSTANT Parts  \* the components a run looks at

VARIABLE part   \* the component that runs

MCFilters ==
  { [blocked |-> {"rm"}, allowed |-> None, readOnly |-> FALSE, sftp |-> TRUE],
    [blocked |-> {"rm"}, allowed |-> {"ls", "rm"}, readOnly |-> TRUE, sftp |-> FALSE] }

MCRule == [ips |-> {"a"}, until |-> 9, hold |-> FALSE, inTime |-> TRUE, reject |-> FALSE,
           accept |-> TRUE, mapped |-> TRUE]

MCRules ==
  { StandaloneRule, [MCRule EXCEPT !.until = 1], [MCRule EXCEPT !.mapped = FALSE] }

MCWithin == {<<"a", "ab">>}

MCPeers == << [id |-> "n1", online |-> TRUE], [id |-> Missing, online |-> TRUE],
              [id |-> Missing, online |-> FALSE] >>

MCTargets == {{}, {1, 2, 3}, {1, 2}}

\* A component that does not run has one initial state.
SshInit ==
  /\ part \in Parts
  /\ SsnInit /\ RecInit /\ SrvInit /\ SftpInit /\ FwdInit /\ CliInit /\ PolInit
  /\ EmInit /\ FleetInit
  /\ part # "server" => policy = <<StandaloneRule>>
  /\ part # "sftp" => writable /\ \A n \in Names : dir[n] = Nil
  /\ part # "client" => \A s \in Servers : server[s].kept
  /\ part # "policy" => ~disk
  /\ part # "fleet" => op.max = 0

sshVars == <<part, ssnVars, recVars, srvVars, sftpVars, fwdVars, cliVars, polVars, emVars,
             fleetVars>>

SshNext ==
  \/ /\ part = "session" /\ SsnNext
     /\ UNCHANGED <<part, recVars, srvVars, sftpVars, fwdVars, cliVars,
                      polVars, emVars, fleetVars>>
  \/ /\ part = "recorder" /\ RecNext
     /\ UNCHANGED <<part, ssnVars, srvVars, sftpVars, fwdVars, cliVars,
                      polVars, emVars, fleetVars>>
  \/ /\ part = "server" /\ SrvNext
     /\ UNCHANGED <<part, ssnVars, recVars, sftpVars, fwdVars, cliVars,
                      polVars, emVars, fleetVars>>
  \/ /\ part = "sftp" /\ SftpNext
     /\ UNCHANGED <<part, ssnVars, recVars, srvVars, fwdVars, cliVars,
                      polVars, emVars, fleetVars>>
  \/ /\ part = "forward" /\ FwdNext
     /\ UNCHANGED <<part, ssnVars, recVars, srvVars, sftpVars, cliVars,
                      polVars, emVars, fleetVars>>
  \/ /\ part = "client" /\ CliNext
     /\ UNCHANGED <<part, ssnVars, recVars, srvVars, sftpVars, fwdVars,
                      polVars, emVars, fleetVars>>
  \/ /\ part = "policy" /\ PolNext
     /\ UNCHANGED <<part, ssnVars, recVars, srvVars, sftpVars, fwdVars,
                      cliVars, emVars, fleetVars>>
  \/ /\ part = "emergency" /\ EmNext
     /\ UNCHANGED <<part, ssnVars, recVars, srvVars, sftpVars, fwdVars,
                      cliVars, polVars, fleetVars>>
  \/ /\ part = "fleet" /\ FleetNext
     /\ UNCHANGED <<part, ssnVars, recVars, srvVars, sftpVars, fwdVars,
                      cliVars, polVars, emVars>>

SshSpec == SshInit /\ [][SshNext]_sshVars

\* The fairness of the components that have liveness properties.
SshLive ==
  /\ SshSpec
  /\ WF_ssnVars(part = "session" /\ HandlerStep)
  /\ \A p \in Ptys : /\ WF_ssnVars(part = "session" /\ LoopStep(p))
                     /\ SF_ssnVars(part = "session" /\ IoProceeds(p))
                     /\ WF_ssnVars(part = "session" /\ (Waits(p) \/ Exits(p)))
  /\ \A t \in Tasks : WF_polVars(part = "policy" /\ TaskStep(t))
  /\ WF_fleetVars(part = "fleet" /\ FleetStep)
=============================================================================
