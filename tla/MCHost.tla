------------------------------- MODULE MCHost -------------------------------
(***************************************************************************)
(* The parts that find a terminal's daemon, open its pane, start and watch *)
(* what runs in it and convert its output; they share no state, so a       *)
(* behaviour of this run is one of one part, and everything else stands    *)
(* still.                                                                  *)
(***************************************************************************)
EXTENDS PaneHost, DaemonSupervisor, AgentStatus, PaneSnapshots,
        Emulator, StreamFrames, AgentLaunch

VARIABLE part

\* Strings and their ends; screens and modes; the kitty stack and what ends it.
OutputAlphabets == {{"esc", "can", "bel", "\\", "]", "P", "c", "o", "x"},
                    {"esc", "[", "?", "A", "F", "h", "l", "r", "x"},
                    {"esc", "[", ">", "<", "=", "7", "u", "s", "c", " "}}

\* Payloads with the magic and a kind in them, and ids and payloads beyond the caps.
FrameIds == {<<71>>, <<2, 2>>}
FramePayloads == {<<71, 2>>, <<16>>, <<1, 1, 1>>}

Places == {"copy", "manager", "agent", "other", "none"}
PathLayouts == UNION {{<<"grove">> \o rest : rest \in [1..n -> Places]} : n \in 1..3}
ShortArgs == UNION {[1..n -> {"--settings", "value", "=value", "bad", "text"}] : n \in 0..3}

HostInit ==
  /\ part \in {"pane", "supervisor", "agent", "snapshots", "emulator", "frames", "launch"}
  /\ SupervisorInit /\ AgentInit /\ FrameInit
  /\ PaneInit /\ (part # "pane" => shell = "none")
  /\ SnapshotInit /\ (part # "snapshots" => file.kind = "whole")
  /\ EmulatorInit /\ (part # "emulator" => alphabet = CHOOSE a \in Alphabets : TRUE)
  /\ LaunchInit
  /\ part # "launch" => /\ layout = <<"grove", "agent">> /\ args = <<>>
                        /\ installed /\ written = Whole /\ strips /\ setup.at = "done"

HostNext ==
  /\ UNCHANGED part
  /\ \/ /\ part = "pane" /\ PaneNext
        /\ UNCHANGED <<supervisorVars, agentVars, snapshotVars, emulatorVars, frameVars, launchVars>>
     \/ /\ part = "supervisor" /\ SupervisorNext
        /\ UNCHANGED <<paneVars, agentVars, snapshotVars, emulatorVars, frameVars, launchVars>>
     \/ /\ part = "agent" /\ AgentNext
        /\ UNCHANGED <<paneVars, supervisorVars, snapshotVars, emulatorVars, frameVars, launchVars>>
     \/ /\ part = "snapshots" /\ SnapshotNext
        /\ UNCHANGED <<paneVars, supervisorVars, agentVars, emulatorVars, frameVars, launchVars>>
     \/ /\ part = "emulator" /\ EmulatorNext
        /\ UNCHANGED <<paneVars, supervisorVars, agentVars, snapshotVars, frameVars, launchVars>>
     \/ /\ part = "frames" /\ FrameNext
        /\ UNCHANGED <<paneVars, supervisorVars, agentVars, snapshotVars, emulatorVars, launchVars>>
     \/ /\ part = "launch" /\ LaunchNext
        /\ UNCHANGED <<paneVars, supervisorVars, agentVars, snapshotVars, emulatorVars, frameVars>>

HostSpec ==
  HostInit /\ [][HostNext]_<<part, paneVars, supervisorVars, agentVars, snapshotVars,
                             emulatorVars, frameVars, launchVars>>
=============================================================================
