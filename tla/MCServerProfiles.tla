-------------------------- MODULE MCServerProfiles --------------------------
(* Profiles and hardware for checking ServerProfiles with TLC. *)
EXTENDS ServerProfiles, TLC

CONSTANTS general, sensorProfile, cpuPackage

MCDefinitions == {{cpuPackage}}
MCSeedRequires == [p \in {general} |-> {}]
=============================================================================
