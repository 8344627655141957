---------------------------- MODULE MCLinuxLogin ----------------------------
(* Small instances of LinuxLogin for TLC.                                    *)
EXTENDS LinuxLogin

\* A machine with sudo, polkit and sddm; polkit, as on many systems, and the others
\* have no file here.
MCPrograms == {"sudo", "pkexec", "sddm"}
MCOriginals ==
    [s \in Services |->
        CASE s = "sudo" -> {<<Session, Header, Comment, Include("common-auth")>>}
          [] s = "sddm" -> {<<Own, Session>>}
          [] OTHER      -> {Absent}]
\* A unit that restricts all but one switch and one directive.
MCUnits ==
    {[switch |-> [s \in Switches |-> s # "PrivateNetwork"],
      hashes |-> [d \in Directives |-> IF d = "DevicePolicy" THEN 1 ELSE 0]]}
MCVersions == << <<3, 9>>, <<3, 10>> >>
=============================================================================
