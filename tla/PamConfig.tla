------------------------------ MODULE PamConfig ------------------------------
(***************************************************************************)
(* The texts the installer edits on Linux: the files in /etc/pam.d and the *)
(* unit of polkit's agent helper (desktop/src/installer/PAMHelper.cpp).    *)
(* A file is a sequence of lines or Absent; blank lines, of which every    *)
(* rewriting adds one, are left out.                                       *)
(***************************************************************************)
EXTENDS Naturals, SequencesExt

CONSTANT Absent         \* stands for a file that does not exist

Header    == "#%PAM-1.0"
Generated == "## Generated by PC Bio Unlock"

\* The module's own line, and the line before it that sddm gets.
Module    == "auth sufficient pam_pcbiounlock.so"
UnixFirst == "auth [success=1 default=ignore] pam_unix.so"

\* A comment that holds the module's line, and the other lines a file may have:
\* the rule for the account's own password, and one of another kind.
Comment  == "# auth sufficient pam_pcbiounlock.so"
Own      == "auth required pam_unix.so"
Session  == "session required pam_limits.so"

Include(name) ==
    IF name = "system-auth" THEN "include system-auth" ELSE "include common-auth"

Lines == {Header, Generated, Module, UnixFirst, Comment, Own, Session}
         \cup {Include(i) : i \in {"system-auth", "common-auth"}}

\* The seven directives of the unit: those that are yes or no, and those that
\* are turned into comments; of the latter the number of # before them counts.
Switches == {"NoNewPrivileges", "PrivateDevices", "PrivateNetwork", "RestrictSUIDSGID"}
Directives == {"RestrictAddressFamilies", "DeviceAllow", "DevicePolicy"}
PolkitUnits == [switch : [Switches -> BOOLEAN], hashes : [Directives -> Nat]]

\* Text may stand before the first line of what is looked for, on the same line.
Holds(line, wanted, first) == line = wanted \/ (first /\ wanted = Module /\ line = Comment)

\* The file contains the text of the entry.
HasConfigEntry(file, entry) ==
    /\ file # Absent
    /\ \E i \in 1..Len(file) :
          /\ i + Len(entry) - 1 <= Len(file)
          /\ \A k \in 1..Len(entry) : Holds(file[i + k - 1], entry[k], k = 1)

IsConfigGenerated(file) == Contains(file, Generated)

\* A new file for a service that has none.
GeneratedConfig(entry, includes) ==
    <<Header>> \o entry
    \o <<Generated, Include(IF "system-auth" \in includes THEN "system-auth" ELSE "common-auth")>>

\* The file with some lines, or none, in the place of each.
Replaced(file, For(_)) == FlattenSeq([i \in DOMAIN file |-> For(file[i])])

\* The entry follows every header, or leads with a header of its own.
AddEntryToFile(file, entry) ==
    (IF Contains(file, Header) THEN <<>> ELSE <<Header>> \o entry)
    \o Replaced(file, LAMBDA line : IF line = Header THEN <<line>> \o entry ELSE <<line>>)

\* The lines of a file but for some, which go wherever they stand.
Without(file, lines) ==
    Replaced(file, LAMBDA line : IF line \in lines THEN <<>> ELSE <<line>>)

\* Mutant: every line is removed that mentions the module or its neighbour.
RemoveMentions(file, entry) == Without(file, ToSet(entry) \cup {Comment})

\* Every line that is a line of the entry is removed.
RemoveEntryFromFile(file, entry) == Without(file, ToSet(entry))

\* Every replacement is made once per occurrence, so that one # is put before a
\* directive, or taken away, each time.
SetPolkitRestrictions(unit, enabled) ==
    IF unit = Absent THEN Absent
    ELSE [switch |-> [s \in Switches |-> enabled],
          hashes |-> [d \in Directives |->
                        IF ~enabled THEN unit.hashes[d] + 1
                        ELSE IF unit.hashes[d] = 0 THEN 0 ELSE unit.hashes[d] - 1]]
=============================================================================
