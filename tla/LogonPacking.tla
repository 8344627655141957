---------------------------- MODULE LogonPacking ----------------------------
(***************************************************************************)
(* LogonPacking: how a tile packs a password for Windows (helpers.cpp and  *)
(* the second half of GetSerialization).  A string is its number of UTF-16 *)
(* characters; a buffer is its number of bytes; an offset counts from the  *)
(* start of the packed structure.  Every helper may also fail for want of  *)
(* memory or because a Windows call fails: then nothing is handed over.    *)
(***************************************************************************)
EXTENDS Naturals

CONSTANTS
    Header,     \* sizeof(KERB_INTERACTIVE_UNLOCK_LOGON)
    Growth      \* characters CredProtectW adds; external

ASSUME PackingAssumption == Header \in Nat /\ Growth \in Nat

UShortMax == 65535
WcharSize == 2

Scenarios == {"LOGON", "UNLOCK_WORKSTATION", "CREDUI"}

\* pcpgsr stays CPGSR_NO_CREDENTIAL_NOT_FINISHED.
NotFinished == [finished |-> FALSE]

\* Mutant: the byte count is cut to 16 bits instead.
FitsCut(chars) == chars <= UShortMax

\* SizeTToUShort and UShortMult refuse what does not fit.
FitsUnicodeString(chars) == chars <= UShortMax /\ chars * WcharSize <= UShortMax

UnicodeStringInitWithString(chars) == [Length |-> (chars * WcharSize) % (UShortMax + 1)]

\* A password that CredIsProtectedW finds protected already is copied as it is.
ProtectIfNecessaryAndCopyPassword(chars, cpus, protected) ==
    IF chars = 0 \/ cpus = "CREDUI" \/ protected THEN chars ELSE chars + Growth

\* SplitDomainAndUsername: E_UNEXPECTED for a name without a separator.
SplitDomainAndUsername(name) ==
    IF name.sep THEN {[domain |-> name.domain, user |-> name.user]} ELSE {}

MessageType(cpus) == IF cpus = "UNLOCK_WORKSTATION" THEN "KerbWorkstationUnlockLogon"
                                                    ELSE "KerbInteractiveLogon"

\* What it builds, if the three strings fit; it only refers to them.
KerbInteractiveUnlockLogonInit(domain, user, password, cpus) ==
    IF /\ FitsUnicodeString(domain)
       /\ FitsUnicodeString(user)
       /\ FitsUnicodeString(password)
       /\ cpus \in Scenarios
    THEN {[MessageType |-> MessageType(cpus),
           domain      |-> UnicodeStringInitWithString(domain),
           user        |-> UnicodeStringInitWithString(user),
           password    |-> UnicodeStringInitWithString(password)]}
    ELSE {}

\* _UnicodeStringPackedUnicodeStringCopy; Buffer becomes an offset.
PackedCopy(string, offset) == [Length |-> string.Length, Buffer |-> offset]

\* The strings follow the structure in one buffer.
KerbInteractiveUnlockLogonPack(kiul) ==
    LET user == Header + kiul.domain.Length
        password == user + kiul.user.Length
    IN  [finished    |-> TRUE,
         MessageType |-> kiul.MessageType,
         domain      |-> PackedCopy(kiul.domain, Header),
         user        |-> PackedCopy(kiul.user, user),
         password    |-> PackedCopy(kiul.password, password),
         cb          |-> password + kiul.password.Length]

\* The serializations a local user's tile may return for its password.
PackLocal(name, chars, cpus) ==
    {KerbInteractiveUnlockLogonPack(kiul) : kiul \in
        UNION {KerbInteractiveUnlockLogonInit(split.domain, split.user,
                   ProtectIfNecessaryAndCopyPassword(chars, cpus, protected), cpus) :
               split \in SplitDomainAndUsername(name), protected \in BOOLEAN}}

\* Any other account's: CredPackAuthenticationBufferW is given the name and the
\* password; what it makes of them is Windows' own.
PackOther == {[finished |-> TRUE, MessageType |-> "CredPack"]}

Serializations(local, name, chars, cpus) ==
    {NotFinished} \cup IF local THEN PackLocal(name, chars, cpus)
                                ELSE PackOther
=============================================================================
