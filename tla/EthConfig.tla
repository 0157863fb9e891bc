----------------------------- MODULE EthConfig -----------------------------
(***************************************************************************)
(* The change-ip command: set_eth0_static_ip of usr_eth.c keeps the file   *)
(* /etc/network/interfaces it finds the first time as a backup and writes  *)
(* a new one from the backup at each call.  The device can lose power at   *)
(* any step, and both files are on disk.                                   *)
(*                                                                         *)
(* A file is a sequence of lines, a line what strstr and strncmp tell      *)
(* apart: "iface eth0" is also found in the line of an alias as eth0:1,    *)
(* and "iface eth1" stands for every interface without eth0 in its name.   *)
(* The TCP receivers call under sock.mutex: one call at a time.    *)
(***************************************************************************)
EXTENDS Integers, Sequences

CONSTANTS
  Ip,        \* addresses a console may ask for
  Mask,      \* "255.255.255.0"
  Old,       \* any other value
  Files,     \* what /etc/network/interfaces may hold
  Missing    \* there is no such file

Kind == {"iface eth0 static", "iface eth0 dhcp", "iface eth1", "blank",
         "address", "netmask", "other"}

Line == [kind : Kind, value : Ip \cup {Mask, Old}]

ASSUME EthAssumption ==
  Files \subseteq Seq(Line) /\ Missing \notin Seq(Line)

VARIABLES
  interfaces, backup,  \* the two files
  pc, ip, fin,         \* the call: control, its address, the file it reads
  inside_eth0,
  out,                 \* what it has written
  result,              \* what the last call returned
  original,            \* history: the file the device came with
  clean                \* history: all the last call did with files worked

files == <<interfaces, backup>>
call  == <<ip, fin, inside_eth0, out>>
vars  == <<files, pc, call, result, original, clean>>

(* A device as it came, one already configured, one without the file.      *)
Init ==
  /\ original \in Files \cup {Missing}
  /\ \/ interfaces = original /\ backup = Missing
     \/ original # Missing /\ backup = original /\ interfaces \in {original, <<>>, Missing}
  /\ pc = "idle" /\ ip \in Ip /\ fin = <<>> /\ inside_eth0 = FALSE /\ out = <<>>
  /\ result = "none" /\ clean = TRUE

Call(i) ==
  /\ pc = "idle"
  /\ pc' = "backup" /\ ip' = i /\ result' = "none" /\ clean' = TRUE
  /\ fin' = <<>> /\ inside_eth0' = FALSE /\ out' = <<>>
  /\ UNCHANGED <<files, original>>

(* Mutant: the backup is made anew at each call. *)
BackupAgain ==
  /\ pc = "backup"
  /\ IF interfaces # Missing
     THEN backup' = interfaces /\ interfaces' = Missing
     ELSE UNCHANGED files
  /\ pc' = "open"
  /\ UNCHANGED <<call, result, original, clean>>

(* rename() of a file that is there, if there is no backup. *)
Backup ==
  /\ pc = "backup"
  /\ IF backup = Missing /\ interfaces # Missing
     THEN backup' = interfaces /\ interfaces' = Missing
     ELSE UNCHANGED files
  /\ pc' = "open"
  /\ UNCHANGED <<call, result, original, clean>>

RenameFails ==
  /\ pc = "backup" /\ backup = Missing
  /\ pc' = "idle" /\ result' = "failed"
  /\ UNCHANGED <<files, call, original, clean>>

(* The backup is read; fopen(.., "w") empties or makes the other file.     *)
OpenWorks ==
  /\ pc = "open" /\ backup # Missing
  /\ interfaces' = <<>> /\ fin' = backup
  /\ pc' = "copy"
  /\ UNCHANGED <<backup, ip, inside_eth0, out, result, original, clean>>

(* The backup does not open, but the other file does: it is read, after it *)
(* has been emptied.                                                       *)
OpenFallsBack ==
  /\ pc = "open" /\ interfaces # Missing
  /\ interfaces' = <<>> /\ fin' = <<>> /\ clean' = FALSE
  /\ pc' = "copy"
  /\ UNCHANGED <<backup, ip, inside_eth0, out, result, original>>

(* There is nothing to read, or nowhere to write. *)
OpenFails ==
  /\ pc = "open"
  /\ interfaces' \in {interfaces, <<>>}
  /\ pc' = "idle" /\ result' = "failed"
  /\ UNCHANGED <<backup, call, original, clean>>

-----------------------------------------------------------------------------
(* while (fgets(line, ..)) *)

Starts(l) == l.kind = "iface eth0 static"
Ends(l)   == l.kind \in {"blank", "iface eth1"}

(* Mutant: only another iface ends the stanza. *)
StillInsideAtBlank(l) == (inside_eth0 \/ Starts(l)) /\ l.kind # "iface eth1"

StillInside(l) == (inside_eth0 \/ Starts(l)) /\ ~Ends(l)

NewLine(l, inside) ==
  CASE inside /\ l.kind = "address" -> [l EXCEPT !.value = ip]
    [] inside /\ l.kind = "netmask" -> [l EXCEPT !.value = Mask]
    [] OTHER -> l

CopyLine ==
  /\ pc = "copy" /\ Len(out) < Len(fin)
  /\ LET l == fin[Len(out) + 1] IN
       /\ inside_eth0' = StillInside(l)
       /\ out' = Append(out, NewLine(l, StillInside(l)))
  /\ UNCHANGED <<files, pc, ip, fin, result, original, clean>>

Prefix(s, n) == SubSeq(s, 1, n)

(* fclose writes what was kept back.  Nobody looks at what fprintf, fputs  *)
(* and fclose return: on a full disk a first part is the file.             *)
Close ==
  /\ pc = "copy" /\ Len(out) = Len(fin)
  /\ \E n \in 0 .. Len(out) :
       /\ interfaces' = Prefix(out, n)
       /\ clean' = (clean /\ n = Len(out))
  /\ pc' = "idle" /\ result' = "done"
  /\ UNCHANGED <<backup, call, original>>

(* Power is lost: some of what was written is in the file. *)
Crash ==
  /\ pc # "idle"
  /\ \/ pc = "copy" /\ \E n \in 0 .. Len(out) : interfaces' = Prefix(out, n)
     \/ pc # "copy" /\ UNCHANGED interfaces
  /\ pc' = "idle"
  /\ UNCHANGED <<backup, call, result, original, clean>>

Next ==
  \/ \E i \in Ip : Call(i)
  \/ Backup \/ RenameFails \/ OpenWorks \/ OpenFallsBack \/ OpenFails
  \/ CopyLine \/ Close \/ Crash

Spec == Init /\ [][Next]_vars

-----------------------------------------------------------------------------
TypeOK ==
  /\ interfaces \in Seq(Line) \cup {Missing} /\ backup \in Seq(Line) \cup {Missing}
  /\ original \in Seq(Line) \cup {Missing}
  /\ pc \in {"idle", "backup", "open", "copy"}
  /\ ip \in Ip /\ fin \in Seq(Line) /\ out \in Seq(Line)
  /\ inside_eth0 \in BOOLEAN /\ clean \in BOOLEAN
  /\ result \in {"none", "done", "failed"}

(* The lines of the stanzas "iface eth0 .. static". *)
InStanza(file, i) ==
  \E j \in 1 .. i : Starts(file[j]) /\ \A k \in j .. i : ~Ends(file[k])

(* The file with the call's address and mask in those stanzas. *)
Configured(file) ==
  [i \in 1 .. Len(file) |-> NewLine(file[i], InStanza(file, i))]

(* The file the device came with is never lost: a call that is cut off,    *)
(* fails or is repeated leaves it complete in one of the two places.       *)
NothingLost == original # Missing => original \in {interfaces, backup}

(* Where the original is, and how far a call is. *)
OriginalKept ==
  original # Missing =>
    \/ backup = original
    \/ backup = Missing /\ interfaces = original /\ pc \in {"idle", "backup"}

HowFar ==
  /\ pc # "idle" => result = "none"
  /\ pc \in {"backup", "open"} => ~inside_eth0 /\ out = <<>>
  /\ pc = "copy" =>
       /\ clean => fin = backup
       /\ Len(out) <= Len(fin)
       /\ inside_eth0 <=> InStanza(fin, Len(out))
       /\ \A i \in 1 .. Len(out) : out[i] = NewLine(fin[i], InStanza(fin, i))

(* The last call that got through decides, whatever calls for other        *)
(* addresses and cut off calls came before: the file is the original with  *)
(* the address and mask in the static stanzas of eth0 and in no others.    *)
LastCallDecides ==
  original # Missing /\ pc = "idle" /\ result = "done" /\ clean =>
    interfaces = Configured(original)

EthInv == TypeOK /\ OriginalKept /\ HowFar /\ LastCallDecides

(* doc/README.md describes the file ("** static ip config"): a console     *)
(* that was told the address is set finds it in the file.                  *)
AcknowledgedIsSet ==
  original # Missing /\ pc = "idle" /\ result = "done" /\ clean =>
    \E i \in 1 .. Len(interfaces) :
      interfaces[i].kind = "address" /\ interfaces[i].value = ip
=============================================================================
