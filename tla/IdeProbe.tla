------------------------------ MODULE IdeProbe ------------------------------
(***************************************************************************)
(* How devices/ide.c finds the disks of a channel: the reset, the          *)
(* signatures check_device_type() reads, IDENTIFY DEVICE, and the limit of *)
(* 1 GB.  What the devices answer is the environment's choice.             *)
(***************************************************************************)
EXTENDS Naturals, Sequences

CONSTANTS Limit,        \* 1 GB in sectors
          SerialLen     \* bytes of a serial number field

VARIABLES devs,         \* what is attached: device 0 and device 1
          probing,      \* the next step
          busyDev,      \* the devices that did not finish the reset
          is_ata, known \* the driver's: known to be disks; block devices

probeVars == <<devs, probing, busyDev, is_ata, known>>

Dev == {0, 1}
Kinds == {"none", "ata", "sata", "atapi", "failed", "stuck"}
Blank == {"space", "null"}
Serials == [1..SerialLen -> {"a", "b"} \cup Blank]

Attached ==
  [kind : Kinds, sectors : {Limit - 1, Limit}, identifies : BOOLEAN]

ProbeInit ==
  /\ devs \in [Dev -> Attached]
  /\ \A d \in Dev : devs[d].kind \notin {"ata", "sata"} =>
       devs[d].sectors = Limit /\ ~devs[d].identifies
  /\ probing = "reset" /\ busyDev = {} /\ is_ata = {} /\ known = {}

(* What the registers of device d may hold after the reset: device 0       *)
(* reports 0x81 when it passed and device 1 did not.                       *)
Readings(d) ==
  LET k == devs[d].kind
      passed == IF d = 0 /\ devs[1].kind = "failed" THEN 129 ELSE 1
      sig == CASE k = "ata" -> "disk" [] k = "sata" -> "sata" [] OTHER -> "packet"
  IN  CASE k = "none"   -> [error : {0, 255}, signature : {"other"}, drdy : {FALSE}, bsy : BOOLEAN]
        [] k = "failed" -> [error : {2}, signature : {"disk"}, drdy : BOOLEAN, bsy : {FALSE}]
        [] k = "stuck"  -> [error : {0, 1}, signature : {"disk"}, drdy : BOOLEAN, bsy : {TRUE}]
        [] k = "atapi"  -> [error : {passed}, signature : {sig}, drdy : BOOLEAN, bsy : {FALSE}]
        [] OTHER        -> [error : {passed}, signature : {sig}, drdy : {TRUE}, bsy : {FALSE}]

(* reset_channel(): presence, the reset, and waits that end after 30 s.    *)
WaitWhileBusy(d) == IF devs[d].kind = "stuck" THEN {d} ELSE {}
ResetChannel ==
  /\ probing = "reset"
  /\ busyDev' = UNION {WaitWhileBusy(d) : d \in Dev}
  /\ probing' = "check0"
  /\ UNCHANGED <<devs, is_ata, known>>

(* Mutant: no second device is looked for behind a first that is no disk.  *)
MaybeSlaveDisk(r, d) == r.error = 1 /\ r.signature \in {"disk", "sata"}

(* check_device_type()                                                     *)
Suspicious(r, d) == \/ r.error # 1 /\ (r.error # 129 \/ d = 1)
                    \/ ~r.drdy \/ r.bsy
MaybeSlave(r, d) == Suspicious(r, d) => r.error # 129
IsDisk(r, d) == ~Suspicious(r, d) /\ r.signature \in {"disk", "sata"}

CheckDeviceType(d, r) == is_ata' = IF IsDisk(r, d) THEN is_ata \cup {d} ELSE is_ata

Check0 ==
  /\ probing = "check0"
  /\ \E r \in Readings(0) :
       /\ CheckDeviceType(0, r)
       /\ probing' = IF MaybeSlave(r, 0) THEN "check1" ELSE "identify0"
  /\ UNCHANGED <<devs, busyDev, known>>

Check1 ==
  /\ probing = "check1"
  /\ \E r \in Readings(1) : CheckDeviceType(1, r)
  /\ probing' = "identify0"
  /\ UNCHANGED <<devs, busyDev, known>>

-----------------------------------------------------------------------------
(* descramble_ata_string(): swapping the pairs, in the order of the loop,  *)
(* then the scan from the end for the place of the terminator.             *)
Swap(s) == [i \in DOMAIN s |-> IF i % 2 = 0 THEN s[i - 1]
                               ELSE IF i + 1 <= Len(s) THEN s[i + 1] ELSE s[i]]
DescrambleAtaString(s) ==
  LET t == Swap(s)
      size[n \in 0..Len(s)] ==
        IF n = 0 THEN 0 ELSE IF t[n] \notin Blank THEN n ELSE size[n - 1]
  IN  SubSeq(t, 1, size[Len(s) - 1])

(* Mutant: the limit is one sector too high.                               *)
TooLargeLate(d) == devs[d].sectors > Limit

(* identify_ata_device()                                                   *)
TooLarge(d) == devs[d].sectors >= Limit

Identify(d) ==
  /\ probing = IF d = 0 THEN "identify0" ELSE "identify1"
  /\ probing' = IF d = 0 THEN "identify1" ELSE "done"
  /\ IF d \notin is_ata
       THEN UNCHANGED <<is_ata, known>>
       ELSE IF ~devs[d].identifies \/ TooLarge(d)
              THEN is_ata' = is_ata \ {d} /\ UNCHANGED known
              ELSE /\ \E serial \in Serials :
                        known' = known \cup {[dev |-> d, raw |-> serial,
                                              name |-> DescrambleAtaString(serial)]}
                   /\ UNCHANGED is_ata
  /\ UNCHANGED <<devs, busyDev>>

ProbeNext == ResetChannel \/ Check0 \/ Check1 \/ \E d \in Dev : Identify(d)

-----------------------------------------------------------------------------
IsPrefixOf(s, t) == Len(s) <= Len(t) /\ \A i \in DOMAIN s : s[i] = t[i]

(* ide_init(): when a channel has been probed, the block devices are       *)
(* exactly the disks attached that are ready, answer IDENTIFY DEVICE and   *)
(* have less than 1 GB, whichever device shares the channel with them; and *)
(* the name of each is its field with the bytes of every pair exchanged,   *)
(* without the blanks at its end.                                          *)
ProbeRight ==
  /\ probing = "done" =>
       {b.dev : b \in known} =
         {d \in Dev : /\ devs[d].kind \in {"ata", "sata"}
                      /\ devs[d].identifies /\ devs[d].sectors < Limit}
  /\ \A b \in known :
       LET bytes == [i \in 1..SerialLen |-> b.raw[IF i % 2 = 1 THEN i + 1 ELSE i - 1]]
       IN  /\ IsPrefixOf(b.name, bytes) /\ Len(b.name) < SerialLen
           /\ \A i \in Len(b.name) + 1..SerialLen - 1 : bytes[i] \in Blank
           /\ b.name # <<>> => b.name[Len(b.name)] \notin Blank
=============================================================================
