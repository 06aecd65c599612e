------------------------------- MODULE VhciHub -------------------------------
(***************************************************************************)
(* The two root-hub replies that are pure functions of the port table:     *)
(* hub_descriptor (GetHubDescriptor) and vhci_hub_status (the change       *)
(* bitmap polled by the usb core).  A reply is a sequence of bytes, each a *)
(* natural below 256; byte i of a C buffer is element i + 1.  The bytes of *)
(* the on-stack struct usb_hub_descriptor that the code leaves             *)
(* uninitialized are an argument, so that every value the build may find   *)
(* there is considered.                                                    *)
(*                                                                         *)
(* Each code operator is checked against a reference definition written   *)
(* from USB 2.0 section 11.23.2.1 (hub descriptor) and 11.12.4 (status     *)
(* change bitmap).                                                         *)
(***************************************************************************)
EXTENDS Naturals, Sequences, FiniteSets, Bitwise

CONSTANTS
    PortCounts,    \* port_count values to check (ioc_register allows 1..31)
    ReplyLens,     \* wLength values of GetHubDescriptor to check
    JunkBytes,     \* values the uninitialized stack bytes may hold
    MaxChanged     \* largest number of changed ports in one status poll

ASSUME PortCounts \subseteq 1..31 /\ MaxChanged \in 0..2

\* USB_DT_HUB_NONVAR_SIZE: bLength .. bHubContrCurrent.
NonVarSize == 7

\* struct usb_hub_descriptor with USB_MAXCHILDREN = 31: two port bitmaps of
\* (31 + 1 + 7) / 8 = 4 bytes each.
DescSize == NonVarSize + 2 * 4

\* A byte array of n bytes, all v.
Fill(n, v) == [i \in 1..n |-> v]

\* memset(buf + from, v, n) on a byte array (C offsets from 0).
MemSet(buf, from, v, n) ==
    [i \in DOMAIN buf |-> IF from < i /\ i <= from + n THEN v ELSE buf[i]]

Min2(a, b) == IF a <= b THEN a ELSE b

-----------------------------------------------------------------------------
(* hub_descriptor(vhc, buf, len), for port_count pc.  junk is the content  *)
(* of desc beyond its first NonVarSize bytes ([NonVarSize+1..DescSize ->   *)
(* bytes]), which the code never writes.  The result is buf[0 .. l-1],     *)
(* the bytes the function writes.                                          *)

\* Mutant: one bitmap byte per 8 ports, forgetting bit 0 (the hub).
PortArrLenPortsOnly(pc) == (pc + 7) \div 8

\* The port bitmaps of one hub descriptor, in bytes.
PortArrLen(pc) == pc \div 8 + 1

\* The reply length l the code computes.
DescReplyLen(pc, len) ==
    IF len > NonVarSize THEN Min2(len, NonVarSize + 2 * PortArrLen(pc)) ELSE len

\* desc after memset(&desc, 0, NonVarSize) and the field assignments.
DescStruct(pc, len, junk) ==
    [i \in 1..DescSize |->
        CASE i = 1 -> DescReplyLen(pc, len)        \* bDescLength = l
          [] i = 2 -> 41                           \* bDescriptorType 0x29
          [] i = 3 -> pc                           \* bNbrPorts
          [] i = 4 -> 9                            \* wHubCharacteristics, le16
          [] i <= NonVarSize -> 0                  \* memset
          [] OTHER -> junk[i]]

hub_descriptor(pc, len, junk) ==
    LET pal  == PortArrLen(pc)
        l    == DescReplyLen(pc, len)
        buf0 == Fill(l, 0)                         \* caller's buffer, any content
        buf1 == IF len > NonVarSize /\ l > NonVarSize
                THEN MemSet(buf0, NonVarSize, 0, l - NonVarSize) ELSE buf0
        buf2 == IF len > NonVarSize /\ l > NonVarSize + pal
                THEN MemSet(buf1, NonVarSize + pal, 255, l - (NonVarSize + pal))
                ELSE buf1
        desc == DescStruct(pc, len, junk)
    IN \* memcpy(buf, &desc, l) then overwrites all l bytes of buf2
       [i \in 1..l |-> desc[i]]

\* USB 2.0 11.23.2.1: the full hub descriptor for pc ports with per-port
\* power switching and over-current reporting; DeviceRemovable all 0
\* (removable), PortPwrCtrlMask all 1.  A request for len bytes gets its
\* first len bytes.
RefHubDescriptor(pc) ==
    LET pal == (pc + 1 + 7) \div 8
    IN <<NonVarSize + 2 * pal, 41, pc, 9, 0, 0, 0>> \o Fill(pal, 0) \o Fill(pal, 255)

RefDescriptorReply(pc, len) ==
    SubSeq(RefHubDescriptor(pc), 1, Min2(len, Len(RefHubDescriptor(pc))))

-----------------------------------------------------------------------------
(* vhci_hub_status(hcd, buf) for port_count pc, the set changed of ports    *)
(* whose port_change is not 0, and HW_ACCESSIBLE hw: the bitmap and the    *)
(* return value.  Its last step, usb_hcd_resume_root_hub when the root    *)
(* hub is suspended, only asks the usb core for a later bus_resume, which  *)
(* VhciPorts has as the action BusResume.                                  *)

\* Mutant: buf taken as 16-bit elements (sizeof *buf * 8 = 16).
RECURSIVE StatusLoopWideElem(_, _, _, _)
StatusLoopWideElem(buf, port, pc, changed) ==
    IF port >= pc THEN buf
    ELSE LET abs_bit == port + 1
             next    == IF abs_bit \in changed
                        THEN [buf EXCEPT ![abs_bit \div 16 + 1] = @ | (2 ^ (abs_bit % 16))]
                        ELSE buf
         IN StatusLoopWideElem(next, port + 1, pc, changed)

\* Mutant: bit numbers from 0 (abs_bit = port).
RECURSIVE StatusLoopZeroBased(_, _, _, _)
StatusLoopZeroBased(buf, port, pc, changed) ==
    IF port >= pc THEN buf
    ELSE LET idx  == port \div 8
             next == IF port + 1 \in changed
                     THEN [buf EXCEPT ![idx + 1] = @ | (2 ^ (port % 8))]
                     ELSE buf
         IN StatusLoopZeroBased(next, port + 1, pc, changed)

\* buf[idx] |= 1 << rel_bit for abs_bit = port + 1, ports 0 .. pc-1 in turn.
RECURSIVE StatusLoop(_, _, _, _)
StatusLoop(buf, port, pc, changed) ==
    IF port >= pc THEN buf
    ELSE LET abs_bit == port + 1
             idx     == abs_bit \div 8
             rel_bit == abs_bit % 8
             next    == IF abs_bit \in changed
                        THEN [buf EXCEPT ![idx + 1] = @ | (2 ^ rel_bit)]
                        ELSE buf
         IN StatusLoop(next, port + 1, pc, changed)

vhci_hub_status(pc, changed, hw) ==
    LET buf0 == Fill(1 + pc \div 8, 0)             \* memset(buf, 0, 1 + pc/8)
    IN IF ~hw THEN [buf |-> buf0, retval |-> 0]
       ELSE [buf    |-> StatusLoop(buf0, 0, pc, changed),
             retval |-> IF changed # {} THEN 1 ELSE 0]

\* USB 2.0 11.12.4: bit n of the bitmap reports a change on port n; bit 0
\* (the hub itself) is never set here.
RefStatusBitmap(pc, changed) ==
    [i \in 1..(1 + pc \div 8) |->
        LET bits == {n \in changed : n \div 8 = i - 1}
        IN IF bits = {} THEN 0
           ELSE LET RECURSIVE SumBits(_)
                    SumBits(S) == IF S = {} THEN 0
                                  ELSE LET n == CHOOSE m \in S : TRUE
                                       IN 2 ^ (n % 8) + SumBits(S \ {n})
                IN SumBits(bits)]
-----------------------------------------------------------------------------
(* One call of each function: its arguments are the state, chosen once.   *)

VARIABLES pc, len, junk, changed, hw
hub_vars == <<pc, len, junk, changed, hw>>

JunkRange == (NonVarSize + 1)..DescSize

HubInit ==
    /\ pc \in PortCounts
    /\ len \in ReplyLens
    /\ junk \in [JunkRange -> JunkBytes]
    /\ changed \in {S \in {{a, b} : a, b \in 1..pc} \cup {{}} : Cardinality(S) <= MaxChanged}
    /\ hw \in BOOLEAN

\* The arguments of the call do not change.
HubNext == UNCHANGED hub_vars

HubSpec == HubInit /\ [][HubNext]_hub_vars

\* The arguments are in range and both replies are byte arrays.
HubTypeOK ==
    /\ pc \in 1..31 /\ len \in Nat /\ junk \in [JunkRange -> 0..255]
    /\ changed \subseteq 1..pc /\ hw \in BOOLEAN
    /\ \A r \in {hub_descriptor(pc, len, junk), vhci_hub_status(pc, changed, hw).buf} :
         \A i \in DOMAIN r : r[i] \in 0..255

\* GetHubDescriptor sizes its reply for the port count: for every port
\* count and request length, the reply is as long as the standard
\* descriptor truncated to the request, so both port bitmaps hold a bit
\* for every port and for bit 0.  It is about portArrLen = port_count / 8
\* + 1 and the clamping of l to len in hub_descriptor.
DescriptorSizedForPorts ==
    Len(hub_descriptor(pc, len, junk)) = Len(RefDescriptorReply(pc, len))

\* USB 2.0 11.23.2.1: apart from bDescLength, the reply is the standard
\* descriptor: type, port count, characteristics, DeviceRemovable all 0,
\* PortPwrCtrlMask all 1 (hub_descriptor's memsets of buf).
DescriptorMatchesStandard ==
    LET reply == hub_descriptor(pc, len, junk)
    IN \A i \in 2..Len(reply) : reply[i] = RefDescriptorReply(pc, len)[i]

\* The change bitmap vhci_hub_status hands the usb core has bit n set
\* exactly for the ports n with a pending change, in a buffer of
\* 1 + port_count / 8 bytes, and the return value says whether any bit is
\* set; an inaccessible controller reports nothing.  It is about the
\* abs_bit / idx / rel_bit arithmetic of the loop.
HubStatusMatchesBitmap ==
    LET r == vhci_hub_status(pc, changed, hw)
    IN IF hw THEN /\ r.buf = RefStatusBitmap(pc, changed)
                  /\ r.retval = IF changed = {} THEN 0 ELSE 1
       ELSE r = [buf |-> Fill(1 + pc \div 8, 0), retval |-> 0]

=============================================================================
