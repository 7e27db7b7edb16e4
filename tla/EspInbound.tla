----------------------------- MODULE EspInbound -----------------------------
(***************************************************************************)
(* The inbound side of an established IKEv2 session: ESP packets of its    *)
(* child SA arrive in any order and any number of times, are checked       *)
(* against a sliding window before they are opened and recorded in it      *)
(* after, and a rekey of the child replaces the SPI and starts an empty    *)
(* window (ikev2.rs: ReplayWindow, handle_esp, handle_rekey).              *)
(***************************************************************************)
EXTENDS Naturals

CONSTANTS
    Width,      \* bits of the bitmap: 64
    MaxSeq,     \* the largest sequence number: u32::MAX
    MaxRekeys   \* bound: rekeys of the child

ASSUME EspAssumption ==
    Width \in Nat \ {0} /\ MaxSeq \in Nat \ {0} /\ MaxRekeys \in Nat

VARIABLES
    spi,        \* the current child: SPIs are drawn at random, here they are counted
    highest,    \* ReplayWindow.highest
    bitmap,     \* ReplayWindow.bitmap: the set of distances whose bit is set
    accepted    \* history: the packets opened and forwarded

espVars == <<spi, highest, bitmap, accepted>>

Seqs == 0 .. MaxSeq
Distances == 0 .. Width - 1

permits_off_by_one(sequence) ==
    /\ sequence # 0
    /\ \/ sequence > highest
       \/ highest - sequence <= Width /\ highest - sequence \notin bitmap
permits_newer(sequence) == sequence > highest
permits(sequence) ==
    /\ sequence # 0
    /\ \/ sequence > highest
       \/ highest - sequence < Width /\ highest - sequence \notin bitmap

\* The bits that stay in the word when it is shifted to the left, and bit 0.
Shifted(shift) ==
    IF shift >= Width THEN {0}
    ELSE {distance \in Distances : distance >= shift /\ distance - shift \in bitmap} \cup {0}

record(sequence) ==
    IF sequence > highest
    THEN bitmap' = Shifted(sequence - highest) /\ highest' = sequence
    ELSE bitmap' = bitmap \cup {highest - sequence} /\ UNCHANGED highest

\* A packet of the current child that opens and holds an IPv4 packet.  Anything else
\* is dropped before the window changes.
HandleEsp(packet, sequence) ==
    /\ IF packet = spi /\ permits(sequence)
       THEN record(sequence) /\ accepted' = accepted \cup {<<packet, sequence>>}
       ELSE UNCHANGED <<highest, bitmap, accepted>>
    /\ UNCHANGED spi

\* handle_rekey of the child: a new SPI, and ReplayWindow::default().
RekeyEsp ==
    /\ spi < MaxRekeys
    /\ spi' = spi + 1
    /\ highest' = 0 /\ bitmap' = {}
    /\ UNCHANGED accepted

EspInit == spi = 0 /\ highest = 0 /\ bitmap = {} /\ accepted = {}

\* Any packet the client has ever sealed may arrive again.
EspNext ==
    \/ \E packet \in 0 .. MaxRekeys, sequence \in Seqs : HandleEsp(packet, sequence)
    \/ RekeyEsp

EspSpec == EspInit /\ [][EspNext]_espVars
-----------------------------------------------------------------------------
\* The type invariant of the window; the bitmap has Width bits.
EspTypeOK ==
    /\ spi \in 0 .. MaxRekeys
    /\ highest \in Seqs
    /\ bitmap \subseteq Distances
    /\ accepted \subseteq (0 .. MaxRekeys) \X Seqs

\* handle_esp forwards no packet twice: what was accepted under the current SPI is
\* refused from then on, however the window has moved since.
NoReplay == \A sequence \in Seqs : <<spi, sequence>> \in accepted => ~ permits(sequence)

\* The window loses no packet it has room for: a packet that arrives late, but less
\* than Width behind the newest one, is accepted unless it was accepted before.
LatePacketAccepted ==
    \A sequence \in Seqs \ {0} :
        /\ <<spi, sequence>> \notin accepted
        /\ highest < sequence + Width
        => permits(sequence)

\* What makes both inductive: of the last Width sequence numbers the bitmap marks
\* exactly the accepted ones, and nothing was accepted beyond the newest.
WindowExact ==
    /\ \A distance \in Distances :
         distance \in bitmap <=> distance <= highest /\ <<spi, highest - distance>> \in accepted
    /\ \A sequence \in Seqs : <<spi, sequence>> \in accepted => sequence \in 1 .. highest
    /\ \A packet \in 0 .. MaxRekeys, sequence \in Seqs : <<packet, sequence>> \in accepted => packet <= spi
=============================================================================
