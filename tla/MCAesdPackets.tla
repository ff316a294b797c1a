--------------------------- MODULE MCAesdPackets ----------------------------
(***************************************************************************)
(* Instances of the packet loop for TLC.                                   *)
(***************************************************************************)
EXTENDS AesdPackets, TLC

\* Two packets, and a command before a packet: they share a read or not.
TwoLines == {<< "a", "nl", "nl" >>, << "cmd", "nl", "nl" >>}

\* One packet, as long as what one read asks for.
OnePacket == {<< "a", "nl" >>}

SecondPacket == << 1, 1 >>

\* The connections run the same code.
ConnSymmetry == Permutations(Conns)

=============================================================================
