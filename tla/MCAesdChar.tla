----------------------------- MODULE MCAesdChar -----------------------------
(***************************************************************************)
(* Instances of the driver for TLC.                                        *)
(***************************************************************************)
EXTENDS AesdChar, TLC

\* Writes without a newline, and the newline that completes them.
PartialAndFull == {<< "a" >>, << "nl" >>}

\* One byte; where the copy from user space may fail it can become any byte.
OneByte == {<< "a" >>}

\* What aesdsocket writes: packets that end with their newline.
Packets == {<< "nl" >>, << "a", "nl" >>}

RewindAndEnd == {<< SEEK_SET, 0 >>, << SEEK_END, 0 >>}
Rewind == {<< SEEK_SET, 0 >>}

OneCommand == {<< 1, 1 >>}

\* The threads run the same code on files of their own.
ThreadSymmetry == Permutations(Threads)

=============================================================================
