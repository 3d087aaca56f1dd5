----------------------------- MODULE ByteStream -----------------------------
(***************************************************************************)
(* What the users of a pipe between two muths rely on: a bounded, ordered, *)
(* reliable stream of bytes with one end-of-file, whose reader may go away.*)
(***************************************************************************)
EXTENDS Naturals, Sequences

CONSTANTS Byte, Cap

VARIABLES sent,   \* every byte a write has been told was taken, in order
          rcvd,   \* every byte a read has returned, in order
          ends,   \* the ends that are still open, a subset of {"r", "w"}
          eof,    \* a read has returned 0
          epipe   \* a write has failed with EPIPE

Init == /\ sent = <<>>
        /\ rcvd = <<>>
        /\ ends = {"r", "w"}
        /\ eof = FALSE
        /\ epipe = FALSE

\* t is s and at least one more element.
Continues(t, s) == Len(t) > Len(s) /\ SubSeq(t, 1, Len(s)) = s

\* Bytes in flight never exceed the capacity.
Write == /\ "w" \in ends
         /\ "r" \in ends
         /\ sent' \in Seq(Byte)
         /\ Continues(sent', sent)
         /\ Len(sent') <= Len(rcvd) + Cap
         /\ UNCHANGED <<rcvd, ends, eof, epipe>>

\* What is read continues what was read before, in the order it was sent.
Read == /\ "r" \in ends
        /\ Continues(rcvd', rcvd)
        /\ rcvd' = SubSeq(sent, 1, Len(rcvd'))
        /\ UNCHANGED <<sent, ends, eof, epipe>>

\* End-of-file means that the writer is gone and everything has been read.
ReadEof == /\ "w" \notin ends
           /\ rcvd = sent
           /\ eof' = TRUE
           /\ UNCHANGED <<sent, rcvd, ends, epipe>>

WriteEpipe == /\ "r" \notin ends
              /\ epipe' = TRUE
              /\ UNCHANGED <<sent, rcvd, ends, eof>>

Close(e) == /\ e \in ends
            /\ ends' = ends \ {e}
            /\ UNCHANGED <<sent, rcvd, eof, epipe>>

Next == Write \/ Read \/ ReadEof \/ WriteEpipe \/ \E e \in {"r", "w"} : Close(e)

svars == <<sent, rcvd, ends, eof, epipe>>

Spec == Init /\ [][Next]_svars
=============================================================================
