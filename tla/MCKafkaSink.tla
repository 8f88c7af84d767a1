---------------------------- MODULE MCKafkaSink ----------------------------
\* Instances of KafkaSink: both ways of delivery, with and without a buffer.
EXTENDS KafkaSink

Mode(s, b, r, m, n) ==
  [synch |-> s, bufSize |-> b, randomErrors |-> r, messages |-> m, resets |-> n]

\* Four messages fill a buffer of three and start another.
MCModes ==
  {Mode(TRUE, 1, FALSE, 4, 1), Mode(TRUE, 3, TRUE, 4, 1),
   Mode(FALSE, 2, FALSE, 3, 0), Mode(FALSE, 2, FALSE, 2, 1), Mode(FALSE, 1, FALSE, 2, 1)}

\* Asynchronous delivery without a buffer.
DirectModes == {Mode(FALSE, 1, FALSE, 2, 0)}
=============================================================================
