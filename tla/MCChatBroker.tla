---------------------------- MODULE MCChatBroker ----------------------------
(* Small instances of ChatBroker for TLC.                                   *)
EXTENDS ChatBroker

CONSTANTS a, b

\* a keeps to the protocol; b says everything a connection may carry.
PoliteAndRude ==
  [c \in Client |-> IF c = a THEN {"chat"} ELSE {"blank", "hello", "garbage", "split"}]

\* Nobody says anything but b, whose line arrives in two segments.
OneSplitLine == [c \in Client |-> IF c = b THEN {"split"} ELSE {}]

Silence == [c \in Client |-> {}]
=============================================================================
