---------------------------- MODULE CreditLimits ----------------------------
(* The limits of the byte credits, shared by the protocol and its model.      *)
EXTENDS Integers

CONSTANTS Window,          \* limits.maxCreditWindowBytes
          ChunkBytes,      \* limits.outputChunkBytes: no message is longer
          MaxOutstanding,  \* cfg.maxOutstandingMessages
          RenewMessages    \* the client grants at least every so many messages (128)

\* What gateway/config.js enforces: a window of one chunk at least.
ASSUME CreditAssumption ==
    /\ Window \in Nat /\ ChunkBytes \in Nat \ {0} /\ ChunkBytes <= Window
    /\ MaxOutstanding \in Nat \ {0} /\ RenewMessages \in Nat \ {0}

\* The client renews the credit before it can be short of a chunk or of a message.
\* The defaults are so; config.js:68-69 also admit a window of one chunk, and eight
\* outstanding messages, which are not.
RenewsInTime == 4 * ChunkBytes <= 3 * Window /\ RenewMessages <= MaxOutstanding
=============================================================================
