---------------------------- MODULE MCUploadLocks ----------------------------
(* A small instance of UploadLocks for TLC. *)
EXTENDS UploadLocks

CONSTANTS i1, i2, k1

Job(kind, i) == [kind |-> kind, id |-> i, index |-> k1]

\* Chunks and completions of two uploads, a cancel of one, and a mutation of
\* the file service, which names no upload.
SomeRequests ==
  {Job("chunk", i1), Job("chunk", i2), Job("complete", i1), Job("complete", i2),
   Job("cancel", i1), Job("files", i1)}
=============================================================================
