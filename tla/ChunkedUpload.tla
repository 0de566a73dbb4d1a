---------------------------- MODULE ChunkedUpload ----------------------------
(***************************************************************************)
(* HttpClient::chunked_upload                                              *)
(* (minidfs/src/application/core/http_client.cpp): a file is sent to an    *)
(* upload session of Microsoft Graph chunk by chunk, while it may be cut   *)
(* short, cancelled, refused, or lose an answer.                           *)
(*                                                                         *)
(* Lengths are counted in parts of a chunk.  The session takes ranges that *)
(* continue what it has, and says when it has the whole file.              *)
(***************************************************************************)
EXTENDS Naturals

CONSTANTS
  Uploads,
  ChunkSize,  \* aligned_chunk_size
  MaxSize     \* bound: length of a file

VARIABLES
  length,    \* length[u]: how long the file is
  size,      \* file_size: how long it was when it was opened
  uploaded,  \* bytes_uploaded
  last,      \* bytes_read, of the chunk that is sent
  cancel,    \* cancel_flag
  phase,     \* phase[u]: "open", "loop", "sent", or the answer, or "ended"
  result,    \* result[u]: the error it returns, or "success"
  received,  \* received[u]: what the session has
  whole      \* whole[u]: the session has said that it has everything

vars == <<length, size, uploaded, last, cancel, phase, result, received, whole>>
sizes == <<size, uploaded, last>>
cloud == <<received, whole>>

Least(m, n) == IF m < n THEN m ELSE n
Goes(u, where) == phase' = [phase EXCEPT ![u] = where]
Returns(u, error) == Goes(u, "ended") /\ result' = [result EXCEPT ![u] = error]

Init ==
  /\ length \in [Uploads -> 0..MaxSize]
  /\ size = [u \in Uploads |-> 0]
  /\ uploaded = [u \in Uploads |-> 0]
  /\ last = [u \in Uploads |-> 0]
  /\ cancel = [u \in Uploads |-> FALSE]
  /\ phase = [u \in Uploads |-> "open"]
  /\ result = [u \in Uploads |-> "none"]
  /\ received = [u \in Uploads |-> 0]
  /\ whole = [u \in Uploads |-> FALSE]

-----------------------------------------------------------------------------
(* Others.                                                                 *)

Cancel(u) ==
  /\ phase[u] # "ended"
  /\ ~cancel[u]
  /\ cancel' = [cancel EXCEPT ![u] = TRUE]
  /\ UNCHANGED <<length, sizes, phase, result, cloud>>

CutShort(u, n) ==
  /\ phase[u] # "ended"
  /\ n < length[u]
  /\ length' = [length EXCEPT ![u] = n]
  /\ UNCHANGED <<sizes, cancel, phase, result, cloud>>

-----------------------------------------------------------------------------
(* The upload.                                                             *)

(* The file cannot be opened, or is empty.                                 *)
Open(u) ==
  /\ phase[u] = "open"
  /\ \/ Returns(u, "no file") /\ UNCHANGED size
     \/ length[u] = 0 /\ Returns(u, "empty") /\ UNCHANGED size
     \/ /\ length[u] > 0
        /\ size' = [size EXCEPT ![u] = length[u]]
        /\ Goes(u, "loop")
        /\ UNCHANGED result
  /\ UNCHANGED <<length, uploaded, last, cancel, cloud>>

(* What the next read gives: less than a chunk at the end of the file, and *)
(* nothing after it.                                                       *)
BytesRead(u) ==
  Least(Least(ChunkSize, size[u] - uploaded[u]),
        IF length[u] > uploaded[u] THEN length[u] - uploaded[u] ELSE 0)

(* With a fault: what falls out of the loop has succeeded.                 *)
ReadChunkOrSucceed(u) ==
  /\ phase[u] = "loop"
  /\ \/ /\ uploaded[u] = size[u] \/ (~cancel[u] /\ BytesRead(u) = 0)
        /\ Returns(u, "success") /\ UNCHANGED last
     \/ uploaded[u] < size[u] /\ cancel[u] /\ Returns(u, "cancelled") /\ UNCHANGED last
     \/ /\ uploaded[u] < size[u] /\ ~cancel[u] /\ BytesRead(u) > 0
        /\ last' = [last EXCEPT ![u] = BytesRead(u)]
        /\ Goes(u, "sent")
        /\ UNCHANGED result
  /\ UNCHANGED <<length, size, uploaded, cancel, cloud>>

(* The head of the loop: everything is sent, the flag is set, a read fails *)
(* or gives nothing, or a chunk is sent.                                   *)
ReadChunk(u) ==
  /\ phase[u] = "loop"
  /\ \/ /\ uploaded[u] = size[u] \/ (~cancel[u] /\ BytesRead(u) = 0)
        /\ Returns(u, "no completion") /\ UNCHANGED last
     \/ uploaded[u] < size[u] /\ cancel[u] /\ Returns(u, "cancelled") /\ UNCHANGED last
     \/ uploaded[u] < size[u] /\ ~cancel[u] /\ Returns(u, "unreadable") /\ UNCHANGED last
     \/ /\ uploaded[u] < size[u] /\ ~cancel[u] /\ BytesRead(u) > 0
        /\ last' = [last EXCEPT ![u] = BytesRead(u)]
        /\ Goes(u, "sent")
        /\ UNCHANGED result
  /\ UNCHANGED <<length, size, uploaded, cancel, cloud>>

(* The session takes the range uploaded .. uploaded + last - 1 of size, if *)
(* it goes on where the last one ended; its answer may be lost.            *)
SessionTakes(u) ==
  /\ phase[u] = "sent"
  /\ received[u] = uploaded[u] /\ ~whole[u]
  /\ received' = [received EXCEPT ![u] = @ + last[u]]
  /\ whole' = [whole EXCEPT ![u] = uploaded[u] + last[u] = size[u]]
  /\ \/ Goes(u, IF whole'[u] THEN "created" ELSE "accepted")
     \/ Goes(u, "lost")
  /\ UNCHANGED <<length, sizes, cancel, result>>

SessionRefuses(u) ==
  /\ phase[u] = "sent"
  /\ \E answer \in {"refused", "lost"} : Goes(u, answer)
  /\ UNCHANGED <<length, sizes, cancel, result, cloud>>

AnswerFails(u) ==
  /\ phase[u] \in {"refused", "lost"}
  /\ Returns(u, phase[u])
  /\ UNCHANGED <<length, sizes, cancel, cloud>>

(* The chunk is counted; progress_cb may end the upload, even one that is  *)
(* complete; it is complete when the session says so.                      *)
AnswerApplied(u) ==
  /\ phase[u] \in {"accepted", "created"}
  /\ uploaded' = [uploaded EXCEPT ![u] = @ + last[u]]
  /\ \/ Returns(u, "stopped by callback")
     \/ phase[u] = "created" /\ Returns(u, "success")
     \/ phase[u] = "accepted" /\ Goes(u, "loop") /\ UNCHANGED result
  /\ UNCHANGED <<length, size, last, cancel, cloud>>

Step(u) ==
  \/ Open(u) \/ ReadChunk(u) \/ SessionTakes(u) \/ SessionRefuses(u)
  \/ AnswerFails(u) \/ AnswerApplied(u)

Next == \E u \in Uploads : Step(u) \/ Cancel(u) \/ \E n \in 0..MaxSize : CutShort(u, n)

Spec == Init /\ [][Next]_vars

-----------------------------------------------------------------------------
(* Properties.                                                             *)

Errors == {"no file", "empty", "no completion", "cancelled", "unreadable",
           "refused", "lost", "stopped by callback"}

TypeOK ==
  /\ length \in [Uploads -> 0..MaxSize]
  /\ size \in [Uploads -> 0..MaxSize]
  /\ \A u \in Uploads : uploaded[u] \in 0..size[u] /\ last[u] \in 0..ChunkSize
  /\ cancel \in [Uploads -> BOOLEAN]
  /\ phase \in [Uploads -> {"open", "loop", "sent", "accepted", "created",
                            "refused", "lost", "ended"}]
  /\ result \in [Uploads -> Errors \cup {"none", "success"}]
  /\ received \in [Uploads -> 0..MaxSize]
  /\ whole \in [Uploads -> BOOLEAN]

(* An upload that reports success has sent the whole file, even if it was  *)
(* cut short on the way.                                                   *)
SuccessIsWhole(u) ==
  result[u] = "success" => whole[u] /\ received[u] = size[u] /\ uploaded[u] = size[u]

(* A file that the session has as a whole is reported so, unless the last  *)
(* answer was lost or the callback stopped the upload after it.            *)
CompletionIsReported(u) ==
  whole[u] /\ phase[u] = "ended" => result[u] \in {"success", "lost", "stopped by callback"}

(* What is counted as uploaded is what the session has, up to the chunk    *)
(* that is on its way.                                                     *)
CountedIsReceived(u) == received[u] \in {uploaded[u], uploaded[u] + last[u]}

UploadsAreReported ==
  \A u \in Uploads : SuccessIsWhole(u) /\ CompletionIsReported(u) /\ CountedIsReceived(u)
=============================================================================
