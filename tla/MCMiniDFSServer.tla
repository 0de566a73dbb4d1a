-------------------------- MODULE MCMiniDFSServer --------------------------
(* Small instances of MiniDFSServer for TLC.                               *)
EXTENDS MiniDFSServer

CONSTANTS t1, t2, c1, c2, c3, v1, v2

(* Every operation is another client's, or two of them are made under one  *)
(* client id: by one client, or by two that were given the same.           *)
OneClientEach == [t \in Threads |-> IF t = t1 THEN c1 ELSE IF t = t2 THEN c2 ELSE c3]
TwoShareAClient == [t \in Threads |-> IF t \in {t1, t2} THEN c1 ELSE c2]

(* The local files that clients store.                                     *)
OneChunk == {<<v2>>}
OneChunkOrNone == {<<>>, <<v2>>}
OneOrTwoChunks == {<<v1>>, <<v2, v2>>}
AnyLocalFile == OneOrTwoChunks \cup {<<>>, NoFile}
=============================================================================
