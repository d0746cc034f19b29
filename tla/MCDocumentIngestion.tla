------------------------- MODULE MCDocumentIngestion -------------------------
(* Instances of DocumentIngestion for TLC.                                  *)
EXTENDS DocumentIngestion

CONSTANTS c1, c2, w1

MCRequests == Calls \X (0..MaxRetries)

MCOneWorkspace == [r \in Requests |-> w1]

(* The first client's documents are the larger ones; the attempts of a call *)
(* carry the same body.                                                     *)
MCSizes == [r \in Requests |-> IF r[1] = c1 THEN 2 ELSE 1]

(* A workspace bound by its number of documents, or by its storage.         *)
MCLimits == {[maxDocs |-> 2, maxBytes |-> 9], [maxDocs |-> 9, maxBytes |-> 2]}

(* All payloads validate, or the second client's do not.                    *)
MCMalformedSets == {{}, {r \in Requests : r[1] = c2}}
=============================================================================
