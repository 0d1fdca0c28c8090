------------------------------- MODULE Uploads ------------------------------
(***************************************************************************)
(* The uploads an instance of the model contains.  Every upload draws a    *)
(* fresh uuid4 as its document_id, so a document stands for one upload.    *)
(***************************************************************************)
EXTENDS Naturals

CONSTANTS
  Documents,   \* the document_ids uploads draw
  Contents,    \* the distinct SHA-256 digests of uploaded bytes
  Sha256,      \* the digest of the bytes uploaded under each document_id
  None         \* no document

ASSUME Sha256Assumption == Sha256 \in [Documents -> Contents]
ASSUME NoneAssumption == None \notin Documents
=============================================================================
